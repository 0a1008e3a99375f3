---------------------------- MODULE Files_proofs ----------------------------
(***************************************************************************)
(* Theorems about the two kinds of files that programs share: the cache of *)
(* TradeHistory, and the Journal.                                          *)
(*                                                                         *)
(* For any programs, pages and trades: a walk that succeeds is whole, what *)
(* loads is what a complete walk found, unless two of them wrote headers   *)
(* of different lengths into one file, and a cache that is not written by  *)
(* two programs at once only gets better.                                  *)
(*                                                                         *)
(* For journals of every length and any number of processes: what one      *)
(* process at a time writes verifies, damage to one line is found where it *)
(* is, and two histories never verify as one.                              *)
(***************************************************************************)
EXTENDS TradeHistory, Journal, FiniteSetTheorems, SequenceTheorems, TLAPS

Phases == {"start", "asking", "refused", "too many", "gave up", "opening", "writing", "replacing",
           "done", "failed", "loaded", "unreadable", "crashed"}

Saving == {"opening", "writing", "replacing"}

\* What the proofs need of the types beyond TypeOK.
Arrays ==
  /\ phase \in [Programs -> Phases] /\ cursor \in [Programs -> 1 .. MaxTrades \cup {None}]
  /\ raw \in [Programs -> Seq(1 .. MaxTrades)] /\ trades \in [Programs -> Seq(0 .. MaxTrades)]
  /\ seen \in [Programs -> SUBSET (1 .. MaxTrades \cup {None})]
  /\ listed \in [Programs -> 0 .. MaxTrades]
  /\ handle \in [Programs -> {"none", "tmp", "path", "lost"}]
  /\ width \in [Programs -> HeaderLens \cup {0}] /\ at \in [Programs -> Nat]

Typed == TypeOK /\ Arrays

\* Trades are made in the order of time.
InOrder == \A i, j \in DOMAIN market : i <= j => market[i] <= market[j]

\* The rows from the newest of n trades down to the one in place c.
Down(n, c) == [k \in 1 .. n + 1 - c |-> n + 1 - k]

\* How many trades a walk goes through, and where it has come to.
Newest(p) == IF cursor[p] = None THEN Len(market) ELSE listed[p]
Place(p)  == IF cursor[p] = None THEN Len(market) + 1 ELSE cursor[p]

\* A walk has all rows from the newest one down to its place, page by page.
Walking(p) ==
  phase[p] = "asking" =>
    /\ Newest(p) <= Len(market) /\ Place(p) \in 1 .. Newest(p) + 1
    /\ raw[p] = Down(Newest(p), Place(p))
    /\ IsFiniteSet(seen[p]) /\ None \in seen[p] /\ Cardinality(seen[p]) <= MaxPages
    /\ Newest(p) + 1 - Place(p) = PageSize * (Cardinality(seen[p]) - 1)
    /\ \A s \in seen[p] : s = None \/ s >= Place(p)

Found(p) ==
  phase[p] \in Saving =>
    listed[p] \in complete /\ listed[p] <= Len(market) /\ trades[p] = FirstTrades(listed[p])

\* Piece r of the rows: of every walk the same.
RowAt(r) == Row((r + 1) \div 2, Half(r))

\* The pieces of a file that only programs with headers of length l write: rows in
\* their places, and before them nothing or one header.
Fits(f, l) ==
  /\ \A j \in DOMAIN f : j > l => f[j] = Hole \/ f[j] = RowAt(j - l)
  /\ \/ \A j \in DOMAIN f : j <= l => f[j] = Hole
     \/ l <= Len(f) /\ \E n \in complete : \A j \in 1 .. l : f[j] = Header(n, l, j)

Writers(h, l) == \A q \in Programs : phase[q] = "writing" /\ handle[q] = h => width[q] = l

FileRight(f, h) == f # None => \E l \in HeaderLens : Fits(f, l) /\ Writers(h, l)

FilesRight == ~ragged => FileRight(tmp, "tmp") /\ FileRight(path, "path")

\* Handles are of files that are there; a program that writes is not done, and its
\* header is written at once.
HandlesThere ==
  \A p \in Programs :
    /\ handle[p] = "tmp"  => tmp # None
    /\ handle[p] = "path" => path # None
    /\ phase[p] \in {"writing", "replacing"} => width[p] \in HeaderLens
    /\ phase[p] = "writing" => at[p] = 0 \/ (width[p] <= at[p] /\ at[p] < Size(p))

\* WalkIsWhole and LoadedIsWhole, for one program.
Ended(p) ==
  /\ phase[p] \in {"opening", "writing", "replacing", "done"} => trades[p] = FirstTrades(listed[p])
  /\ phase[p] = "too many" => listed[p] > MaxPages * PageSize
  /\ phase[p] = "opening"  => listed[p] <= MaxPages * PageSize

Loaded(p) == phase[p] = "loaded" /\ ~ragged => \E n \in complete : trades[p] = FirstTrades(n)

Good(p) == Walking(p) /\ Found(p) /\ Ended(p) /\ Loaded(p)

AllGood == \A p \in Programs : Good(p)

WholeInv == Typed /\ InOrder /\ AllGood /\ FilesRight /\ HandlesThere

\* As long as programs do not meet:
Alone == \A p, q \in Programs : ~Idle(p) /\ ~Idle(q) => p = q

\* the first k pieces that a program writes
Text(p, k) == [j \in 1 .. k |-> Piece(p, j)]

\* are what the temporary file holds,
Own ==
  \A p \in Programs :
    /\ phase[p] \in {"writing", "replacing"} => handle[p] = "tmp" /\ tmp = Text(p, at[p])
    /\ phase[p] = "replacing" => at[p] = Size(p)

\* and no walk ends with less than the cache has.
Later ==
  path # None =>
    /\ Loadable(path) /\ Count(path) <= Len(market)
    /\ \A p \in Programs :
         \/ phase[p] = "asking" /\ cursor[p] # None
         \/ phase[p] \in Saving
         => Count(path) <= listed[p]

CacheInv == ~overlap => Alone /\ Own /\ Later

-----------------------------------------------------------------------------
(* Rows. *)

LEMMA Sizes ==
  /\ PageSize \in Nat \ {0} /\ MaxPages \in Nat \ {0} /\ MaxTrades \in Nat
  /\ MaxTime \in Nat /\ MaxWalks \in Nat /\ HeaderLens \subseteq Nat \ {0}
  /\ None \notin Nat /\ None \notin Seq(Pieces)
  BY HistoryAssumption

LEMMA DownIs ==
  ASSUME NEW n \in Nat, NEW c \in 1 .. n + 1
  PROVE  /\ Down(n, c) \in Seq(1 .. n) /\ Down(n, c) \in Seq(Int) /\ Len(Down(n, c)) = n + 1 - c
         /\ DOMAIN Down(n, c) = 1 .. n + 1 - c
         /\ \A k \in 1 .. n + 1 - c : Down(n, c)[k] = n + 1 - k
<1> DEFINE m == n + 1 - c
<1>1. m \in Nat /\ m <= n
  OBVIOUS
<1>2. \A k \in 1 .. m : n + 1 - k \in 1 .. n
  BY <1>1
<1>3. Down(n, c) \in [1 .. m -> 1 .. n]
  BY <1>2 DEF Down
<1> HIDE DEF m
<1>4. Down(n, c) \in Seq(1 .. n) /\ Len(Down(n, c)) = m /\ DOMAIN Down(n, c) = 1 .. m
  BY <1>1, <1>3
<1>5. Down(n, c) \in [1 .. m -> Int]
  BY <1>3
<1>6. Down(n, c) \in Seq(Int)
  BY <1>1, <1>5
<1> QED
  BY <1>4, <1>6 DEF m, Down

\* The rows of a whole walk are turned round, for trades are in the order of time.
LEMMA NormalisedIs ==
  ASSUME market \in Seq(Int), InOrder, NEW n \in Nat, n <= Len(market)
  PROVE  Normalised(Down(n, 1)) = FirstTrades(n)
<1> DEFINE rows == Down(n, 1)
           Before(i, j) == \/ market[rows[i]] < market[rows[j]]
                           \/ (market[rows[i]] = market[rows[j]] /\ i > j)
           Rank(i) == 1 + Cardinality({j \in DOMAIN rows : Before(j, i)})
           Place1(k) == CHOOSE i \in DOMAIN rows : Rank(i) = k
<1>1. DOMAIN rows = 1 .. n /\ \A k \in 1 .. n : rows[k] = n + 1 - k
  BY DownIs
<1>2. Normalised(rows) = [k \in DOMAIN rows |-> rows[Place1(k)]]
  BY DEF Normalised
<1> HIDE DEF rows
<1>3. ASSUME NEW i \in 1 .. n, NEW j \in 1 .. n
      PROVE  Before(j, i) <=> j > i
  <2>1. rows[i] = n + 1 - i /\ rows[j] = n + 1 - j
    BY <1>1
  <2>2. rows[i] \in DOMAIN market /\ rows[j] \in DOMAIN market
    BY <2>1
  <2>3. market[rows[i]] \in Int /\ market[rows[j]] \in Int
    BY <2>2
  <2>4. CASE j > i
    <3>1. market[rows[j]] <= market[rows[i]]
      <4>1. rows[j] <= rows[i]
        BY <2>1, <2>4
      <4> QED
        BY <2>2, <4>1 DEF InOrder
    <3> QED
      BY <2>3, <2>4, <3>1
  <2>5. CASE ~(j > i)
    <3>1. market[rows[i]] <= market[rows[j]]
      <4>1. rows[i] <= rows[j]
        BY <2>1, <2>5
      <4> QED
        BY <2>2, <4>1 DEF InOrder
    <3> QED
      BY <2>3, <2>5, <3>1
  <2> QED
    BY <2>4, <2>5
<1>4. ASSUME NEW i \in 1 .. n
      PROVE  Rank(i) = 1 + n - i
  <2>1. {j \in DOMAIN rows : Before(j, i)} = i + 1 .. n
    <3>1. {j \in DOMAIN rows : Before(j, i)} = {j \in 1 .. n : j > i}
      BY <1>1, <1>3
    <3> QED
      BY <3>1
  <2>2. Cardinality(i + 1 .. n) = n - i
    <3>1. Cardinality(i + 1 .. n) = IF i + 1 > n THEN 0 ELSE n - (i + 1) + 1
      BY FS_Interval
    <3> QED
      BY <3>1
  <2> QED
    BY <2>1, <2>2
<1> HIDE DEF Rank
<1>5. ASSUME NEW k \in 1 .. n
      PROVE  rows[Place1(k)] = k
  <2>1. n + 1 - k \in 1 .. n /\ Rank(n + 1 - k) = k
    BY <1>4
  <2>2. \E i \in DOMAIN rows : Rank(i) = k
    BY <1>1, <2>1
  <2>3. Place1(k) \in DOMAIN rows /\ Rank(Place1(k)) = k
    BY <2>2
  <2> HIDE DEF Place1
  <2>4. Place1(k) \in 1 .. n /\ 1 + n - Place1(k) = k
    BY <1>1, <1>4, <2>3
  <2> QED
    BY <1>1, <2>4
<1> HIDE DEF Place1
<1>6. Normalised(rows) = [k \in 1 .. n |-> k]
  BY <1>1, <1>2, <1>5
<1> QED
  BY <1>6 DEF FirstTrades, rows

\* A page goes on where the rows so far have ended.
LEMMA NextRows ==
  ASSUME NEW n \in Nat, NEW c \in 1 .. n + 1, NEW b \in 0 .. c - 1
  PROVE  Down(n, c) \o [k \in 1 .. c - 1 - b |-> c - k] = Down(n, b + 1)
<1> DEFINE f == Down(n, c)
           g == [k \in 1 .. c - 1 - b |-> c - k]
           h == Down(n, b + 1)
           m == n + 1 - c
           l == c - 1 - b
<1>1. f \in Seq(Int) /\ Len(f) = m /\ \A k \in 1 .. m : f[k] = n + 1 - k
  BY DownIs
<1>2. m \in Nat /\ l \in Nat /\ m + l = n - b /\ b + 1 \in 1 .. n + 1
  OBVIOUS
<1>3. g \in Seq(Int) /\ Len(g) = l /\ \A k \in 1 .. l : g[k] = c - k
  <2>1. g \in [1 .. l -> Int]
    OBVIOUS
  <2> HIDE DEF l
  <2> QED
    BY <1>2, <2>1 DEF l
<1>4. h \in Seq(Int) /\ Len(h) = n - b /\ \A k \in 1 .. n - b : h[k] = n + 1 - k
  <2>1. n + 1 - (b + 1) = n - b /\ b + 1 \in 1 .. n + 1
    OBVIOUS
  <2> QED
    BY <2>1, DownIs
<1>5. \A k \in 1 .. n - b : (f \o g)[k] = n + 1 - k
  <2> SUFFICES ASSUME NEW k \in 1 .. n - b PROVE (f \o g)[k] = n + 1 - k
    OBVIOUS
  <2> HIDE DEF f, g
  <2>1. CASE k <= m
    BY <1>1, <1>2, <1>3, <2>1
  <2>2. CASE ~(k <= m)
    <3>1. k - m \in 1 .. l /\ (f \o g)[k] = g[k - m]
      BY <1>1, <1>2, <1>3, <2>2, SMTT(60)
    <3>2. g[k - m] = c - (k - m)
      BY <1>3, <3>1
    <3> QED
      BY <3>1, <3>2
  <2> QED
    BY <2>1, <2>2
<1> HIDE DEF f, g, h, m, l
<1>6. f \o g \in Seq(Int) /\ Len(f \o g) = n - b
  BY <1>1, <1>2, <1>3
<1>7. f \o g = h
  <2> DEFINE fg == f \o g
  <2>1. fg \in Seq(Int) /\ Len(fg) = Len(h) /\ \A k \in 1 .. Len(fg) : fg[k] = h[k]
    BY <1>4, <1>5, <1>6
  <2> HIDE DEF fg
  <2>2. fg = h
    BY <1>4, <2>1, SeqEqual
  <2> QED
    BY <2>2 DEF fg
<1> QED
  BY <1>7 DEF f, g, h

LEMMA FirstTradesIs ==
  ASSUME NEW n \in Nat
  PROVE  /\ FirstTrades(n) \in Seq(1 .. n) /\ Len(FirstTrades(n)) = n
         /\ \A i \in 1 .. n : FirstTrades(n)[i] = i
<1>1. FirstTrades(n) \in [1 .. n -> 1 .. n]
  BY DEF FirstTrades
<1>2. FirstTrades(n) \in Seq(1 .. n) /\ Len(FirstTrades(n)) = n
  BY <1>1
<1> QED
  BY <1>2 DEF FirstTrades

-----------------------------------------------------------------------------
(* Programs that do nothing, or nothing but save what they found. *)

LEMMA MarketIs ==
  ASSUME Typed
  PROVE  /\ market \in Seq(0 .. MaxTime) /\ market \in Seq(Int)
         /\ Len(market) \in 0 .. MaxTrades /\ DOMAIN market = 1 .. Len(market)
<1>1. market \in Seq(0 .. MaxTime) /\ Len(market) \in Nat /\ Len(market) <= MaxTrades
  BY DEF Typed, TypeOK
<1>2. 0 .. MaxTime \subseteq Int
  BY Sizes
<1>3. market \in Seq(Int)
  BY <1>1, <1>2, SeqMonotonic
<1> QED
  BY <1>1, <1>3, Sizes

\* What one program has in memory.
Memory(p) == <<cursor[p], raw[p], seen[p], listed[p], trades[p]>>

\* Trades that are made meanwhile change nothing for a walk.
LEMMA GoodStays ==
  ASSUME Typed, NEW p \in Programs, Good(p), phase'[p] = phase[p], Memory(p)' = Memory(p),
         market' \in Seq(Int), Len(market) <= Len(market'), complete \subseteq complete',
         ragged => ragged'
  PROVE  Good(p)'
<1>1. /\ cursor'[p] = cursor[p] /\ raw'[p] = raw[p] /\ seen'[p] = seen[p]
      /\ listed'[p] = listed[p] /\ trades'[p] = trades[p]
  BY DEF Memory
<1>2. Found(p)' /\ Ended(p)' /\ Loaded(p)'
  <2>1. Len(market) \in Nat /\ Len(market') \in Nat /\ listed[p] \in Nat
    BY Sizes DEF Typed, TypeOK
  <2>2. listed[p] <= Len(market) => listed[p] <= Len(market')
    BY <2>1
  <2> QED
    BY <1>1, <2>2 DEF Good, Found, Ended, Loaded, FirstTrades
<1>3. Walking(p)'
  <2> SUFFICES ASSUME phase[p] = "asking" PROVE Walking(p)'
    BY DEF Walking
  <2>1. Walking(p) /\ Len(market) \in Nat /\ Len(market') \in Nat
    BY DEF Good, Typed, TypeOK
  <2>2. CASE cursor[p] = None
    <3>1. Newest(p) = Len(market) /\ Place(p) = Len(market) + 1
          /\ Newest(p)' = Len(market') /\ Place(p)' = Len(market') + 1
      BY <1>1, <2>2 DEF Newest, Place
    <3>2. \A n \in Nat : Down(n, n + 1) = << >>
      <4> SUFFICES ASSUME NEW n \in Nat PROVE Down(n, n + 1) = << >>
        OBVIOUS
      <4>1. 1 .. n + 1 - (n + 1) = {}
        OBVIOUS
      <4> QED
        BY <4>1 DEF Down
    <3>3. raw[p] = << >> /\ Cardinality(seen[p]) \in Nat
      BY <2>1, <3>1, <3>2, FS_CardinalityType DEF Walking
    <3>4. PageSize * (Cardinality(seen[p]) - 1) = 0
      BY <2>1, <3>1 DEF Walking
    <3>5. Cardinality(seen[p]) >= 1
      BY <2>1, <3>3, FS_EmptySet DEF Walking
    <3>6. \A s \in seen[p] : s = None
      <4>1. Cardinality(seen[p]) = 1
        BY <3>3, <3>4, <3>5, Sizes
      <4>2. {None} \subseteq seen[p] /\ Cardinality({None}) = 1
        BY <2>1, FS_Singleton DEF Walking
      <4>3. {None} = seen[p]
        BY <2>1, <4>1, <4>2, FS_Subset DEF Walking
      <4> QED
        BY <4>3
    <3>7. /\ Newest(p)' <= Len(market') /\ Place(p)' \in 1 .. Newest(p)' + 1
          /\ Newest(p)' + 1 - Place(p)' = 0
      BY <2>1, <3>1
    <3>8. raw'[p] = Down(Newest(p)', Place(p)')
      BY <1>1, <2>1, <3>1, <3>2, <3>3
    <3>9. Walking(p)' <=>
            /\ Newest(p)' <= Len(market') /\ Place(p)' \in 1 .. Newest(p)' + 1
            /\ raw'[p] = Down(Newest(p)', Place(p)')
            /\ IsFiniteSet(seen'[p]) /\ None \in seen'[p] /\ Cardinality(seen'[p]) <= MaxPages
            /\ Newest(p)' + 1 - Place(p)' = PageSize * (Cardinality(seen'[p]) - 1)
            /\ \A s \in seen'[p] : s = None \/ s >= Place(p)'
      BY DEF Walking, Down
    <3> QED
      BY <1>1, <2>1, <3>4, <3>6, <3>7, <3>8, <3>9 DEF Walking
  <2>3. CASE cursor[p] # None
    <3>1. Newest(p) = listed[p] /\ Place(p) = cursor[p] /\ Newest(p)' = Newest(p) /\ Place(p)' = Place(p)
      BY <1>1, <2>3 DEF Newest, Place
    <3>2. Newest(p) <= Len(market')
      BY <2>1, <3>1 DEF Walking, Typed, Arrays
    <3> QED
      BY <1>1, <2>1, <3>1, <3>2 DEF Walking, Down
  <2> QED
    BY <2>2, <2>3
<1> QED
  BY <1>2, <1>3 DEF Good

\* Saving goes on, or a program stops.
LEMMA GoodGoesOn ==
  ASSUME NEW p \in Programs, Good(p), Memory(p)' = Memory(p),
         complete' = complete, market' = market,
         \/ phase[p] \in Saving /\ phase'[p] \in {"writing", "replacing", "done"}
         \/ phase'[p] \in {"gave up", "failed", "crashed"}
  PROVE  Good(p)'
  BY DEF Memory, Good, Walking, Found, Ended, Loaded, FirstTrades, Saving

LEMMA OthersGood ==
  ASSUME Typed, NEW p \in Programs, AllGood,
         \A q \in Programs \ {p} : phase'[q] = phase[q] /\ Memory(q)' = Memory(q),
         market' = market, complete \subseteq complete', ragged => ragged', Good(p)'
  PROVE  AllGood'
<1> SUFFICES ASSUME NEW q \in Programs, q # p PROVE Good(q)'
  BY DEF AllGood
<1>1. Len(market) \in Nat /\ market \in Seq(Int)
  BY MarketIs
<1>2. market' \in Seq(Int) /\ Len(market) <= Len(market')
  BY <1>1
<1> QED
  BY <1>2, GoodStays DEF AllGood

-----------------------------------------------------------------------------
(* Types. *)

Globals ==
  /\ market \in Seq(0 .. MaxTime) /\ Len(market) <= MaxTrades
  /\ tmp \in Seq(Pieces) \cup {None} /\ path \in Seq(Pieces) \cup {None}
  /\ walks \in 0 .. MaxWalks /\ overlap \in BOOLEAN /\ ragged \in BOOLEAN
  /\ complete \subseteq 0 .. MaxTrades

LEMMA TypedIs == (Arrays /\ Globals <=> Typed) /\ (Arrays' /\ Globals' <=> Typed')
<1>1. Arrays /\ Globals => TypeOK
  BY DEF Arrays, Globals, TypeOK
<1>2. Arrays' /\ Globals' => TypeOK'
  BY DEF Arrays, Globals, TypeOK
<1>3. TypeOK => Globals
  BY DEF Globals, TypeOK
<1>4. TypeOK' => Globals'
  BY DEF Globals, TypeOK
<1> QED
  BY <1>1, <1>2, <1>3, <1>4 DEF Typed

LEMMA InitTyped == Init => Typed
<1> SUFFICES ASSUME Init PROVE Typed
  OBVIOUS
<1>1. << >> \in Seq(0 .. MaxTime) /\ Len(<< >>) = 0 /\ << >> \in Seq(1 .. MaxTrades)
  BY EmptySeq
<1>2. Globals
  <2>1. market = << >> /\ walks = 0 /\ overlap = FALSE /\ ragged = FALSE /\ complete = {} /\ tmp = None /\ path = None
    BY DEF Init
  <2>2. market \in Seq(0 .. MaxTime) /\ Len(market) <= MaxTrades /\ walks \in 0 .. MaxWalks
    BY <1>1, <2>1, Sizes
  <2> QED
    BY <2>1, <2>2, Zenon DEF Globals
<1>3. Arrays
  BY <1>1, Sizes DEF Init, Arrays, Phases
<1> QED
  BY <1>2, <1>3, TypedIs

LEMMA TradeTyped == Typed /\ Trade => Typed'
<1> SUFFICES ASSUME Typed, Trade PROVE Typed'
  OBVIOUS
<1>1. Arrays'
  BY DEF Trade, walk, files, Typed, Arrays
<1>2. PICK ts \in 0 .. MaxTime : market' = Append(market, ts)
  BY DEF Trade
<1>3. market' \in Seq(0 .. MaxTime) /\ Len(market') = Len(market) + 1
  BY <1>2, MarketIs, AppendProperties
<1>4. Len(market') <= MaxTrades
  BY <1>3, MarketIs, Sizes DEF Trade
<1>5. Globals'
  BY <1>3, <1>4, TypedIs DEF Globals, Trade, files
<1> QED
  BY <1>1, <1>5, TypedIs

LEMMA FunctionIsSeq ==
  ASSUME NEW S, NEW m \in Nat, NEW g \in [1 .. m -> S]
  PROVE  g \in Seq(S) /\ Len(g) = m
  OBVIOUS

\* The trades that a file says when every line is as somebody wrote it.
LEMMA RowsAre ==
  ASSUME NEW f \in Seq(Pieces), Closed(f), Intact(f)
  PROVE  /\ f[1].width \in Nat \ {0} /\ f[1].width <= Len(f) /\ Count(f) \in 0 .. MaxTrades
         /\ RowsOf(f) \in Seq(1 .. MaxTrades) /\ RowsOf(f) \in Seq(0 .. MaxTrades)
         /\ Len(RowsOf(f)) = (Len(f) - f[1].width) \div 2
<1>1. Len(f) \in Nat /\ DOMAIN f = 1 .. Len(f) /\ 1 \in DOMAIN f
  BY EmptySeq, LenProperties DEF Closed
<1>2. f[1] \in Pieces /\ f[1].kind = "header"
  BY <1>1, ElementOfSeq DEF Closed
<1>3. f[1].width \in HeaderLens /\ Count(f) \in 0 .. MaxTrades
  BY <1>2 DEF Pieces, Hole, Count
<1>4. PICK l \in Nat \ {0} : l = f[1].width
  BY <1>3, Sizes
<1>5. l <= Len(f)
  BY <1>4 DEF Intact
<1>6. PICK m \in Nat : m = (Len(f) - l) \div 2 /\ l + 2 * m <= Len(f)
  <2>1. \A d \in Nat : d \div 2 \in Nat /\ 2 * (d \div 2) <= d
    OBVIOUS
  <2>2. Len(f) - l \in Nat
    BY <1>1, <1>5
  <2> QED
    BY <1>1, <2>1, <2>2
<1>7. ASSUME NEW k \in 1 .. m PROVE f[l + 2 * k].trade \in 1 .. MaxTrades
  <2>1. l + 2 * k \in 1 .. Len(f) /\ ~ l + 2 * k - l <= 0
    BY <1>1, <1>6
  <2>2. f[l + 2 * k].kind = "row"
    BY <1>1, <1>4, <2>1 DEF Intact
  <2>3. f[l + 2 * k] \in Pieces
    BY <1>1, <2>1, ElementOfSeq
  <2> QED
    BY <2>2, <2>3 DEF Pieces, Hole
<1>8. RowsOf(f) = [k \in 1 .. m |-> f[l + 2 * k].trade]
  BY <1>4, <1>6 DEF RowsOf
<1>9. RowsOf(f) \in [1 .. m -> 1 .. MaxTrades]
  BY <1>7, <1>8
<1>10. RowsOf(f) \in Seq(1 .. MaxTrades) /\ Len(RowsOf(f)) = m
  <2>1. PICK g, S : g = RowsOf(f) /\ S = 1 .. MaxTrades
    OBVIOUS
  <2>2. g \in [1 .. m -> S]
    BY <1>9, <2>1
  <2>3. g \in Seq(S) /\ Len(g) = m
    BY <2>2, FunctionIsSeq
  <2> QED
    BY <2>1, <2>3
<1>11. 1 .. MaxTrades \subseteq 0 .. MaxTrades
  BY Sizes
<1> QED
  BY <1>3, <1>4, <1>5, <1>6, <1>10, <1>11, SeqMonotonic

LEMMA LoadTyped ==
  ASSUME Typed, NEW p \in Programs, path # None, Load(p), UNCHANGED <<market, files>>
  PROVE  Typed'
<1>1. path \in Seq(Pieces) /\ Len(path) \in Nat /\ DOMAIN path = 1 .. Len(path)
  BY DEF Typed, TypeOK
<1>2. trades'[p] \in Seq(0 .. MaxTrades) /\ DOMAIN trades' = Programs
  <2>1. CASE trades' = [trades EXCEPT ![p] = << >>]
    BY <2>1, EmptySeq DEF Typed, Arrays
  <2>2. CASE Loadable(path) /\ trades' = [trades EXCEPT ![p] = RowsOf(path)]
    <3>1. RowsOf(path) \in Seq(0 .. MaxTrades)
      BY <1>1, <2>2, RowsAre DEF Loadable
    <3> QED
      BY <2>2, <3>1 DEF Typed, Arrays
  <2>3. CASE trades' = [trades EXCEPT ![p] = Garbled]
    <3>1. Garbled \in Seq(0 .. MaxTrades)
      BY Sizes DEF Garbled
    <3> QED
      BY <2>3, <3>1 DEF Typed, Arrays
  <2> QED
    BY <2>1, <2>2, <2>3 DEF Load
<1>3. trades' \in [Programs -> Seq(0 .. MaxTrades)]
  <2>1. \A q \in Programs \ {p} : trades'[q] = trades[q] /\ trades[q] \in Seq(0 .. MaxTrades)
    BY DEF Load, Typed, Arrays
  <2>2. trades' = [q \in Programs |-> trades'[q]]
    BY DEF Load, Typed, Arrays
  <2> QED
    BY <1>2, <2>1, <2>2
<1>4. phase' \in [Programs -> Phases]
  BY DEF Load, Typed, Arrays, Phases
<1>5. Arrays'
  BY <1>3, <1>4 DEF Load, walk, files, Typed, Arrays
<1>6. Globals'
  BY TypedIs DEF Load, files, Globals
<1> QED
  BY <1>5, <1>6, TypedIs

LEMMA AskTyped ==
  ASSUME Typed, NEW p \in Programs, Ask(p), UNCHANGED <<market, files, trades, complete>>
  PROVE  Typed'
<1>1. << >> \in Seq(1 .. MaxTrades) /\ 0 \in 0 .. MaxTrades
  BY EmptySeq, Sizes
<1>2. Arrays'
  BY <1>1 DEF Ask, files, Typed, Arrays, Phases
<1>3. walks' \in 0 .. MaxWalks /\ overlap' \in BOOLEAN
  <2>1. walks \in 0 .. MaxWalks /\ walks < MaxWalks /\ walks' = walks + 1 /\ overlap \in BOOLEAN
    BY DEF Ask, Typed, TypeOK
  <2>2. overlap' \in BOOLEAN
    BY <2>1, Zenon DEF Ask
  <2> QED
    BY <2>1, <2>2, Sizes
<1>4. Globals'
  BY <1>3, TypedIs DEF files, Globals
<1> QED
  BY <1>2, <1>4, TypedIs

\* A step that changes nothing but what phase a program is in.
LEMMA StopTyped ==
  ASSUME Typed, NEW p \in Programs, NEW at1 \in Phases, phase' = [phase EXCEPT ![p] = at1],
         UNCHANGED <<market, walk, trades, files, overlap, complete, walks>>
  PROVE  Typed'
<1>1. Arrays'
  BY DEF walk, files, Typed, Arrays
<1>2. Globals'
  BY TypedIs DEF files, Globals
<1> QED
  BY <1>1, <1>2, TypedIs

LEMMA OpenTmpTyped == ASSUME Typed, NEW p \in Programs, OpenTmp(p) PROVE Typed'
<1>1. PICK l \in HeaderLens : Opened(p, l)
  BY DEF OpenTmp
<1>2. Arrays'
  <2>1. width' \in [Programs -> HeaderLens \cup {0}] /\ at' \in [Programs -> Nat]
    BY <1>1 DEF Opened, Typed, Arrays
  <2>2. phase' \in [Programs -> Phases] /\ handle' \in [Programs -> {"none", "tmp", "path", "lost"}]
    BY <1>1 DEF OpenTmp, Opened, Typed, Arrays, Phases
  <2> QED
    BY <1>1, <2>1, <2>2 DEF Opened, walk, Typed, Arrays
<1>3. ragged' \in BOOLEAN
  <2>1. ragged \in BOOLEAN
    BY DEF Typed, TypeOK
  <2> QED
    BY <1>1, <2>1, Zenon DEF Opened
<1>4. Globals'
  <2>1. tmp' \in Seq(Pieces) /\ path' = path
    BY EmptySeq DEF OpenTmp
  <2> QED
    BY <1>1, <1>3, <2>1, TypedIs DEF Opened, Globals
<1> QED
  BY <1>2, <1>4, TypedIs

LEMMA ReplaceTyped == ASSUME Typed, NEW p \in Programs, Replace(p) PROVE Typed'
<1>1. handle' \in [Programs -> {"none", "tmp", "path", "lost"}]
  BY DEF Replace, Typed, Arrays
<1>2. Arrays'
  BY <1>1 DEF Replace, walk, Typed, Arrays, Phases
<1>3. Globals'
  BY TypedIs DEF Replace, Globals
<1> QED
  BY <1>2, <1>3, TypedIs

-----------------------------------------------------------------------------
(* Writing. *)

\* A program that saves has what the walk found in memory.
LEMMA SavedIs ==
  ASSUME Typed, NEW p \in Programs, phase[p] \in Saving, Found(p)
  PROVE  /\ listed[p] \in 0 .. MaxTrades /\ listed[p] \in Nat /\ Len(trades[p]) = listed[p]
         /\ \A i \in 1 .. listed[p] : trades[p][i] = i
<1>1. listed[p] \in 0 .. MaxTrades /\ listed[p] \in Nat
  BY Sizes DEF Typed, TypeOK
<1>2. trades[p] = FirstTrades(listed[p])
  BY DEF Found
<1> QED
  BY <1>1, <1>2, FirstTradesIs

\* A trade has two pieces.
LEMMA Halves ==
  ASSUME NEW r \in Nat \ {0}
  PROVE  /\ Half(r) \in {"front", "back"} /\ (r + 1) \div 2 \in Nat \ {0}
         /\ \A n \in Nat : r <= 2 * n => (r + 1) \div 2 <= n
         /\ Half(r) = "front" => Half(r + 1) = "back" /\ (r + 1 + 1) \div 2 = (r + 1) \div 2
  BY DEF Half

LEMMA LastHalf ==
  ASSUME NEW k \in Nat \ {0}
  PROVE  Half(2 * k) = "back" /\ (2 * k + 1) \div 2 = k
  BY DEF Half

\* What a program writes in each place.
LEMMA PieceIs ==
  ASSUME Typed, NEW p \in Programs, phase[p] \in Saving, Found(p), width[p] \in HeaderLens
  PROVE  /\ Size(p) \in Nat /\ Size(p) = width[p] + 2 * listed[p] /\ width[p] \in Nat \ {0}
         /\ \A j \in 1 .. Size(p) :
              /\ Piece(p, j) \in Pieces
              /\ Piece(p, j) = IF j <= width[p] THEN Header(listed[p], width[p], j) ELSE RowAt(j - width[p])
<1>1. /\ listed[p] \in 0 .. MaxTrades /\ listed[p] \in Nat /\ Len(trades[p]) = listed[p]
      /\ \A i \in 1 .. listed[p] : trades[p][i] = i
  BY SavedIs
<1>2. PICK n \in Nat, l \in Nat \ {0} : n = listed[p] /\ l = width[p]
  BY <1>1, Sizes
<1>3. Size(p) = l + 2 * n /\ Size(p) \in Nat
  BY <1>1, <1>2 DEF Size
<1>4. ASSUME NEW j \in 1 .. Size(p), j <= l
      PROVE  Piece(p, j) = Header(n, l, j) /\ Piece(p, j) \in Pieces
  <2>1. Piece(p, j) = Header(n, l, j)
    BY <1>1, <1>2, <1>4 DEF Piece
  <2>2. n \in 0 .. MaxTrades /\ l \in HeaderLens /\ j \in Nat
    BY <1>1, <1>2, <1>3
  <2>3. Header(n, l, j) \in Pieces
    BY <2>2 DEF Header, Pieces
  <2> QED
    BY <2>1, <2>3
<1>5. ASSUME NEW j \in 1 .. Size(p), ~(j <= l)
      PROVE  Piece(p, j) = RowAt(j - l) /\ Piece(p, j) \in Pieces
  <2>1. j - l \in Nat \ {0} /\ j - l <= 2 * n
    BY <1>3, <1>5
  <2>2. PICK r \in Nat \ {0} : r = j - l /\ r <= 2 * n
    BY <2>1
  <2>3. (r + 1) \div 2 \in 1 .. n /\ Half(r) \in {"front", "back"}
    BY <2>2, Halves
  <2>4. Piece(p, j) = Row(trades[p][(r + 1) \div 2], Half(r))
    BY <1>2, <1>5, <2>2 DEF Piece
  <2>5. trades[p][(r + 1) \div 2] = (r + 1) \div 2
    BY <1>1, <1>2, <2>3
  <2>6. Piece(p, j) = RowAt(r)
    BY <2>4, <2>5 DEF RowAt
  <2>7. (r + 1) \div 2 \in 1 .. MaxTrades
    BY <1>1, <1>2, <2>3, Sizes
  <2>8. RowAt(r) \in Pieces
    BY <2>3, <2>7 DEF RowAt, Row, Pieces
  <2> QED
    BY <2>2, <2>6, <2>8
<1> QED
  BY <1>2, <1>3, <1>4, <1>5

LEMMA WrittenIs ==
  ASSUME NEW f \in Seq(Pieces), NEW p \in Programs, NEW n \in Nat, NEW m \in Nat,
         \A j \in 1 .. m : Piece(p, j) \in Pieces
  PROVE  /\ Written(f, p, n, m) \in Seq(Pieces)
         /\ Len(Written(f, p, n, m)) = Larger(Len(f), m)
         /\ DOMAIN Written(f, p, n, m) = 1 .. Larger(Len(f), m)
         /\ Larger(Len(f), m) \in Nat /\ Len(f) <= Larger(Len(f), m) /\ m <= Larger(Len(f), m)
         /\ \A j \in 1 .. Larger(Len(f), m) :
              Written(f, p, n, m)[j] =
                IF j > n /\ j <= m THEN Piece(p, j) ELSE IF j \in DOMAIN f THEN f[j] ELSE Hole
<1> DEFINE k == Larger(Len(f), m)
           At(j) == IF j > n /\ j <= m THEN Piece(p, j) ELSE IF j \in DOMAIN f THEN f[j] ELSE Hole
<1>1. Len(f) \in Nat /\ DOMAIN f = 1 .. Len(f)
  BY LenProperties
<1>2. k \in Nat /\ Len(f) <= k /\ m <= k
  BY <1>1 DEF Larger
<1>3. Written(f, p, n, m) = [j \in 1 .. k |-> At(j)]
  BY DEF Written
<1> HIDE DEF k
<1>4. ASSUME NEW j \in 1 .. k PROVE At(j) \in Pieces
  <2>1. Hole \in Pieces
    BY DEF Pieces
  <2>2. j \in DOMAIN f => f[j] \in Pieces
    BY <1>1, ElementOfSeq
  <2>3. j > n /\ j <= m => Piece(p, j) \in Pieces
    BY <1>2
  <2> QED
    BY <2>1, <2>2, <2>3
<1> HIDE DEF At
<1>5. Written(f, p, n, m) \in [1 .. k -> Pieces]
  BY <1>3, <1>4
<1>6. /\ Written(f, p, n, m) \in Seq(Pieces) /\ Len(Written(f, p, n, m)) = k
      /\ DOMAIN Written(f, p, n, m) = 1 .. k
  BY <1>2, <1>5
<1>7. \A j \in 1 .. k : Written(f, p, n, m)[j] = At(j)
  BY <1>3
<1> QED
  BY <1>2, <1>6, <1>7 DEF k, At

\* How far a program gets that writes once more.
Further(p, n, m) ==
  /\ n \in Nat /\ m \in Nat /\ m <= Size(p)
  /\ (n = 0 /\ m = width[p]) \/ (width[p] <= n /\ m = n + 1)

LEMMA WrittenFits ==
  ASSUME Typed, NEW p \in Programs, phase[p] \in Saving, Found(p), width[p] \in HeaderLens,
         NEW f \in Seq(Pieces), Fits(f, width[p]), NEW n, NEW m, Further(p, n, m)
  PROVE  Fits(Written(f, p, n, m), width[p])
<1>1. PICK l \in Nat \ {0} : l = width[p]
  BY Sizes
<1>2. n \in Nat /\ m \in Nat /\ m <= Size(p) /\ ((n = 0 /\ m = l) \/ (l <= n /\ m = n + 1))
  BY <1>1 DEF Further
<1>3. /\ Size(p) \in Nat
      /\ \A j \in 1 .. m : /\ Piece(p, j) \in Pieces
                           /\ Piece(p, j) = IF j <= l THEN Header(listed[p], l, j) ELSE RowAt(j - l)
  BY <1>1, <1>2, PieceIs
<1>4. PICK g : g = Written(f, p, n, m)
  OBVIOUS
<1>5. PICK k \in Nat :
        /\ DOMAIN g = 1 .. k /\ Len(g) = k /\ Len(f) <= k /\ m <= k
        /\ \A j \in 1 .. k : g[j] = IF j > n /\ j <= m THEN Piece(p, j) ELSE IF j \in DOMAIN f THEN f[j] ELSE Hole
  <2>1. \A j \in 1 .. m : Piece(p, j) \in Pieces
    BY <1>3
  <2>2. PICK k \in Nat : k = Larger(Len(f), m)
    BY <1>2, <2>1, WrittenIs
  <2>3. /\ DOMAIN g = 1 .. k /\ Len(g) = k /\ Len(f) <= k /\ m <= k
        /\ \A j \in 1 .. k : g[j] = IF j > n /\ j <= m THEN Piece(p, j) ELSE IF j \in DOMAIN f THEN f[j] ELSE Hole
    BY <1>2, <1>4, <2>1, <2>2, WrittenIs
  <2> QED
    BY <2>3
<1>6. DOMAIN f = 1 .. Len(f) /\ Len(f) \in Nat
  BY LenProperties
<1>7. ASSUME NEW j \in DOMAIN g, j > l PROVE g[j] = Hole \/ g[j] = RowAt(j - l)
  <2>1. j \in 1 .. k
    BY <1>5
  <2>2. CASE j > n /\ j <= m
    <3>1. g[j] = Piece(p, j) /\ j \in 1 .. m
      BY <1>5, <2>1, <2>2
    <3> QED
      BY <1>1, <1>3, <1>7, <3>1
  <2>3. CASE ~(j > n /\ j <= m) /\ j \in DOMAIN f
    <3>1. g[j] = f[j]
      BY <1>5, <2>1, <2>3
    <3> QED
      BY <1>1, <1>7, <2>3, <3>1 DEF Fits
  <2>4. CASE ~(j > n /\ j <= m) /\ j \notin DOMAIN f
    BY <1>5, <2>1, <2>4
  <2> QED
    BY <2>2, <2>3, <2>4
<1>8. CASE n = 0 /\ m = l
  <2>1. \A j \in 1 .. l : g[j] = Header(listed[p], l, j)
    <3> SUFFICES ASSUME NEW j \in 1 .. l PROVE g[j] = Header(listed[p], l, j)
      OBVIOUS
    <3>1. j \in 1 .. k /\ j > n /\ j <= m /\ j \in 1 .. m
      BY <1>1, <1>5, <1>8
    <3> QED
      BY <1>3, <1>5, <3>1
  <2>2. listed[p] \in complete
    BY DEF Found
  <2>3. l <= Len(g)
    BY <1>5, <1>8
  <2> QED
    BY <1>1, <1>4, <1>7, <2>1, <2>2, <2>3 DEF Fits
<1>9. CASE l <= n /\ m = n + 1
  <2>1. ASSUME NEW j \in 1 .. k, j <= l PROVE g[j] = IF j \in DOMAIN f THEN f[j] ELSE Hole
    <3>1. ~(j > n)
      BY <1>1, <1>2, <1>9, <2>1
    <3> QED
      BY <1>5, <3>1
  <2>2. CASE \A j \in DOMAIN f : j <= l => f[j] = Hole
    <3>1. \A j \in DOMAIN g : j <= l => g[j] = Hole
      BY <1>5, <2>1, <2>2
    <3> QED
      BY <1>1, <1>4, <1>7, <3>1 DEF Fits
  <2>3. CASE l <= Len(f) /\ \E c \in complete : \A j \in 1 .. l : f[j] = Header(c, l, j)
    <3>1. PICK c \in complete : \A j \in 1 .. l : f[j] = Header(c, l, j)
      BY <2>3
    <3>2. l <= Len(g)
      BY <1>1, <1>5, <1>6, <2>3
    <3>3. \A j \in 1 .. l : g[j] = Header(c, l, j)
      <4> SUFFICES ASSUME NEW j \in 1 .. l PROVE g[j] = Header(c, l, j)
        OBVIOUS
      <4>1. j \in 1 .. k /\ j \in DOMAIN f /\ j <= l
        BY <1>1, <1>5, <1>6, <2>3
      <4> QED
        BY <2>1, <3>1, <4>1
    <3> QED
      BY <1>1, <1>4, <1>7, <3>1, <3>2, <3>3 DEF Fits
  <2> QED
    BY <1>1, <2>2, <2>3 DEF Fits
<1> QED
  BY <1>2, <1>8, <1>9

\* What a step that writes finds.
LEMMA WriteFacts ==
  ASSUME Typed, HandlesThere, NEW p \in Programs, Found(p), Write(p)
  PROVE  /\ phase[p] \in Saving /\ width[p] \in HeaderLens /\ Further(p, at[p], at'[p])
         /\ Size(p) \in Nat /\ width[p] \in Nat \ {0} /\ width[p] <= at'[p]
         /\ \A j \in 1 .. at'[p] : Piece(p, j) \in Pieces
         /\ handle[p] = "tmp"  => tmp # None /\ tmp \in Seq(Pieces)
         /\ handle[p] = "path" => path # None /\ path \in Seq(Pieces)
<1>1. phase[p] = "writing" /\ phase[p] \in Saving
  BY DEF Write, Saving
<1>2. width[p] \in HeaderLens /\ (at[p] = 0 \/ (width[p] <= at[p] /\ at[p] < Size(p)))
  BY <1>1 DEF HandlesThere
<1>3. /\ Size(p) \in Nat /\ width[p] \in Nat \ {0} /\ width[p] <= Size(p)
      /\ \A j \in 1 .. Size(p) : Piece(p, j) \in Pieces
  <2>1. listed[p] \in Nat
    BY <1>1, SavedIs
  <2> QED
    BY <1>1, <1>2, <2>1, PieceIs
<1>4. at[p] \in Nat /\ at'[p] = IF at[p] = 0 THEN width[p] ELSE at[p] + 1
  BY DEF Write, Typed, Arrays
<1>5. at'[p] \in Nat /\ at'[p] <= Size(p) /\ width[p] <= at'[p] /\ Further(p, at[p], at'[p])
  BY <1>2, <1>3, <1>4 DEF Further
<1>6. \A j \in 1 .. at'[p] : Piece(p, j) \in Pieces
  BY <1>3, <1>5
<1>7. /\ handle[p] = "tmp"  => tmp # None /\ tmp \in Seq(Pieces)
      /\ handle[p] = "path" => path # None /\ path \in Seq(Pieces)
  BY DEF HandlesThere, Typed, TypeOK
<1> QED
  BY <1>1, <1>2, <1>3, <1>5, <1>6, <1>7

LEMMA WriteTyped ==
  ASSUME Typed, HandlesThere, NEW p \in Programs, Found(p), Write(p)
  PROVE  Typed'
<1>1. at[p] \in Nat /\ at'[p] \in Nat /\ \A j \in 1 .. at'[p] : Piece(p, j) \in Pieces
  BY WriteFacts DEF Further
<1>2. at' \in [Programs -> Nat]
  <2>1. at' = [at EXCEPT ![p] = at'[p]]
    BY DEF Write, Typed, Arrays
  <2> QED
    BY <1>1, <2>1 DEF Typed, Arrays
<1>3. Arrays'
  <2>1. phase' \in [Programs -> Phases]
    BY DEF Write, Typed, Arrays, Phases
  <2> QED
    BY <1>2, <2>1 DEF Write, walk, Typed, Arrays
<1>4. tmp' \in Seq(Pieces) \cup {None}
  BY <1>1, TypedIs, WriteFacts, WrittenIs DEF Write, Globals
<1>5. path' \in Seq(Pieces) \cup {None}
  BY <1>1, TypedIs, WriteFacts, WrittenIs DEF Write, Globals
<1>6. Globals'
  BY <1>4, <1>5, TypedIs DEF Write, Globals
<1> QED
  BY <1>3, <1>6, TypedIs

-----------------------------------------------------------------------------
(* A page. *)

\* What a page finds: rows up to the place where the last one ended.
LEMMA PageFacts ==
  ASSUME Typed, NEW p \in Programs, Walking(p), Page(p)
  PROVE  \E n, c, b, k :
         /\ n = Newest(p) /\ c = Place(p) /\ b = Bottom(cursor[p]) /\ k = Cardinality(seen[p])
         /\ n \in 0 .. MaxTrades /\ n <= Len(market) /\ c \in 1 .. n + 1 /\ k \in 1 .. MaxPages
         /\ b \in 0 .. c - 1 /\ b >= c - 1 - PageSize /\ (b > 0 => b = c - 1 - PageSize)
         /\ n + 1 - c = PageSize * (k - 1)
         /\ raw' = [raw EXCEPT ![p] = Down(n, b + 1)]
         /\ raw[p] \o Items(cursor[p]) = Down(n, b + 1)
         /\ listed' = [listed EXCEPT ![p] = n]
<1> DEFINE n == Newest(p)
           c == Place(p)
           b == Bottom(cursor[p])
           k == Cardinality(seen[p])
<1>1. phase[p] = "asking"
  BY DEF Page
<1>2. /\ n <= Len(market) /\ c \in 1 .. n + 1 /\ raw[p] = Down(n, c)
      /\ IsFiniteSet(seen[p]) /\ None \in seen[p] /\ k <= MaxPages /\ n + 1 - c = PageSize * (k - 1)
  BY <1>1 DEF Walking
<1>3. Len(market) \in 0 .. MaxTrades /\ listed[p] \in 0 .. MaxTrades
  BY MarketIs DEF Typed, TypeOK
<1>4. n \in 0 .. MaxTrades /\ n \in Nat /\ c \in Nat
  BY <1>2, <1>3, Sizes DEF Newest
<1>5. Top(cursor[p]) = c - 1
  <2>1. CASE cursor[p] = None
    BY <1>3, <2>1, Sizes DEF Top, Place
  <2>2. CASE cursor[p] # None
    BY <2>2 DEF Top, Place
  <2> QED
    BY <2>1, <2>2
<1>6. b = Larger(0, c - 1 - PageSize)
  BY <1>5 DEF Bottom
<1>7. b \in 0 .. c - 1 /\ b >= c - 1 - PageSize /\ (b > 0 => b = c - 1 - PageSize)
  BY <1>2, <1>4, <1>6, Sizes DEF Larger
<1>8. Items(cursor[p]) = [i \in 1 .. c - 1 - b |-> c - i]
  <2>1. Items(cursor[p]) = [i \in 1 .. c - 1 - b |-> c - 1 + 1 - i]
    BY <1>5 DEF Items
  <2>2. \A i \in 1 .. c - 1 - b : c - 1 + 1 - i = c - i
    BY <1>4
  <2> QED
    BY <2>1, <2>2
<1>9. raw[p] \o Items(cursor[p]) = Down(n, b + 1)
  BY <1>2, <1>4, <1>7, <1>8, NextRows
<1>10. raw' = [raw EXCEPT ![p] = Down(n, b + 1)]
  BY <1>9 DEF Page
<1>11. listed' = [listed EXCEPT ![p] = n]
  BY DEF Page, Newest
<1>12. k \in 1 .. MaxPages
  <2>1. k \in Nat /\ k # 0
    BY <1>2, FS_CardinalityType, FS_EmptySet
  <2> QED
    BY <1>2, <2>1, Sizes
<1>13. n = Newest(p) /\ c = Place(p) /\ b = Bottom(cursor[p]) /\ k = Cardinality(seen[p])
  OBVIOUS
<1> HIDE DEF n, c, b, k
<1> WITNESS n, c, b, k
<1> QED
  BY <1>2, <1>4, <1>7, <1>9, <1>10, <1>11, <1>12, <1>13

LEMMA PageTyped ==
  ASSUME Typed, InOrder, NEW p \in Programs, Walking(p), Page(p)
  PROVE  Typed'
<1>1. PICK n, c, b, k :
         /\ n = Newest(p) /\ c = Place(p) /\ b = Bottom(cursor[p]) /\ k = Cardinality(seen[p])
         /\ n \in 0 .. MaxTrades /\ n <= Len(market) /\ c \in 1 .. n + 1 /\ k \in 1 .. MaxPages
         /\ b \in 0 .. c - 1 /\ b >= c - 1 - PageSize /\ (b > 0 => b = c - 1 - PageSize)
         /\ n + 1 - c = PageSize * (k - 1)
         /\ raw' = [raw EXCEPT ![p] = Down(n, b + 1)]
         /\ raw[p] \o Items(cursor[p]) = Down(n, b + 1)
         /\ listed' = [listed EXCEPT ![p] = n]
  BY PageFacts
<1>0. n \in 0 .. MaxTrades /\ n \in Nat /\ b \in 0 .. n /\ (b > 0 => b < n)
  <2>1. /\ n \in 0 .. MaxTrades /\ c \in 1 .. n + 1
        /\ b \in 0 .. c - 1 /\ (b > 0 => b = c - 1 - PageSize)
    BY <1>1
  <2>2. n \in Nat /\ c <= n + 1
    BY <2>1, Sizes
  <2> QED
    BY <2>1, <2>2, Sizes
<1>2. Down(n, b + 1) \in Seq(1 .. MaxTrades) /\ Len(Down(n, b + 1)) = n - b
  <2>1. n \in Nat /\ b + 1 \in 1 .. n + 1 /\ 1 .. n \subseteq 1 .. MaxTrades
    BY <1>0, Sizes
  <2>2. Down(n, b + 1) \in Seq(1 .. n) /\ Len(Down(n, b + 1)) = n + 1 - (b + 1)
    BY <2>1, DownIs
  <2>3. n + 1 - (b + 1) = n - b
    BY <1>1, Sizes, SMTT(60)
  <2> QED
    BY <2>1, <2>2, <2>3, SeqMonotonic
<1>3. raw' \in [Programs -> Seq(1 .. MaxTrades)] /\ listed' \in [Programs -> 0 .. MaxTrades]
  BY <1>1, <1>2 DEF Typed, Arrays
<1>4. CASE /\ b = 0
           /\ trades' = [trades EXCEPT ![p] = Normalised(Down(n, b + 1))]
           /\ phase' = [phase EXCEPT ![p] = "opening"]
           /\ complete' = complete \cup {Len(Down(n, b + 1))}
           /\ UNCHANGED <<cursor, seen>>
  <2>1. Down(n, b + 1) = Down(n, 1) /\ n \in Nat
    BY <1>1, <1>4, Sizes
  <2>2. Normalised(Down(n, b + 1)) = FirstTrades(n)
    BY <1>1, <2>1, MarketIs, NormalisedIs
  <2>3. FirstTrades(n) \in Seq(0 .. MaxTrades)
    <3>1. 1 .. n \subseteq 0 .. MaxTrades
      BY <1>1, Sizes, SMTT(60)
    <3> QED
      BY <2>1, <3>1, FirstTradesIs, SeqMonotonic
  <2>4. Arrays'
    <3>1. phase' \in [Programs -> Phases] /\ trades' \in [Programs -> Seq(0 .. MaxTrades)]
      BY <1>4, <2>2, <2>3 DEF Typed, Arrays, Phases
    <3> QED
      BY <1>3, <1>4, <3>1 DEF Page, files, Typed, Arrays
  <2>5. complete' \subseteq 0 .. MaxTrades
    <3>1. Len(Down(n, b + 1)) \in 0 .. MaxTrades
      BY <1>1, <1>2, <1>4, Sizes, SMTT(60)
    <3> QED
      BY <1>4, <3>1, TypedIs DEF Globals
  <2>6. Globals'
    BY <2>5, TypedIs DEF Page, files, Globals
  <2> QED
    BY <2>4, <2>6, TypedIs
<1>5. CASE b > 0 /\ \E next \in {b + 1} \cup seen[p] :
             /\ cursor' = [cursor EXCEPT ![p] = next]
             /\ seen' = [seen EXCEPT ![p] = seen[p] \cup {next}]
             /\ phase' = [phase EXCEPT ![p] =
                            IF Refused(p, next) THEN "refused"
                            ELSE IF TooMany(seen[p] \cup {next}) THEN "too many" ELSE "asking"]
             /\ UNCHANGED <<trades, complete>>
  <2>1. PICK next \in {b + 1} \cup seen[p] :
             /\ cursor' = [cursor EXCEPT ![p] = next]
             /\ seen' = [seen EXCEPT ![p] = seen[p] \cup {next}]
             /\ phase' = [phase EXCEPT ![p] =
                            IF Refused(p, next) THEN "refused"
                            ELSE IF TooMany(seen[p] \cup {next}) THEN "too many" ELSE "asking"]
             /\ UNCHANGED <<trades, complete>>
    BY <1>5
  <2>2. next \in 1 .. MaxTrades \cup {None} /\ seen[p] \subseteq 1 .. MaxTrades \cup {None}
    <3>1. seen[p] \subseteq 1 .. MaxTrades \cup {None}
      BY DEF Typed, TypeOK
    <3>2. next = b + 1 => next \in 1 .. MaxTrades
      <4>1. b < n
        BY <1>0, <1>5
      <4> QED
        BY <1>0, <4>1, Sizes
    <3> QED
      BY <3>1, <3>2
  <2>3. phase' \in [Programs -> Phases]
    BY <2>1 DEF Typed, Arrays, Phases
  <2>4. cursor' \in [Programs -> 1 .. MaxTrades \cup {None}]
    BY <2>1, <2>2 DEF Typed, Arrays
  <2>5. seen' \in [Programs -> SUBSET (1 .. MaxTrades \cup {None})]
    BY <2>1, <2>2 DEF Typed, Arrays
  <2>6. Arrays'
    BY <1>3, <2>1, <2>3, <2>4, <2>5 DEF Page, files, Typed, Arrays
  <2>7. Globals'
    BY <2>1, TypedIs DEF Page, files, Globals
  <2> QED
    BY <2>6, <2>7, TypedIs
<1> QED
  BY <1>1, <1>4, <1>5 DEF Page

LEMMA PageGood ==
  ASSUME Typed, InOrder, NEW p \in Programs, Good(p), Page(p)
  PROVE  Good(p)'
<1>1. Walking(p)
  BY DEF Good
<1>2. PICK n, c, b, k :
         /\ n = Newest(p) /\ c = Place(p) /\ b = Bottom(cursor[p]) /\ k = Cardinality(seen[p])
         /\ n \in 0 .. MaxTrades /\ n <= Len(market) /\ c \in 1 .. n + 1 /\ k \in 1 .. MaxPages
         /\ b \in 0 .. c - 1 /\ b >= c - 1 - PageSize /\ (b > 0 => b = c - 1 - PageSize)
         /\ n + 1 - c = PageSize * (k - 1)
         /\ raw' = [raw EXCEPT ![p] = Down(n, b + 1)]
         /\ raw[p] \o Items(cursor[p]) = Down(n, b + 1)
         /\ listed' = [listed EXCEPT ![p] = n]
  BY <1>1, PageFacts
<1>3. /\ n \in Nat /\ c \in Nat /\ b \in Nat /\ k \in Nat \ {0} /\ k <= MaxPages
      /\ c <= n + 1 /\ b <= c - 1 /\ c >= 1
  <2>1. n \in 0 .. MaxTrades /\ c \in 1 .. n + 1 /\ k \in 1 .. MaxPages /\ b \in 0 .. c - 1
    BY <1>2
  <2>2. n \in Nat
    BY <2>1, Sizes
  <2> QED
    BY <2>1, <2>2, Sizes
<1>4. raw'[p] = Down(n, b + 1) /\ listed'[p] = n /\ market' = market
  BY <1>2 DEF Page, Typed, Arrays
\* the pages so far, this one included
<1> DEFINE upTo == PageSize * k
<1>5. upTo \in Nat /\ n + 1 - c + PageSize = upTo
  <2>1. PageSize * (k - 1) = PageSize * k - PageSize /\ PageSize * k \in Nat
    BY <1>3, Sizes
  <2>2. n + 1 - c = upTo - PageSize /\ upTo \in Nat
    BY <1>2, <2>1
  <2> HIDE DEF upTo
  <2> QED
    BY <1>3, <2>2, Sizes
<1>6. upTo <= MaxPages * PageSize /\ (k >= MaxPages => upTo = MaxPages * PageSize)
      /\ MaxPages * PageSize \in Nat
  <2>1. k <= MaxPages => PageSize * k <= PageSize * MaxPages
    BY <1>3, Sizes
  <2>2. PageSize * MaxPages = MaxPages * PageSize /\ MaxPages * PageSize \in Nat
    BY Sizes
  <2>3. k >= MaxPages => k = MaxPages
    BY <1>3, Sizes
  <2> QED
    BY <1>3, <2>1, <2>2, <2>3
<1> HIDE DEF upTo
<1>7. CASE /\ b = 0
           /\ trades' = [trades EXCEPT ![p] = Normalised(Down(n, b + 1))]
           /\ phase' = [phase EXCEPT ![p] = "opening"]
           /\ complete' = complete \cup {Len(Down(n, b + 1))}
  <2>1. Down(n, b + 1) = Down(n, 1) /\ 1 \in 1 .. n + 1
    BY <1>3, <1>7
  <2>2. Normalised(Down(n, b + 1)) = FirstTrades(n) /\ Len(Down(n, b + 1)) = n
    <3>1. n <= Len(market)
      BY <1>2
    <3>2. Normalised(Down(n, 1)) = FirstTrades(n)
      BY <1>3, <3>1, MarketIs, NormalisedIs
    <3>3. Len(Down(n, 1)) = n + 1 - 1
      BY <1>3, <2>1, DownIs
    <3> QED
      BY <1>3, <2>1, <3>2, <3>3
  <2>3. trades'[p] = FirstTrades(n) /\ phase'[p] = "opening" /\ n \in complete'
    BY <1>7, <2>2 DEF Typed, Arrays
  <2>4. n <= MaxPages * PageSize
    <3>1. c - 1 <= PageSize
      <4>1. b >= c - 1 - PageSize
        BY <1>2
      <4> QED
        BY <1>3, <1>7, <4>1, Sizes
    <3> QED
      BY <1>3, <1>5, <1>6, <3>1, Sizes
  <2>5. n <= Len(market')
    BY <1>2, <1>4
  <2>6. Walking(p)' /\ Loaded(p)'
    BY <2>3 DEF Walking, Loaded
  <2>7. Found(p)' /\ Ended(p)'
    BY <1>4, <2>3, <2>4, <2>5 DEF Found, Ended, FirstTrades
  <2> QED
    BY <2>6, <2>7 DEF Good
<1>8. CASE b > 0 /\ \E next \in {b + 1} \cup seen[p] :
             /\ cursor' = [cursor EXCEPT ![p] = next]
             /\ seen' = [seen EXCEPT ![p] = seen[p] \cup {next}]
             /\ phase' = [phase EXCEPT ![p] =
                            IF Refused(p, next) THEN "refused"
                            ELSE IF TooMany(seen[p] \cup {next}) THEN "too many" ELSE "asking"]
             /\ UNCHANGED <<trades, complete>>
  <2>1. PICK next \in {b + 1} \cup seen[p] :
             /\ cursor' = [cursor EXCEPT ![p] = next]
             /\ seen' = [seen EXCEPT ![p] = seen[p] \cup {next}]
             /\ phase' = [phase EXCEPT ![p] =
                            IF Refused(p, next) THEN "refused"
                            ELSE IF TooMany(seen[p] \cup {next}) THEN "too many" ELSE "asking"]
             /\ UNCHANGED <<trades, complete>>
    BY <1>8
  <2>2. /\ cursor'[p] = next /\ seen'[p] = seen[p] \cup {next}
        /\ phase'[p] = IF next \in seen[p] THEN "refused"
                       ELSE IF TooMany(seen[p] \cup {next}) THEN "too many" ELSE "asking"
    BY <2>1 DEF Refused, Typed, Arrays
  <2>3. b = c - 1 - PageSize
    BY <1>2, <1>8
  <2>4. CASE next \in seen[p]
    BY <2>2, <2>4 DEF Good, Walking, Found, Ended, Loaded, Saving
  <2>5. CASE next \notin seen[p]
    <3>1. next = b + 1 /\ IsFiniteSet(seen[p]) /\ None \in seen[p]
      BY <1>1, <2>1, <2>5 DEF Walking, Page
    <3>2. /\ IsFiniteSet(seen'[p]) /\ Cardinality(seen'[p]) = k + 1
          /\ TooMany(seen[p] \cup {next}) <=> k + 1 > MaxPages
      <4>1. k = Cardinality(seen[p]) /\ seen'[p] = seen[p] \cup {next}
        BY <1>2, <2>2
      <4>2. IsFiniteSet(seen[p] \cup {next}) /\ Cardinality(seen[p] \cup {next}) = Cardinality(seen[p]) + 1
        BY <2>5, <3>1, FS_AddElement
      <4> QED
        BY <4>1, <4>2 DEF TooMany
    <3>3. CASE k + 1 > MaxPages
      <4>1. phase'[p] = "too many"
        BY <2>2, <2>5, <3>2, <3>3
      <4>2. n > MaxPages * PageSize
        <5>1. k >= MaxPages
          BY <1>3, <3>3, Sizes
        <5>2. n > upTo
          <6>1. b > 0 /\ PageSize \in Nat
            BY <1>8, Sizes
          <6> QED
            BY <1>3, <1>5, <2>3, <6>1
        <5> QED
          BY <1>6, <5>1, <5>2
      <4> QED
        BY <1>4, <4>1, <4>2 DEF Good, Walking, Found, Ended, Loaded, Saving
    <3>4. CASE ~(k + 1 > MaxPages)
      <4>1. phase'[p] = "asking"
        BY <2>2, <2>5, <3>2, <3>4
      <4>2. next \in Nat /\ next # None /\ next = b + 1 /\ None \in seen'[p]
        <5>1. b + 1 \in Nat
          BY <1>3
        <5>2. None \notin Nat
          BY Sizes
        <5> QED
          BY <2>2, <3>1, <5>1, <5>2
      <4>3. Newest(p)' = n /\ Place(p)' = b + 1
        BY <1>4, <2>2, <4>2 DEF Newest, Place
      <4>4. n <= Len(market') /\ b + 1 \in 1 .. n + 1
        <5>1. n <= Len(market')
          BY <1>2, <1>4
        <5> QED
          BY <1>3, <5>1
      <4>5. Cardinality(seen'[p]) <= MaxPages /\ n + 1 - (b + 1) = PageSize * (Cardinality(seen'[p]) - 1)
        <5>1. k + 1 - 1 = k /\ k + 1 <= MaxPages
          BY <1>3, <3>4, Sizes
        <5>2. n + 1 - (b + 1) = PageSize * k
          <6>1. n + 1 - (b + 1) = upTo
            BY <1>3, <1>5, <2>3, Sizes
          <6> QED
            BY <6>1 DEF upTo
        <5>3. Cardinality(seen'[p]) - 1 = k
          BY <1>3, <3>2, <5>1
        <5>4. Cardinality(seen'[p]) <= MaxPages
          BY <3>2, <5>1
        <5> QED
          BY <5>2, <5>3, <5>4
      <4>6. \A s \in seen'[p] : s = None \/ s >= b + 1
        <5>1. \A s \in seen[p] : s = None \/ (s \in Nat /\ s >= c)
          <6>1. \A s \in seen[p] : s = None \/ s >= c
            BY <1>1, <1>2 DEF Walking, Page
          <6>2. \A s \in seen[p] : s = None \/ s \in Nat
            BY Sizes DEF Typed, TypeOK
          <6> QED
            BY <6>1, <6>2
        <5>2. \A s \in seen[p] : s = None \/ s >= b + 1
          BY <1>3, <5>1
        <5>3. next >= b + 1
          BY <1>3, <4>2
        <5>4. seen'[p] = seen[p] \cup {next}
          BY <2>2
        <5> QED
          BY <5>2, <5>3, <5>4
      <4>7. Walking(p)'
        BY <1>4, <3>2, <4>1, <4>2, <4>3, <4>4, <4>5, <4>6 DEF Walking, Down
      <4> QED
        BY <4>1, <4>7 DEF Good, Found, Ended, Loaded, Saving
    <3> QED
      BY <3>3, <3>4
  <2> QED
    BY <2>4, <2>5
<1> QED
  BY <1>2, <1>7, <1>8 DEF Page

-----------------------------------------------------------------------------
(* Every step keeps WholeInv. *)

\* A file that fits, and those who write to it.
LEMMA TmpRight ==
  ASSUME NEW f, tmp' = f, complete \subseteq complete', NEW l \in HeaderLens, Fits(f, l),
         \A q \in Programs : phase'[q] = "writing" /\ handle'[q] = "tmp" => width'[q] = l
  PROVE  FileRight(tmp, "tmp")'
<1>1. Fits(tmp, l)'
  BY DEF Fits, RowAt, Row, Half, Header, Hole
<1>2. Writers("tmp", l)'
  BY DEF Writers
<1> QED
  BY <1>1, <1>2 DEF FileRight

LEMMA PathRight ==
  ASSUME NEW f, path' = f, complete \subseteq complete', NEW l \in HeaderLens, Fits(f, l),
         \A q \in Programs : phase'[q] = "writing" /\ handle'[q] = "path" => width'[q] = l
  PROVE  FileRight(path, "path")'
<1>1. Fits(path, l)'
  BY DEF Fits, RowAt, Row, Half, Header, Hole
<1>2. Writers("path", l)'
  BY DEF Writers
<1> QED
  BY <1>1, <1>2 DEF FileRight

\* A file that nobody writes to stays right.
LEMMA TmpKept ==
  ASSUME FileRight(tmp, "tmp"), tmp' = tmp, complete \subseteq complete',
         \A q \in Programs : phase'[q] = "writing" /\ handle'[q] = "tmp" =>
           phase[q] = "writing" /\ handle[q] = "tmp" /\ width'[q] = width[q]
  PROVE  FileRight(tmp, "tmp")'
<1>1. CASE tmp = None
  BY <1>1 DEF FileRight
<1>2. CASE tmp # None
  <2>1. PICK l \in HeaderLens : Fits(tmp, l) /\ Writers("tmp", l)
    BY <1>2 DEF FileRight
  <2>2. PICK f : f = tmp
    OBVIOUS
  <2> QED
    BY <2>1, <2>2, TmpRight DEF Writers
<1> QED
  BY <1>1, <1>2

LEMMA PathKept ==
  ASSUME FileRight(path, "path"), path' = path, complete \subseteq complete',
         \A q \in Programs : phase'[q] = "writing" /\ handle'[q] = "path" =>
           phase[q] = "writing" /\ handle[q] = "path" /\ width'[q] = width[q]
  PROVE  FileRight(path, "path")'
<1>1. CASE path = None
  BY <1>1 DEF FileRight
<1>2. CASE path # None
  <2>1. PICK l \in HeaderLens : Fits(path, l) /\ Writers("path", l)
    BY <1>2 DEF FileRight
  <2>2. PICK f : f = path
    OBVIOUS
  <2> QED
    BY <2>1, <2>2, PathRight DEF Writers
<1> QED
  BY <1>1, <1>2

LEMMA FilesKept ==
  ASSUME FilesRight, UNCHANGED files, complete \subseteq complete',
         \A q \in Programs : phase'[q] = "writing" => phase[q] = "writing"
  PROVE  FilesRight'
<1> SUFFICES ASSUME ~ragged' PROVE FileRight(tmp, "tmp")' /\ FileRight(path, "path")'
  BY DEF FilesRight
<1>1. FileRight(tmp, "tmp") /\ FileRight(path, "path")
  BY DEF FilesRight, files
<1>2. tmp' = tmp /\ path' = path /\ handle' = handle /\ width' = width
  BY DEF files
<1> QED
  BY <1>1, <1>2, TmpKept, PathKept

LEMMA OpenKept ==
  ASSUME HandlesThere, UNCHANGED files,
         \A p \in Programs : phase'[p] \in {"writing", "replacing"} => phase'[p] = phase[p] /\ trades'[p] = trades[p]
  PROVE  HandlesThere'
  BY DEF HandlesThere, files, Size

LEMMA TradeWhole ==
  ASSUME WholeInv, Trade
  PROVE  WholeInv'
<1> USE DEF WholeInv
<1>1. Typed'
  BY TradeTyped
<1>2. PICK ts \in 0 .. MaxTime :
        market' = Append(market, ts) /\ (market # << >> => ts >= Last(market))
  BY DEF Trade
<1>3. market \in Seq(Int) /\ Len(market) \in Nat /\ ts \in Int /\ DOMAIN market = 1 .. Len(market)
  BY MarketIs, Sizes
<1>4. /\ market' \in Seq(Int) /\ Len(market') = Len(market) + 1 /\ DOMAIN market' = 1 .. Len(market) + 1
      /\ \A i \in 1 .. Len(market) : market'[i] = market[i] /\ market[i] \in Int
      /\ market'[Len(market) + 1] = ts
  BY <1>2, <1>3
<1>5. \A i \in 1 .. Len(market) : market[i] <= ts
  <2> SUFFICES ASSUME NEW i \in 1 .. Len(market) PROVE market[i] <= ts
    OBVIOUS
  <2>1. market # << >> /\ Len(market) \in 1 .. Len(market)
    BY <1>3
  <2>2. market[Len(market)] <= ts
    <3>1. Last(market) = market[Len(market)]
      BY DEF Last
    <3> QED
      BY <1>2, <1>3, <1>4, <2>1, <3>1
  <2>3. market[i] <= market[Len(market)]
    BY <1>3, <2>1 DEF InOrder
  <2> QED
    BY <1>3, <1>4, <2>1, <2>2, <2>3
<1>6. InOrder'
  <2> SUFFICES ASSUME NEW i \in DOMAIN market', NEW j \in DOMAIN market', i <= j
               PROVE  market'[i] <= market'[j]
    BY DEF InOrder
  <2>1. CASE j \in 1 .. Len(market)
    <3>1. i \in 1 .. Len(market)
      BY <1>3, <1>4, <2>1
    <3>2. market[i] <= market[j]
      BY <1>3, <2>1, <3>1 DEF InOrder
    <3> QED
      BY <1>4, <2>1, <3>1, <3>2
  <2>2. CASE j \notin 1 .. Len(market)
    <3>1. j = Len(market) + 1
      BY <1>3, <1>4, <2>2
    <3>2. CASE i \in 1 .. Len(market)
      BY <1>4, <1>5, <3>1, <3>2
    <3>3. CASE i \notin 1 .. Len(market)
      <4>1. i = Len(market) + 1
        BY <1>3, <1>4, <3>3
      <4> QED
        BY <1>3, <1>4, <3>1, <4>1
    <3> QED
      BY <3>2, <3>3
  <2> QED
    BY <2>1, <2>2
<1>7. AllGood'
  <2> SUFFICES ASSUME NEW p \in Programs PROVE Good(p)'
    BY DEF AllGood
  <2>1. phase'[p] = phase[p] /\ Memory(p)' = Memory(p) /\ complete' = complete /\ ragged' = ragged
    BY DEF Trade, walk, files, Memory
  <2>2. Len(market) <= Len(market') /\ market' \in Seq(Int)
    BY <1>3, <1>4
  <2>3. Good(p)
    BY DEF AllGood
  <2> QED
    BY <2>1, <2>2, <2>3, GoodStays
<1>8. FilesRight'
  BY FilesKept DEF Trade
<1>9. HandlesThere'
  BY OpenKept DEF Trade
<1> QED
  BY <1>1, <1>6, <1>7, <1>8, <1>9

\* What a whole file holds that only headers of one length were written to.
LEMMA ClosedFits ==
  ASSUME NEW f \in Seq(Pieces), NEW l \in HeaderLens, Fits(f, l), Closed(f), complete \subseteq 0 .. MaxTrades
  PROVE  /\ Intact(f) /\ f[1].width = l /\ Count(f) \in complete
         /\ Count(f) = Len(RowsOf(f)) => RowsOf(f) = FirstTrades(Count(f))
<1>1. Len(f) \in Nat \ {0} /\ DOMAIN f = 1 .. Len(f) /\ 1 \in DOMAIN f
  BY EmptySeq, LenProperties, SMTT(60) DEF Closed
<1>2. PICK w \in Nat \ {0}, k \in Nat : w = l /\ k = Len(f)
  BY <1>1, Sizes
<1>3. f[1] # Hole /\ \A j \in DOMAIN f : f[j] # Hole
  BY <1>1 DEF Closed
<1>4. w <= k /\ \E n \in complete : \A j \in 1 .. w : f[j] = Header(n, w, j)
  BY <1>1, <1>2, <1>3 DEF Fits
<1>5. PICK n \in complete : \A j \in 1 .. w : f[j] = Header(n, w, j)
  BY <1>4
<1>6. f[1].width = w /\ Count(f) = n
  <2>1. f[1] = Header(n, w, 1)
    BY <1>2, <1>5
  <2> QED
    BY <2>1 DEF Header, Count
<1>7. \A j \in 1 .. k : j > w => f[j] = RowAt(j - w)
  BY <1>1, <1>2, <1>3 DEF Fits
<1>8. k > w => Half(k - w) = "back"
  <2> SUFFICES ASSUME k > w PROVE Half(k - w) = "back"
    OBVIOUS
  <2>1. f[k] = RowAt(k - w)
    BY <1>7
  <2>2. f[k].kind # "header" /\ f[k].half = Half(k - w)
    BY <2>1 DEF RowAt, Row
  <2> QED
    BY <1>2, <2>2 DEF Closed
<1>9. Intact(f)
  <2>1. ASSUME NEW j \in 1 .. k, NEW r \in Int, r = j - w, r <= 0
        PROVE  f[j] = Header(n, w, j)
    <3>1. j \in 1 .. w
      BY <2>1
    <3> QED
      BY <1>5, <3>1
  <2>2. ASSUME NEW j \in 1 .. k, NEW r \in Int, r = j - w, ~(r <= 0)
        PROVE  /\ f[j].kind = "row" /\ f[j].half = Half(r)
               /\ Half(r) = "front" => j < k /\ f[j + 1] = Row(f[j].trade, "back")
    <3>1. f[j] = Row((r + 1) \div 2, Half(r)) /\ r \in Nat \ {0}
      BY <1>7, <2>2 DEF RowAt
    <3>2. f[j].kind = "row" /\ f[j].half = Half(r) /\ f[j].trade = (r + 1) \div 2
      BY <3>1 DEF Row
    <3>3. ASSUME Half(r) = "front"
          PROVE  j < k /\ f[j + 1] = Row(f[j].trade, "back")
      <4>1. j # k
        BY <1>8, <2>2, <3>3
      <4>2. j < k /\ j + 1 \in 1 .. k /\ j + 1 > w /\ j + 1 - w = r + 1
        BY <2>2, <4>1
      <4>3. f[j + 1] = Row((r + 1 + 1) \div 2, Half(r + 1))
        <5>1. f[j + 1] = RowAt(j + 1 - w)
          BY <1>7, <4>2
        <5> QED
          BY <4>2, <5>1 DEF RowAt
      <4>4. Half(r + 1) = "back" /\ (r + 1 + 1) \div 2 = (r + 1) \div 2
        BY <3>1, <3>3, Halves
      <4> QED
        BY <3>2, <4>2, <4>3, <4>4
    <3> QED
      BY <3>2, <3>3
  <2>3. \A j \in 1 .. k : j - w \in Int
    OBVIOUS
  <2> QED
    BY <1>1, <1>2, <1>4, <1>6, <2>1, <2>2, <2>3 DEF Intact
<1>10. ASSUME n = Len(RowsOf(f)) PROVE RowsOf(f) = FirstTrades(n)
  <2>1. PICK m \in Nat : m = (k - w) \div 2 /\ w + 2 * m <= k
    <3>1. \A d \in Nat : d \div 2 \in Nat /\ 2 * (d \div 2) <= d
      OBVIOUS
    <3>2. k - w \in Nat
      BY <1>4
    <3> QED
      BY <3>1, <3>2
  <2>2. n = m
    BY <1>2, <1>6, <1>9, <1>10, <2>1, RowsAre
  <2>3. ASSUME NEW i \in 1 .. m PROVE f[w + 2 * i].trade = i
    <3>1. w + 2 * i \in 1 .. k /\ w + 2 * i > w /\ w + 2 * i - w = 2 * i /\ i \in Nat \ {0}
      BY <2>1
    <3>2. f[w + 2 * i] = Row((2 * i + 1) \div 2, Half(2 * i))
      BY <1>7, <3>1 DEF RowAt
    <3>3. (2 * i + 1) \div 2 = i
      BY <3>1, LastHalf
    <3> QED
      BY <3>2, <3>3 DEF Row
  <2>4. RowsOf(f) = [i \in 1 .. m |-> f[w + 2 * i].trade]
    BY <1>2, <1>6, <2>1 DEF RowsOf
  <2> QED
    BY <2>2, <2>3, <2>4 DEF FirstTrades
<1> QED
  BY <1>2, <1>6, <1>9, <1>10

LEMMA LoadWhole ==
  ASSUME WholeInv, NEW p \in Programs, Idle(p), path # None, Load(p), UNCHANGED <<market, files>>
  PROVE  WholeInv'
<1> USE DEF WholeInv
<1>1. Typed'
  BY LoadTyped
<1>2. phase'[p] \in {"loaded", "unreadable"} /\ complete' = complete /\ ragged' = ragged
      /\ \A q \in Programs \ {p} : phase'[q] = phase[q] /\ Memory(q)' = Memory(q)
  BY DEF Load, walk, files, Memory, Typed, Arrays
<1>3. Loaded(p)'
  <2> SUFFICES ASSUME phase'[p] = "loaded", ~ragged
               PROVE  \E n \in complete : trades'[p] = FirstTrades(n)
    BY <1>2 DEF Loaded, FirstTrades
  <2>1. Closed(path) /\ path \in Seq(Pieces) /\ complete \subseteq 0 .. MaxTrades
    BY DEF Load, Loadable, Typed, TypeOK, Arrays
  <2>2. PICK l \in HeaderLens : Fits(path, l)
    BY DEF FilesRight, FileRight
  <2>3. /\ Intact(path) /\ Count(path) \in complete
        /\ Count(path) = Len(RowsOf(path)) => RowsOf(path) = FirstTrades(Count(path))
    BY <2>1, <2>2, ClosedFits
  <2>4. Loadable(path) /\ trades' = [trades EXCEPT ![p] = RowsOf(path)]
    BY <2>3 DEF Load, Typed, Arrays
  <2>5. trades'[p] = FirstTrades(Count(path))
    BY <2>3, <2>4 DEF Loadable, Typed, Arrays
  <2> QED
    BY <2>3, <2>5
<1>4. Good(p)'
  BY <1>2, <1>3 DEF Good, Walking, Found, Ended, Saving
<1>5. AllGood'
  BY <1>2, <1>4, OthersGood
<1>6. FilesRight'
  <2>1. \A q \in Programs : phase'[q] = "writing" => phase[q] = "writing"
    BY <1>2
  <2> QED
    BY <1>2, <2>1, FilesKept
<1>7. HandlesThere'
  <2>1. \A q \in Programs : phase'[q] \in {"writing", "replacing"} => phase'[q] = phase[q] /\ trades'[q] = trades[q]
    BY <1>2 DEF Memory
  <2> QED
    BY <2>1, OpenKept
<1> QED
  BY <1>1, <1>5, <1>6, <1>7 DEF InOrder

LEMMA AskWhole ==
  ASSUME WholeInv, NEW p \in Programs, Idle(p), Ask(p), UNCHANGED <<market, files, trades, complete>>
  PROVE  WholeInv'
<1> USE DEF WholeInv
<1>1. Typed'
  BY AskTyped
<1>2. /\ phase'[p] = "asking" /\ cursor'[p] = None /\ raw'[p] = << >> /\ seen'[p] = {None}
      /\ market' = market /\ complete' = complete /\ ragged' = ragged
      /\ \A q \in Programs \ {p} : phase'[q] = phase[q] /\ Memory(q)' = Memory(q)
  BY DEF Ask, files, Memory, Typed, Arrays
<1>3. Walking(p)'
  <2> DEFINE n == Len(market)
  <2>1. n \in Nat
    BY MarketIs, Sizes
  <2>2. Newest(p)' = n /\ Place(p)' = n + 1 /\ Len(market') = n
    BY <1>2 DEF Newest, Place
  <2> HIDE DEF n
  <2>3. raw'[p] = Down(n, n + 1)
    <3>1. 1 .. n + 1 - (n + 1) = {}
      BY <2>1
    <3> QED
      BY <1>2, <3>1 DEF Down
  <2>4. IsFiniteSet(seen'[p]) /\ Cardinality(seen'[p]) = 1
    BY <1>2, FS_Singleton
  <2>5. n <= n /\ n + 1 \in 1 .. n + 1 /\ n + 1 - (n + 1) = PageSize * (1 - 1) /\ 1 <= MaxPages
    BY <2>1, Sizes
  <2> QED
    BY <1>2, <2>2, <2>3, <2>4, <2>5 DEF Walking, Down
<1>4. Good(p)'
  BY <1>2, <1>3 DEF Good, Found, Ended, Loaded, Saving
<1>5. AllGood'
  BY <1>2, <1>4, OthersGood
<1>6. FilesRight'
  <2>1. \A q \in Programs : phase'[q] = "writing" => phase[q] = "writing"
    BY <1>2
  <2> QED
    BY <1>2, <2>1, FilesKept
<1>7. HandlesThere'
  <2>1. \A q \in Programs : phase'[q] \in {"writing", "replacing"} => phase'[q] = phase[q] /\ trades'[q] = trades[q]
    BY <1>2
  <2> QED
    BY <2>1, OpenKept
<1> QED
  BY <1>1, <1>2, <1>5, <1>6, <1>7 DEF InOrder

LEMMA PageWhole ==
  ASSUME WholeInv, NEW p \in Programs, Page(p)
  PROVE  WholeInv'
<1> USE DEF WholeInv
<1>1. Good(p) /\ Walking(p)
  BY DEF AllGood, Good
<1>2. Typed' /\ Good(p)'
  BY <1>1, PageTyped, PageGood
<1>3. /\ phase'[p] \notin {"writing", "replacing"} /\ market' = market /\ complete \subseteq complete'
      /\ \A q \in Programs \ {p} : phase'[q] = phase[q] /\ trades'[q] = trades[q]
      /\ UNCHANGED files /\ ragged' = ragged
  BY DEF Page, files, Typed, Arrays
<1>4. \A q \in Programs \ {p} : Memory(q)' = Memory(q)
  BY DEF Page, Memory, Typed, Arrays
<1>5. AllGood'
  BY <1>2, <1>3, <1>4, OthersGood
<1>6. FilesRight'
  <2>1. \A q \in Programs : phase'[q] = "writing" => phase[q] = "writing"
    BY <1>3
  <2> QED
    BY <1>3, <2>1, FilesKept
<1>7. HandlesThere'
  <2>1. \A q \in Programs : phase'[q] \in {"writing", "replacing"} => phase'[q] = phase[q] /\ trades'[q] = trades[q]
    BY <1>3
  <2> QED
    BY <1>3, <2>1, OpenKept
<1> QED
  BY <1>2, <1>3, <1>5, <1>6, <1>7 DEF InOrder

\* A program stops, without a trace in the files.
LEMMA StopWhole ==
  ASSUME WholeInv, NEW p \in Programs, NEW at1 \in {"gave up", "failed", "crashed"},
         phase' = [phase EXCEPT ![p] = at1],
         UNCHANGED <<market, walk, trades, files, overlap, complete, walks>>
  PROVE  WholeInv'
<1> USE DEF WholeInv
<1>1. Typed'
  BY StopTyped DEF Phases
<1>2. /\ phase'[p] = at1 /\ market' = market /\ complete' = complete /\ ragged' = ragged
      /\ \A q \in Programs : Memory(q)' = Memory(q)
      /\ \A q \in Programs \ {p} : phase'[q] = phase[q]
  BY DEF walk, files, Memory, Typed, Arrays
<1>3. Good(p)'
  BY <1>2, GoodGoesOn DEF AllGood
<1>4. AllGood'
  BY <1>2, <1>3, OthersGood
<1>5. FilesRight'
  <2>1. \A q \in Programs : phase'[q] = "writing" => phase[q] = "writing"
    BY <1>2
  <2> QED
    BY <1>2, <2>1, FilesKept
<1>6. HandlesThere'
  <2>1. \A q \in Programs : phase'[q] \in {"writing", "replacing"} => phase'[q] = phase[q] /\ trades'[q] = trades[q]
    BY <1>2
  <2> QED
    BY <2>1, OpenKept
<1> QED
  BY <1>1, <1>2, <1>4, <1>5, <1>6 DEF InOrder

LEMMA OpenTmpWhole ==
  ASSUME WholeInv, NEW p \in Programs, OpenTmp(p)
  PROVE  WholeInv'
<1> USE DEF WholeInv
<1>1. Typed'
  BY OpenTmpTyped
<1>2. PICK l \in HeaderLens : Opened(p, l)
  BY DEF OpenTmp
<1>3. /\ phase[p] \in Saving /\ phase'[p] = "writing" /\ market' = market /\ complete' = complete
      /\ (ragged => ragged') /\ trades' = trades
      /\ \A q \in Programs : Memory(q)' = Memory(q)
      /\ \A q \in Programs \ {p} : phase'[q] = phase[q]
  BY <1>2 DEF Opened, Saving, walk, Memory, Typed, Arrays
<1>4. Good(p)'
  BY <1>3, GoodGoesOn DEF AllGood
<1>5. AllGood'
  BY <1>3, <1>4, OthersGood
<1>6. /\ tmp' = << >> /\ path' = path
      /\ handle'[p] = "tmp" /\ at'[p] = 0 /\ width'[p] = l
      /\ \A q \in Programs \ {p} : handle'[q] = handle[q] /\ at'[q] = at[q] /\ width'[q] = width[q]
  BY <1>2 DEF OpenTmp, Opened, Typed, Arrays
<1>7. FilesRight'
  <2> SUFFICES ASSUME ~ragged' PROVE FileRight(tmp, "tmp")' /\ FileRight(path, "path")'
    BY DEF FilesRight
  <2>1. ~ragged /\ \A q \in Programs \ {p} : WritesTmp(q) => width[q] = l
    BY <1>2 DEF Opened
  <2>2. FileRight(path, "path")'
    <3>1. FileRight(path, "path")
      BY <2>1 DEF FilesRight
    <3> QED
      BY <1>3, <1>6, <3>1, PathKept
  <2>3. FileRight(tmp, "tmp")'
    <3>1. Fits(<< >>, l)
      BY DEF Fits
    <3>2. \A q \in Programs : phase'[q] = "writing" /\ handle'[q] = "tmp" => width'[q] = l
      BY <1>3, <1>6, <2>1 DEF WritesTmp
    <3> QED
      BY <1>3, <1>6, <3>1, <3>2, TmpRight
  <2> QED
    BY <2>2, <2>3
<1>8. HandlesThere'
  <2>1. << >> # None
    <3>1. << >> \in Seq(Pieces)
      BY EmptySeq
    <3> QED
      BY <3>1, Sizes
  <2> SUFFICES ASSUME NEW q \in Programs
               PROVE  /\ handle'[q] = "tmp"  => tmp' # None
                      /\ handle'[q] = "path" => path' # None
                      /\ phase'[q] \in {"writing", "replacing"} => width'[q] \in HeaderLens
                      /\ phase'[q] = "writing" => at'[q] = 0 \/ (width'[q] <= at'[q] /\ at'[q] < Size(q)')
    BY DEF HandlesThere
  <2>2. CASE q = p
    BY <1>6, <2>1, <2>2
  <2>3. CASE q # p
    <3>1. Size(q)' = Size(q)
      BY <1>3, <1>6, <2>3 DEF Size
    <3> QED
      BY <1>3, <1>6, <2>1, <2>3, <3>1 DEF HandlesThere
  <2> QED
    BY <2>2, <2>3
<1> QED
  BY <1>1, <1>3, <1>5, <1>7, <1>8 DEF InOrder

LEMMA WriteWhole ==
  ASSUME WholeInv, NEW p \in Programs, Write(p)
  PROVE  WholeInv'
<1> USE DEF WholeInv
<1>1. Found(p)
  BY DEF AllGood, Good
<1>2. Typed'
  BY <1>1, WriteTyped
<1>3. /\ phase[p] = "writing" /\ phase[p] \in Saving /\ phase'[p] \in {"writing", "replacing"}
      /\ phase'[p] = IF at'[p] >= Size(p) THEN "replacing" ELSE "writing"
      /\ market' = market /\ complete' = complete /\ trades' = trades /\ handle' = handle
      /\ width' = width /\ ragged' = ragged
      /\ \A q \in Programs : Memory(q)' = Memory(q)
      /\ \A q \in Programs \ {p} : phase'[q] = phase[q] /\ at'[q] = at[q]
  BY DEF Write, Saving, walk, Memory, Typed, Arrays
<1>4. Good(p)'
  BY <1>3, GoodGoesOn DEF AllGood
<1>5. AllGood'
  BY <1>3, <1>4, OthersGood
<1>6. PICK n, m : n = at[p] /\ m = at'[p]
  OBVIOUS
<1>7. /\ width[p] \in HeaderLens /\ Further(p, n, m) /\ width[p] <= m /\ Size(p) \in Nat
      /\ n \in Nat /\ m \in Nat /\ \A j \in 1 .. m : Piece(p, j) \in Pieces
      /\ handle[p] = "tmp"  => tmp # None /\ tmp \in Seq(Pieces)
      /\ handle[p] = "path" => path # None /\ path \in Seq(Pieces)
  BY <1>1, <1>6, WriteFacts DEF Further
<1>8. /\ tmp'  = IF handle[p] = "tmp"  THEN Written(tmp, p, n, m)  ELSE tmp
      /\ path' = IF handle[p] = "path" THEN Written(path, p, n, m) ELSE path
  BY <1>6 DEF Write
<1>9. FilesRight'
  <2> SUFFICES ASSUME ~ragged' PROVE FileRight(tmp, "tmp")' /\ FileRight(path, "path")'
    BY DEF FilesRight
  <2>1. FileRight(tmp, "tmp") /\ FileRight(path, "path")
    BY <1>3 DEF FilesRight
  <2>2. \A h, q : q \in Programs /\ phase'[q] = "writing" /\ handle'[q] = h =>
          phase[q] = "writing" /\ handle[q] = h /\ width'[q] = width[q]
    BY <1>3
  <2>3. FileRight(tmp, "tmp")'
    <3>1. CASE handle[p] = "tmp"
      <4>1. PICK l \in HeaderLens : Fits(tmp, l) /\ Writers("tmp", l)
        BY <1>7, <2>1, <3>1 DEF FileRight
      <4>2. l = width[p]
        BY <1>3, <3>1, <4>1 DEF Writers
      <4>3. Fits(Written(tmp, p, n, m), l)
        BY <1>1, <1>3, <1>7, <3>1, <4>1, <4>2, WrittenFits
      <4>4. PICK f : f = Written(tmp, p, n, m)
        OBVIOUS
      <4>5. tmp' = f /\ Fits(f, l)
        BY <1>8, <3>1, <4>3, <4>4
      <4> QED
        BY <1>3, <2>2, <4>1, <4>5, TmpRight DEF Writers
    <3>2. CASE handle[p] # "tmp"
      BY <1>3, <1>8, <2>1, <2>2, <3>2, TmpKept
    <3> QED
      BY <3>1, <3>2
  <2>4. FileRight(path, "path")'
    <3>1. CASE handle[p] = "path"
      <4>1. PICK l \in HeaderLens : Fits(path, l) /\ Writers("path", l)
        BY <1>7, <2>1, <3>1 DEF FileRight
      <4>2. l = width[p]
        BY <1>3, <3>1, <4>1 DEF Writers
      <4>3. Fits(Written(path, p, n, m), l)
        BY <1>1, <1>3, <1>7, <3>1, <4>1, <4>2, WrittenFits
      <4>4. PICK f : f = Written(path, p, n, m)
        OBVIOUS
      <4>5. path' = f /\ Fits(f, l)
        BY <1>8, <3>1, <4>3, <4>4
      <4> QED
        BY <1>3, <2>2, <4>1, <4>5, PathRight DEF Writers
    <3>2. CASE handle[p] # "path"
      BY <1>3, <1>8, <2>1, <2>2, <3>2, PathKept
    <3> QED
      BY <3>1, <3>2
  <2> QED
    BY <2>3, <2>4
<1>10. (tmp # None => tmp' # None) /\ (path # None => path' # None)
  <2>1. handle[p] = "tmp" => tmp' \in Seq(Pieces)
    BY <1>7, <1>8, WrittenIs
  <2>2. handle[p] = "path" => path' \in Seq(Pieces)
    BY <1>7, <1>8, WrittenIs
  <2> QED
    BY <1>8, <2>1, <2>2, Sizes
<1>11. HandlesThere'
  <2> SUFFICES ASSUME NEW q \in Programs
               PROVE  /\ handle'[q] = "tmp"  => tmp' # None
                      /\ handle'[q] = "path" => path' # None
                      /\ phase'[q] \in {"writing", "replacing"} => width'[q] \in HeaderLens
                      /\ phase'[q] = "writing" => at'[q] = 0 \/ (width'[q] <= at'[q] /\ at'[q] < Size(q)')
    BY DEF HandlesThere
  <2>1. Size(q)' = Size(q)
    BY <1>3 DEF Size
  <2>2. CASE q = p
    <3>1. phase'[p] = "writing" => m < Size(p)
      BY <1>3, <1>6, <1>7
    <3> QED
      BY <1>3, <1>6, <1>7, <1>10, <2>1, <2>2, <3>1 DEF HandlesThere
  <2>3. CASE q # p
    BY <1>3, <1>10, <2>1, <2>3 DEF HandlesThere
  <2> QED
    BY <2>2, <2>3
<1> QED
  BY <1>2, <1>3, <1>5, <1>9, <1>11 DEF InOrder

LEMMA ReplaceWhole ==
  ASSUME WholeInv, NEW p \in Programs, Replace(p)
  PROVE  WholeInv'
<1> USE DEF WholeInv
<1>1. CASE tmp = None
  <2>1. /\ phase' = [phase EXCEPT ![p] = "failed"]
        /\ UNCHANGED <<market, walk, trades, files, overlap, complete, walks>>
    BY <1>1 DEF Replace, files
  <2> QED
    BY <2>1, StopWhole
<1>2. CASE tmp # None
  <2>1. Typed'
    BY ReplaceTyped
  <2>2. /\ phase[p] \in Saving /\ phase'[p] = "done" /\ market' = market /\ complete' = complete
        /\ ragged' = ragged
        /\ \A q \in Programs : Memory(q)' = Memory(q)
        /\ \A q \in Programs \ {p} : phase'[q] = phase[q]
        /\ path' = tmp /\ tmp' = None /\ at' = at /\ width' = width /\ trades' = trades
        /\ \A q \in Programs : handle'[q] # "tmp" /\ (handle'[q] = "path" => handle[q] = "tmp")
    BY <1>2, ZenonT(60) DEF Replace, Saving, walk, Memory, Typed, Arrays
  <2>3. Good(p)'
    BY <2>2, GoodGoesOn DEF AllGood
  <2>4. AllGood'
    BY <2>2, <2>3, OthersGood
  <2>5. FilesRight'
    <3> SUFFICES ASSUME ~ragged' PROVE FileRight(tmp, "tmp")' /\ FileRight(path, "path")'
      BY DEF FilesRight
    <3>1. PICK l \in HeaderLens : Fits(tmp, l) /\ Writers("tmp", l)
      BY <1>2, <2>2 DEF FilesRight, FileRight
    <3>2. \A q \in Programs : phase'[q] = "writing" /\ handle'[q] = "path" => width'[q] = l
      BY <2>2, <3>1 DEF Writers
    <3>3. PICK f : f = tmp
      OBVIOUS
    <3>4. FileRight(path, "path")'
      BY <2>2, <3>1, <3>2, <3>3, PathRight
    <3> QED
      BY <2>2, <3>4 DEF FileRight
  <2>6. HandlesThere'
    <3>1. \A q \in Programs : phase'[q] \in {"writing", "replacing"} => phase'[q] = phase[q]
      BY <2>2
    <3> QED
      BY <1>2, <2>2, <3>1 DEF HandlesThere, Size
  <2> QED
    BY <2>1, <2>2, <2>4, <2>5, <2>6 DEF InOrder
<1> QED
  BY <1>1, <1>2

LEMMA InitWhole == Init => WholeInv
<1> SUFFICES ASSUME Init PROVE WholeInv
  OBVIOUS
<1>1. \A p \in Programs : phase[p] = "start" /\ handle[p] = "none"
  BY DEF Init
<1>2. AllGood
  BY <1>1 DEF AllGood, Good, Walking, Found, Ended, Loaded, Saving
<1>3. FilesRight
  BY DEF Init, FilesRight, FileRight
<1>4. HandlesThere
  BY <1>1 DEF HandlesThere
<1>5. InOrder
  <2>1. market = << >>
    BY DEF Init
  <2> QED
    BY <2>1 DEF InOrder
<1> QED
  BY <1>2, <1>3, <1>4, <1>5, InitTyped DEF WholeInv

LEMMA NextWhole == WholeInv /\ [Next]_vars => WholeInv'
<1> SUFFICES ASSUME WholeInv, [Next]_vars PROVE WholeInv'
  OBVIOUS
<1>1. CASE UNCHANGED vars
  <2>1. /\ UNCHANGED <<market, phase, walk, trades, files, overlap, complete, walks>>
    BY <1>1 DEF vars
  <2>2. Typed' /\ InOrder'
    BY <2>1 DEF walk, files, WholeInv, Typed, TypeOK, Arrays, InOrder
  <2>3. AllGood'
    <3>1. Typed /\ market' = market /\ market \in Seq(Int) /\ Len(market) \in Nat
      BY <2>1, MarketIs, Sizes DEF WholeInv
    <3>2. \A p \in Programs : Good(p) /\ phase'[p] = phase[p] /\ Memory(p)' = Memory(p)
      BY <2>1 DEF walk, Memory, WholeInv, AllGood
    <3>3. ragged' = ragged /\ complete' = complete
      BY <2>1 DEF files
    <3> QED
      BY <2>1, <3>1, <3>2, <3>3, GoodStays DEF AllGood
  <2>4. FilesRight'
    BY <2>1, FilesKept DEF WholeInv
  <2>5. HandlesThere'
    BY <2>1, OpenKept DEF WholeInv
  <2> QED
    BY <2>2, <2>3, <2>4, <2>5 DEF WholeInv
<1>2. CASE Trade
  BY <1>2, TradeWhole
<1>3. ASSUME NEW p \in Programs, Begin(p) PROVE WholeInv'
  BY <1>3, LoadWhole, AskWhole DEF Begin, files
<1>4. ASSUME NEW p \in Programs, Fetch(p) PROVE WholeInv'
  <2>1. CASE Page(p)
    BY <2>1, PageWhole
  <2>2. CASE RateLimited(p)
    <3>1. UNCHANGED vars
      BY <2>2 DEF RateLimited
    <3> QED
      BY <1>1, <3>1
  <2>3. CASE GiveUp(p)
    BY <2>3, StopWhole DEF GiveUp
  <2> QED
    BY <1>4, <2>1, <2>2, <2>3 DEF Fetch
<1>5. ASSUME NEW p \in Programs, Save(p) PROVE WholeInv'
  BY <1>5, OpenTmpWhole, WriteWhole, ReplaceWhole DEF Save
<1>6. ASSUME NEW p \in Programs, Crash(p) PROVE WholeInv'
  BY <1>6, StopWhole DEF Crash
<1> QED
  BY <1>1, <1>2, <1>3, <1>4, <1>5, <1>6 DEF Next

THEOREM WholeAlways == Spec => []WholeInv
  BY InitWhole, NextWhole, PTL DEF Spec

\* Every walk that succeeds is whole.
THEOREM WalksAreWhole == Spec => []WalkIsWhole
<1>1. WholeInv => WalkIsWhole
  BY DEF WholeInv, AllGood, Good, Ended, WalkIsWhole
<1> QED
  BY <1>1, WholeAlways, PTL

\* What loads is what a complete walk found, unless headers of different lengths
\* were written into one file.
THEOREM LoadsAreWhole == Spec => []LoadedIsWhole
<1>1. WholeInv => LoadedIsWhole
  BY DEF WholeInv, Typed, AllGood, Good, Loaded, LoadedIsWhole
<1> QED
  BY <1>1, WholeAlways, PTL

-----------------------------------------------------------------------------
(* Programs that do not meet. *)

LEMMA SeparateIs == CacheInv /\ ~overlap => Alone /\ Own /\ Later
  BY DEF CacheInv

LEMMA TextIs ==
  ASSUME Typed, NEW p \in Programs, phase[p] \in Saving, Found(p), width[p] \in HeaderLens,
         NEW k \in 0 .. Size(p)
  PROVE  /\ k \in Nat /\ DOMAIN Text(p, k) = 1 .. k /\ Text(p, k) \in Seq(Pieces) /\ Len(Text(p, k)) = k
         /\ \A j \in 1 .. k : Text(p, k)[j] = Piece(p, j)
<1>1. k \in Nat /\ \A j \in 1 .. k : Piece(p, j) \in Pieces
  BY PieceIs
<1>2. Text(p, k) \in [1 .. k -> Pieces]
  BY <1>1 DEF Text
<1>3. Text(p, k) \in Seq(Pieces) /\ Len(Text(p, k)) = k
  BY <1>1, <1>2
<1> QED
  BY <1>1, <1>3 DEF Text

\* What a program has written when nobody else wrote can be loaded.
LEMMA TextLoads ==
  ASSUME Typed, NEW p \in Programs, phase[p] \in Saving, Found(p), width[p] \in HeaderLens,
         NEW f, f = Text(p, Size(p))
  PROVE  Loadable(f) /\ Count(f) = listed[p]
<1>1. PICK l \in Nat \ {0}, n \in Nat : l = width[p] /\ n = listed[p]
  BY SavedIs, Sizes
<1>2. Size(p) = l + 2 * n /\ Size(p) \in Nat
  BY <1>1, PieceIs
<1>3. f \in Seq(Pieces) /\ DOMAIN f = 1 .. Size(p) /\ Len(f) = Size(p)
      /\ \A j \in 1 .. Size(p) : f[j] = Piece(p, j)
  BY <1>2, TextIs
<1>4. \A j \in 1 .. Size(p) : f[j] = IF j <= l THEN Header(n, l, j) ELSE RowAt(j - l)
  BY <1>1, <1>3, PieceIs
<1>5. Fits(f, l)
  <2>1. \A j \in DOMAIN f : j > l => f[j] = RowAt(j - l)
    <3> SUFFICES ASSUME NEW j \in 1 .. Size(p), j > l PROVE f[j] = RowAt(j - l)
      BY <1>3
    <3>1. ~(j <= l)
      BY <1>2
    <3> QED
      BY <1>4, <3>1
  <2>2. l <= Len(f) /\ \A j \in 1 .. l : f[j] = Header(n, l, j)
    BY <1>2, <1>3, <1>4
  <2>3. n \in complete
    BY <1>1 DEF Found
  <2> QED
    BY <2>1, <2>2, <2>3 DEF Fits
<1>6. f[1] = Header(n, l, 1) /\ 1 \in DOMAIN f
  BY <1>2, <1>3, <1>4
<1>7. f # << >> /\ f[1].kind = "header" /\ f[1].width = l /\ Count(f) = n
  BY <1>2, <1>3, <1>6 DEF Header, Count
<1>8. \A j \in DOMAIN f : f[j] # Hole
  BY <1>3, <1>4 DEF Hole, RowAt, Row, Header
<1>9. Closed(f)
  <2>1. CASE n = 0
    <3>1. f[Len(f)] = Header(n, l, l)
      BY <1>2, <1>3, <1>4, <2>1
    <3>2. f[Len(f)].kind = "header" /\ f[Len(f)].part = f[Len(f)].width
      BY <3>1 DEF Header
    <3> QED
      BY <1>7, <1>8, <3>2 DEF Closed
  <2>2. CASE n # 0
    <3>1. l + 2 * n \in 1 .. Size(p) /\ ~(l + 2 * n <= l) /\ l + 2 * n - l = 2 * n /\ n \in Nat \ {0}
      BY <1>2, <2>2
    <3>2. f[Len(f)] = RowAt(2 * n)
      BY <1>2, <1>3, <1>4, <3>1
    <3>3. Half(2 * n) = "back"
      BY <3>1, LastHalf
    <3>4. f[Len(f)].kind # "header" /\ f[Len(f)].half = "back"
      BY <3>2, <3>3 DEF RowAt, Row
    <3> QED
      BY <1>7, <1>8, <3>4 DEF Closed
  <2> QED
    BY <2>1, <2>2
<1>10. Intact(f)
  <2>1. complete \subseteq 0 .. MaxTrades
    BY DEF Typed, TypeOK
  <2> QED
    BY <1>1, <1>3, <1>5, <1>9, <2>1, ClosedFits
<1>11. Len(RowsOf(f)) = n
  <2>1. Len(RowsOf(f)) = (Len(f) - l) \div 2
    BY <1>3, <1>7, <1>9, <1>10, RowsAre
  <2>2. Len(f) - l = 2 * n
    BY <1>2, <1>3
  <2>3. (2 * n) \div 2 = n
    OBVIOUS
  <2> QED
    BY <2>1, <2>2, <2>3
<1> QED
  BY <1>1, <1>7, <1>9, <1>10, <1>11 DEF Loadable

\* The text grows by what is written.
LEMMA TextGrows ==
  ASSUME Typed, NEW p \in Programs, phase[p] \in Saving, Found(p), width[p] \in HeaderLens,
         NEW n \in Nat, NEW m \in Nat, n <= m, m <= Size(p), NEW f, f = Text(p, n)
  PROVE  Written(f, p, n, m) = Text(p, m)
<1>1. n \in 0 .. Size(p)
  BY PieceIs
<1>2. DOMAIN f = 1 .. n /\ Len(f) = n /\ \A j \in 1 .. n : f[j] = Piece(p, j)
  BY <1>1, TextIs
<1>3. Larger(Len(f), m) = m
  BY <1>2 DEF Larger
<1>4. \A j \in 1 .. m :
        (IF j > n /\ j <= m THEN Piece(p, j) ELSE IF j \in DOMAIN f THEN f[j] ELSE Hole) = Piece(p, j)
  BY <1>2
<1>5. Written(f, p, n, m) = [j \in 1 .. m |-> Piece(p, j)]
  BY <1>3, <1>4 DEF Written
<1> QED
  BY <1>5 DEF Text

\* What the cache file holds depends on nothing else.
LEMMA LoadableStays ==
  ASSUME path' = path
  PROVE  Loadable(path)' = Loadable(path) /\ Count(path)' = Count(path)
  BY DEF Loadable, Closed, Intact, Count, RowsOf, Header, Row, Half, Hole

LEMMA CountIs ==
  ASSUME Typed, path # None, Loadable(path)
  PROVE  Count(path) \in Nat
<1>1. path \in Seq(Pieces)
  BY DEF Typed, TypeOK
<1>2. Count(path) \in 0 .. MaxTrades
  BY <1>1, RowsAre DEF Loadable
<1> QED
  BY <1>2, Sizes

LEMMA TextStays ==
  ASSUME NEW p \in Programs, trades'[p] = trades[p], width'[p] = width[p], at'[p] = at[p]
  PROVE  Text(p, at[p])' = Text(p, at[p]) /\ Size(p)' = Size(p)
<1>1. \A j : Piece(p, j)' = Piece(p, j)
  BY DEF Piece, Header, Row, Half
<1> QED
  BY <1>1 DEF Text, Size

\* Nobody begins to write.
LEMMA OwnKept ==
  ASSUME Own, tmp' = tmp, handle' = handle, width' = width, at' = at,
         \A q \in Programs : phase'[q] \in {"writing", "replacing"} => phase'[q] = phase[q] /\ trades'[q] = trades[q]
  PROVE  Own'
  BY TextStays DEF Own

\* Nobody starts.
LEMMA AloneKept ==
  ASSUME Alone, \A q \in Programs : ~Idle(q)' => ~Idle(q)
  PROVE  Alone'
  BY DEF Alone

LEMMA OthersIdle ==
  ASSUME Alone, NEW p \in Programs, ~Idle(p)
  PROVE  \A q \in Programs \ {p} : Idle(q)
  BY DEF Alone

LEMMA TradeCache ==
  ASSUME WholeInv, CacheInv, Trade
  PROVE  CacheInv'
<1> SUFFICES ASSUME ~overlap' PROVE Alone' /\ Own' /\ Later'
  BY DEF CacheInv
<1>1. /\ UNCHANGED <<phase, cursor, listed, trades, tmp, path, handle, width, at, overlap>>
  BY DEF Trade, walk, files
<1>2. Alone /\ Own /\ Later
  BY <1>1, SeparateIs
<1>3. Len(market) \in Nat /\ Len(market') = Len(market) + 1
  <2>1. market \in Seq(Int)
    BY MarketIs DEF WholeInv
  <2>2. PICK ts \in 0 .. MaxTime : market' = Append(market, ts)
    BY DEF Trade
  <2>3. ts \in Int
    BY <2>2, Sizes
  <2> QED
    BY <2>1, <2>2, <2>3
<1>4. Alone' /\ Own'
  <2>1. Alone'
    BY <1>1, <1>2 DEF Alone, Idle
  <2> QED
    BY <1>1, <1>2, <2>1, OwnKept
<1>5. path # None => Count(path) \in Nat
  BY <1>2, CountIs DEF WholeInv, Later
<1>6. path # None => Count(path) <= Len(market')
  BY <1>2, <1>3, <1>5 DEF Later
<1>7. Later'
  <2>1. path # None => Loadable(path)' /\ Count(path)' = Count(path)
    BY <1>1, <1>2, LoadableStays DEF Later
  <2> QED
    BY <1>1, <1>2, <1>6, <2>1 DEF Later
<1> QED
  BY <1>4, <1>7

LEMMA LoadCache ==
  ASSUME WholeInv, CacheInv, NEW p \in Programs, path # None, Load(p), UNCHANGED <<market, files>>
  PROVE  CacheInv'
<1> SUFFICES ASSUME ~overlap' PROVE Alone' /\ Own' /\ Later'
  BY DEF CacheInv
<1>1. /\ UNCHANGED <<market, cursor, listed, tmp, path, handle, width, at, overlap>>
      /\ phase'[p] \in {"loaded", "unreadable"}
      /\ \A q \in Programs \ {p} : phase'[q] = phase[q] /\ trades'[q] = trades[q]
  BY DEF Load, walk, files, WholeInv, Typed, Arrays
<1>2. Alone /\ Own /\ Later
  BY <1>1, SeparateIs
<1>3. Alone'
  <2>1. \A q \in Programs : ~Idle(q)' => ~Idle(q)
    BY <1>1 DEF Idle
  <2> QED
    BY <1>2, <2>1, AloneKept
<1>4. Own'
  BY <1>1, <1>2, OwnKept
<1>5. Later'
  BY <1>1, <1>2, LoadableStays DEF Later, Saving
<1> QED
  BY <1>3, <1>4, <1>5

LEMMA AskCache ==
  ASSUME WholeInv, CacheInv, NEW p \in Programs, Ask(p), UNCHANGED <<market, files, trades, complete>>
  PROVE  CacheInv'
<1> SUFFICES ASSUME ~overlap' PROVE Alone' /\ Own' /\ Later'
  BY DEF CacheInv
<1>1. ~overlap /\ \A q \in Programs \ {p} : Idle(q)
  BY DEF Ask
<1>2. Alone /\ Own /\ Later
  BY <1>1, SeparateIs
<1>3. /\ phase'[p] = "asking" /\ cursor'[p] = None
      /\ \A q \in Programs \ {p} : phase'[q] = phase[q] /\ cursor'[q] = cursor[q] /\ listed'[q] = listed[q]
      /\ UNCHANGED <<market, tmp, path, handle, width, at, trades>>
  BY DEF Ask, files, WholeInv, Typed, Arrays
<1>4. \A q \in Programs \ {p} : phase'[q] \notin {"asking", "opening", "writing", "replacing"}
  BY <1>1, <1>3 DEF Idle
<1>5. Alone'
  BY <1>4 DEF Alone, Idle
<1>6. Own'
  BY <1>3, <1>4 DEF Own
<1>7. Later'
  BY <1>2, <1>3, <1>4, LoadableStays DEF Later, Saving
<1> QED
  BY <1>5, <1>6, <1>7

LEMMA PageCache ==
  ASSUME WholeInv, CacheInv, NEW p \in Programs, Page(p)
  PROVE  CacheInv'
<1> SUFFICES ASSUME ~overlap' PROVE Alone' /\ Own' /\ Later'
  BY DEF CacheInv
<1>1. /\ UNCHANGED <<market, tmp, path, handle, width, at, overlap>>
      /\ phase[p] = "asking" /\ phase'[p] \notin {"writing", "replacing"}
      /\ listed'[p] = IF cursor[p] = None THEN Len(market) ELSE listed[p]
  BY DEF Page, files, WholeInv, Typed, Arrays
<1>2. \A q \in Programs \ {p} : /\ phase'[q] = phase[q] /\ trades'[q] = trades[q]
                                /\ cursor'[q] = cursor[q] /\ listed'[q] = listed[q]
  BY DEF Page, WholeInv, Typed, Arrays
<1>3. Alone /\ Own /\ Later
  BY <1>1, SeparateIs
<1>4. Alone'
  <2>1. \A q \in Programs : ~Idle(q)' => ~Idle(q)
    BY <1>1, <1>2 DEF Idle
  <2> QED
    BY <1>3, <2>1, AloneKept
<1>5. Own'
  BY <1>1, <1>2, <1>3, OwnKept
<1>6. Later'
  <2>1. path # None => Count(path) <= listed'[p]
    BY <1>1, <1>3 DEF Later
  <2>2. path # None => \A q \in Programs \ {p} :
          (phase[q] = "asking" /\ cursor[q] # None) \/ phase[q] \in Saving => Count(path) <= listed[q]
    BY <1>3 DEF Later
  <2>3. path # None => Loadable(path) /\ Count(path) <= Len(market)
    BY <1>3 DEF Later
  <2> QED
    BY <1>1, <1>2, <2>1, <2>2, <2>3, LoadableStays DEF Later, Saving
<1> QED
  BY <1>4, <1>5, <1>6

LEMMA StopCache ==
  ASSUME WholeInv, CacheInv, NEW p \in Programs, NEW at1 \in {"gave up", "failed", "crashed"},
         phase' = [phase EXCEPT ![p] = at1],
         UNCHANGED <<market, cursor, listed, trades, tmp, path, handle, width, at>>, overlap' = overlap
  PROVE  CacheInv'
<1> SUFFICES ASSUME ~overlap' PROVE Alone' /\ Own' /\ Later'
  BY DEF CacheInv
<1>1. /\ UNCHANGED <<market, cursor, listed, tmp, path, handle, width, at, trades>>
      /\ phase'[p] = at1 /\ \A q \in Programs \ {p} : phase'[q] = phase[q]
  BY DEF WholeInv, Typed, Arrays
<1>2. Alone /\ Own /\ Later
  BY SeparateIs
<1>3. Alone'
  <2>1. \A q \in Programs : ~Idle(q)' => ~Idle(q)
    BY <1>1 DEF Idle
  <2> QED
    BY <1>2, <2>1, AloneKept
<1>4. Own'
  BY <1>1, <1>2, OwnKept
<1>5. Later'
  BY <1>1, <1>2, LoadableStays DEF Later, Saving
<1> QED
  BY <1>3, <1>4, <1>5

LEMMA OpenTmpCache ==
  ASSUME WholeInv, CacheInv, NEW p \in Programs, OpenTmp(p)
  PROVE  CacheInv'
<1> SUFFICES ASSUME ~overlap' PROVE Alone' /\ Own' /\ Later'
  BY DEF CacheInv
<1>1. /\ UNCHANGED <<market, cursor, listed, trades, path, overlap>>
      /\ phase[p] = "opening" /\ phase'[p] = "writing"
      /\ tmp' = << >> /\ handle'[p] = "tmp" /\ at'[p] = 0
      /\ \A q \in Programs \ {p} : phase'[q] = phase[q]
  BY DEF OpenTmp, Opened, walk, WholeInv, Typed, Arrays
<1>2. Alone /\ Own /\ Later
  BY <1>1, SeparateIs
<1>3. \A q \in Programs \ {p} : phase'[q] \notin {"asking", "opening", "writing", "replacing"}
  BY <1>1, <1>2, OthersIdle DEF Idle
<1>4. Alone'
  BY <1>3 DEF Alone, Idle
<1>5. Own'
  <2>1. tmp' = Text(p, at[p])'
    BY <1>1 DEF Text
  <2> QED
    BY <1>1, <1>3, <2>1 DEF Own
<1>6. Later'
  BY <1>1, <1>2, LoadableStays DEF Later, Saving
<1> QED
  BY <1>4, <1>5, <1>6

LEMMA WriteCache ==
  ASSUME WholeInv, CacheInv, NEW p \in Programs, Write(p)
  PROVE  CacheInv' /\ (~overlap' => path' = path)
<1> SUFFICES ASSUME ~overlap' PROVE Alone' /\ Own' /\ Later' /\ path' = path
  BY DEF CacheInv
<1>1. /\ UNCHANGED <<market, cursor, listed, trades, handle, width, overlap>>
      /\ phase[p] = "writing" /\ phase'[p] \in {"writing", "replacing"}
      /\ phase'[p] = IF at'[p] >= Size(p) THEN "replacing" ELSE "writing"
      /\ \A q \in Programs \ {p} : phase'[q] = phase[q]
  BY DEF Write, walk, WholeInv, Typed, Arrays
<1>2. Alone /\ Own /\ Later
  BY <1>1, SeparateIs
<1>3. handle[p] = "tmp" /\ tmp = Text(p, at[p])
  BY <1>1, <1>2 DEF Own
<1>4. tmp' = Written(tmp, p, at[p], at'[p]) /\ path' = path
  BY <1>3 DEF Write
<1>5. /\ phase[p] \in Saving /\ width[p] \in HeaderLens /\ Further(p, at[p], at'[p])
      /\ Size(p) \in Nat /\ width[p] \in Nat \ {0} /\ Found(p)
  BY WriteFacts DEF WholeInv, AllGood, Good
<1>6. at[p] \in Nat /\ at'[p] \in Nat /\ at[p] <= at'[p] /\ at'[p] <= Size(p)
  BY <1>5 DEF Further
<1>7. tmp' = Text(p, at'[p])
  <2>1. PICK f, n, m : f = tmp /\ n = at[p] /\ m = at'[p]
    OBVIOUS
  <2>2. Written(f, p, n, m) = Text(p, m)
    BY <1>3, <1>5, <1>6, <2>1, TextGrows DEF WholeInv
  <2> QED
    BY <1>4, <2>1, <2>2
<1>8. \A q \in Programs \ {p} : phase'[q] \notin {"asking", "opening", "writing", "replacing"}
  BY <1>1, <1>2, OthersIdle DEF Idle
<1>9. Alone'
  BY <1>8 DEF Alone, Idle
<1>10. Own'
  <2>1. tmp' = Text(p, at[p])' /\ Size(p)' = Size(p)
    <3>1. \A j : Piece(p, j)' = Piece(p, j)
      BY <1>1 DEF Piece, Header, Row, Half
    <3> QED
      BY <1>1, <1>7, <3>1 DEF Text, Size
  <2>2. phase'[p] = "replacing" => at'[p] = Size(p)
    BY <1>1, <1>5, <1>6
  <2> QED
    BY <1>1, <1>3, <1>8, <2>1, <2>2 DEF Own
<1>11. Later'
  BY <1>1, <1>2, <1>4, LoadableStays DEF Later, Saving
<1> QED
  BY <1>4, <1>9, <1>10, <1>11

\* A save puts what was found in the place of what was there.
LEMMA ReplaceCache ==
  ASSUME WholeInv, CacheInv, NEW p \in Programs, Replace(p)
  PROVE  CacheInv' /\ (~overlap' /\ path # None =>
                         path' # None /\ Loadable(path') /\ Count(path) <= Count(path'))
<1>1. CASE tmp = None
  <2>1. /\ phase' = [phase EXCEPT ![p] = "failed"]
        /\ UNCHANGED <<market, cursor, listed, trades, tmp, path, handle, width, at, overlap>>
    BY <1>1 DEF Replace, walk
  <2>2. CacheInv'
    BY <2>1, StopCache
  <2>3. ~overlap /\ path # None => Loadable(path) /\ Count(path) \in Nat
    BY SeparateIs, CountIs DEF Later, WholeInv
  <2>4. path' = path /\ overlap' = overlap
    BY <2>1
  <2> QED
    BY <2>2, <2>3, <2>4
<1>2. CASE tmp # None
  <2> SUFFICES ASSUME ~overlap'
               PROVE  /\ Alone' /\ Own' /\ Later'
                      /\ path # None => path' # None /\ Loadable(path') /\ Count(path) <= Count(path')
    BY DEF CacheInv
  <2>1. /\ UNCHANGED <<market, trades, listed, overlap>> /\ path' = tmp
        /\ phase[p] = "replacing" /\ phase'[p] = "done"
        /\ \A q \in Programs \ {p} : phase'[q] = phase[q]
    BY <1>2 DEF Replace, walk, WholeInv, Typed, Arrays
  <2>2. Alone /\ Own /\ Later
    BY <2>1, SeparateIs
  <2>3. tmp = Text(p, Size(p)) /\ width[p] \in HeaderLens
    BY <2>1, <2>2 DEF Own, WholeInv, HandlesThere
  <2>4. Found(p) /\ phase[p] \in Saving /\ listed[p] <= Len(market)
    BY <2>1 DEF WholeInv, AllGood, Good, Saving, Found
  <2>5. Loadable(path') /\ Count(path') = listed[p]
    <3>1. PICK f : f = tmp
      OBVIOUS
    <3>2. Loadable(f) /\ Count(f) = listed[p]
      BY <2>3, <2>4, <3>1, TextLoads DEF WholeInv
    <3> QED
      BY <2>1, <3>1, <3>2
  <2>6. \A q \in Programs : phase'[q] \notin {"asking", "opening", "writing", "replacing"}
    BY <2>1, <2>2, OthersIdle DEF Idle
  <2>7. Alone' /\ Own'
    BY <2>6 DEF Alone, Idle, Own
  <2>8. Count(path') <= Len(market')
    BY <2>1, <2>4, <2>5
  <2>9. Later'
    <3>1. Loadable(path)' = Loadable(path') /\ Count(path)' = Count(path')
      BY DEF Loadable, Closed, Intact, Count, RowsOf, Header, Row, Half, Hole
    <3> QED
      BY <2>5, <2>6, <2>8, <3>1 DEF Later, Saving
  <2>10. path # None => Count(path) <= Count(path')
    BY <2>2, <2>4, <2>5 DEF Later
  <2> QED
    BY <1>2, <2>1, <2>5, <2>7, <2>9, <2>10
<1> QED
  BY <1>1, <1>2

\* What a step does to the cache file, and that it keeps CacheInv.
LEMMA NextCache ==
  ASSUME WholeInv, CacheInv, [Next]_vars
  PROVE  /\ CacheInv'
         /\ ~overlap' /\ path # None => path' # None /\ Loadable(path') /\ Count(path) <= Count(path')
<1>1. ~overlap /\ path # None => Loadable(path) /\ Count(path) \in Nat
  BY SeparateIs, CountIs DEF Later, WholeInv
<1>0. ~overlap' => ~overlap
  BY DEF Next, Trade, Begin, Load, Ask, Fetch, Page, RateLimited, GiveUp, Save, OpenTmp, Opened, Write,
         Replace, Crash, vars
<1>2. CASE CacheInv' /\ (~overlap' => path' = path)
  BY <1>0, <1>1, <1>2
<1>3. CASE UNCHANGED vars
  <2>1. /\ UNCHANGED <<market, phase, cursor, listed, trades, tmp, path, handle, width, at, overlap>>
    BY <1>3 DEF vars, walk, files
  <2>2. Own => Own'
    BY <2>1, OwnKept
  <2>3. Alone => Alone'
    BY <2>1 DEF Alone, Idle
  <2>4. Later => Later'
    BY <2>1, LoadableStays DEF Later
  <2> QED
    BY <1>1, <2>1, <2>2, <2>3, <2>4 DEF CacheInv
<1>4. CASE Trade
  BY <1>2, <1>4, TradeCache DEF Trade, files
<1>5. ASSUME NEW p \in Programs, Begin(p) PROVE CacheInv' /\ path' = path
  BY <1>5, LoadCache, AskCache DEF Begin, files
<1>6. ASSUME NEW p \in Programs, Page(p) \/ GiveUp(p) \/ Crash(p) PROVE CacheInv' /\ path' = path
  BY <1>6, PageCache, StopCache DEF Page, GiveUp, Crash, walk, files
<1>7. ASSUME NEW p \in Programs, OpenTmp(p) PROVE CacheInv' /\ path' = path
  BY <1>7, OpenTmpCache DEF OpenTmp
<1>8. ASSUME NEW p \in Programs, Write(p) PROVE CacheInv' /\ (~overlap' => path' = path)
  BY <1>8, WriteCache
<1>9. ASSUME NEW p \in Programs, Replace(p)
      PROVE  CacheInv' /\ (~overlap' /\ path # None => path' # None /\ Loadable(path') /\ Count(path) <= Count(path'))
  BY <1>9, ReplaceCache
<1>10. Next => \/ Trade \/ UNCHANGED vars
               \/ \E p \in Programs : \/ Begin(p) \/ Page(p) \/ GiveUp(p) \/ Crash(p)
                                      \/ OpenTmp(p) \/ Write(p) \/ Replace(p)
  BY DEF Next, Fetch, Save, RateLimited
<1> QED
  BY <1>1, <1>2, <1>3, <1>4, <1>5, <1>6, <1>7, <1>8, <1>9, <1>10

\* Unless two programs meet, a cache only gets better.
THEOREM CacheImproves == Spec => CacheNeverWorse
<1> DEFINE Step == path # None /\ ~overlap' => path' # None /\ Loadable(path') /\ Count(path) <= Count(path')
<1>1. Init => CacheInv
  <2> SUFFICES ASSUME Init PROVE CacheInv
    OBVIOUS
  <2>1. path = None /\ \A p \in Programs : phase[p] = "start"
    BY DEF Init
  <2> QED
    BY <2>1 DEF CacheInv, Alone, Idle, Own, Later
<1>2. WholeInv /\ CacheInv /\ [Next]_vars => CacheInv'
  BY NextCache
<1>3. WholeInv /\ CacheInv /\ [Next]_vars => [Step]_vars
  <2> SUFFICES ASSUME WholeInv, CacheInv, [Next]_vars, path # None, ~overlap'
               PROVE  path' # None /\ Loadable(path') /\ Count(path) <= Count(path')
    OBVIOUS
  <2>1. CacheInv' /\ path' # None /\ Count(path) <= Count(path')
    BY NextCache
  <2>2. Loadable(path)'
    BY <2>1 DEF CacheInv, Later
  <2> QED
    BY <2>1, <2>2 DEF Loadable
<1> QED
  BY <1>1, <1>2, <1>3, WholeAlways, PTL DEF Spec, CacheNeverWorse

-----------------------------------------------------------------------------
(* The journal. *)

Hashes == Seq(Nat \X Kinds)

Entries == [seq : Nat, kind : Kinds, prev : Hashes, hash : Hashes]

\* What the proofs need of the types.
LogTyped ==
  /\ file \in Seq(Entries) /\ entries \in [Processes -> Seq(Entries)]
  /\ head \in [Processes -> Hashes]
  /\ open \subseteq Processes /\ damages \in Nat /\ spot \in Nat

\* Unless two had the journal open at once, at most one has it open now.
OneOpen == ~shared => \A p, q \in open : p = q

\* The first damage: what comes before it is as it was.
Spot ==
  ~shared /\ damages = 1 =>
    /\ spot \in DOMAIN file
    /\ ~Linked(file, spot)
    /\ \A j \in 1 .. spot - 1 : Linked(file, j)
Unspotted == damages = 0 => spot = 0

\* No process knows of more entries than there are.
NoneAhead == damages = 0 => \A p \in open : Len(entries[p]) <= Len(file)

\* A file that verifies begins with what each process has in memory.
OneHistory ==
  damages = 0 /\ Verified(file) =>
    \A p \in open : \A i \in DOMAIN entries[p] : entries[p][i] = file[i]

LogInv == LogTyped /\ OneOpen /\ OneWriterVerifies /\ Spot /\ Unspotted /\ NoneAhead /\ OneHistory
-----------------------------------------------------------------------------
(* The chain. *)

\* An entry that is appended changes no link before it.
LEMMA LinksKept ==
  ASSUME NEW f \in Seq(Entries), NEW e \in Entries, NEW i \in DOMAIN f
  PROVE  Linked(Append(f, e), i) <=> Linked(f, i)
<1>1. /\ i \in Nat /\ i >= 1 /\ Append(f, e)[i] = f[i]
      /\ i # 1 => i - 1 \in DOMAIN f /\ Append(f, e)[i - 1] = f[i - 1]
  OBVIOUS
<1> QED
  BY <1>1 DEF Linked, HashBefore

\* Entry makes the entry that verify expects after those of f.
LEMMA NextIsLinked ==
  ASSUME NEW f \in Seq(Entries), NEW kind \in Kinds,
         NEW e, e = Entry(Len(f), kind, HeadOf(f)), e \in Entries
  PROVE  Linked(Append(f, e), Len(f) + 1) /\ HeadOf(Append(f, e)) = e.hash
<1> DEFINE g == Append(f, e)
<1>1. g # << >> /\ Len(g) = Len(f) + 1 /\ g[Len(f) + 1] = e /\ Len(f) \in Nat
  OBVIOUS
<1>2. HashBefore(g, Len(f) + 1) = HeadOf(f)
  <2>1. CASE f = << >>
    BY <2>1 DEF HashBefore, HeadOf
  <2>2. CASE f # << >>
    <3>1. Len(f) # 0 /\ g[Len(f)] = f[Len(f)]
      BY <2>2
    <3> QED
      BY <2>2, <3>1, <1>1 DEF HashBefore, HeadOf
  <2> QED
    BY <2>1, <2>2
<1>3. /\ e.seq = Len(f) /\ e.kind = kind /\ e.prev = HeadOf(f)
      /\ e.hash = EntryHash(Len(f), kind, HeadOf(f))
  BY DEF Entry
<1>4. Len(f) + 1 - 1 = Len(f)
  OBVIOUS
<1>5. HeadOf(g) = e.hash
  BY <1>1 DEF HeadOf
<1> HIDE DEF g
<1> QED
  BY <1>1, <1>2, <1>3, <1>4, <1>5 DEF Linked, g

\* A file verifies with one entry more if it did before and the entry fits.
LEMMA VerifiedAppend ==
  ASSUME NEW f \in Seq(Entries), NEW e \in Entries
  PROVE  Verified(Append(f, e)) <=> Verified(f) /\ Linked(Append(f, e), Len(f) + 1)
<1>1. DOMAIN Append(f, e) = DOMAIN f \cup {Len(f) + 1}
  OBVIOUS
<1> QED
  BY <1>1, LinksKept DEF Verified

\* What Entry makes is an entry.
LEMMA EntryType ==
  ASSUME NEW seq \in Nat, NEW kind \in Kinds, NEW prev \in Hashes
  PROVE  Entry(seq, kind, prev) \in Entries
<1>1. EntryHash(seq, kind, prev) \in Hashes
  BY DEF EntryHash, Hashes
<1> QED
  BY <1>1 DEF Entry, Entries

\* Of the entries that do not fit, FirstBad names the first.
LEMMA FirstBadIs ==
  ASSUME NEW f \in Seq(Entries), NEW i \in DOMAIN f, ~Linked(f, i),
         \A j \in 1 .. i - 1 : Linked(f, j)
  PROVE  ~Verified(f) /\ FirstBad(f) = i - 1
<1> DEFINE P(k) == ~Linked(f, k) /\ \A j \in 1 .. k - 1 : Linked(f, j)
<1>1. P(i)
  OBVIOUS
<1>2. \A k \in DOMAIN f : P(k) => k = i
  <2> SUFFICES ASSUME NEW k \in DOMAIN f, P(k) PROVE k = i
    OBVIOUS
  <2>1. i \in Nat /\ k \in Nat /\ i >= 1 /\ k >= 1
    OBVIOUS
  <2>2. ~(k < i) /\ ~(i < k)
    <3>1. k < i => k \in 1 .. i - 1
      BY <2>1
    <3>2. i < k => i \in 1 .. k - 1
      BY <2>1
    <3> QED
      BY <3>1, <3>2
  <2> QED
    BY <2>1, <2>2
<1>3. (CHOOSE k \in DOMAIN f : P(k)) = i
  <2> HIDE DEF P
  <2> QED
    BY <1>1, <1>2
<1> QED
  BY <1>3 DEF FirstBad, Verified

\* Opening takes over the head of the chain.
LEMMA HeadType ==
  ASSUME NEW f \in Seq(Entries)
  PROVE  HeadOf(f) \in Hashes
<1>1. Genesis \in Hashes
  BY DEF Genesis, Hashes
<1>2. f # << >> => f[Len(f)] \in Entries
  OBVIOUS
<1> QED
  BY <1>1, <1>2 DEF HeadOf, Entries
-----------------------------------------------------------------------------
(* Each step keeps the invariant. *)

LEMMA OpenKeeps ==
  ASSUME LogInv, NEW p \in Processes, Open(p)
  PROVE  LogInv'
<1> USE DEF LogInv
<1>1. /\ p \notin open /\ Verified(file) /\ open' = open \cup {p}
      /\ entries' = [entries EXCEPT ![p] = file] /\ head' = [head EXCEPT ![p] = HeadOf(file)]
      /\ shared' = (shared \/ open # {})
      /\ file' = file /\ damages' = damages /\ spot' = spot
  BY DEF Open
<1>2. /\ entries'[p] = file /\ head'[p] = HeadOf(file)
      /\ \A q \in Processes \ {p} : entries'[q] = entries[q] /\ head'[q] = head[q]
  BY <1>1 DEF LogTyped
<1>3. LogTyped'
  BY <1>1, HeadType DEF LogTyped
<1>4. OneOpen'
  BY <1>1 DEF OneOpen
<1>5. OneWriterVerifies'
  <2> SUFFICES ASSUME ~shared', damages' = 0
               PROVE  Verified(file') /\ \A q \in open' : entries'[q] = file' /\ head'[q] = HeadOf(file')
    BY DEF OneWriterVerifies
  <2>1. open' = {p}
    BY <1>1
  <2> QED
    BY <2>1, <1>1, <1>2
<1>6. Spot' /\ Unspotted'
  BY <1>1 DEF Spot, Unspotted, Linked, HashBefore
<1>7. NoneAhead'
  <2> SUFFICES ASSUME damages = 0, NEW q \in open' PROVE Len(entries'[q]) <= Len(file)
    BY <1>1 DEF NoneAhead
  <2>1. Len(file) \in Nat
    BY DEF LogTyped
  <2>2. q = p \/ (q \in open /\ q \in Processes \ {p})
    BY <1>1 DEF LogTyped
  <2> QED
    BY <1>2, <2>1, <2>2 DEF NoneAhead
<1>8. OneHistory'
  <2> SUFFICES ASSUME damages = 0, Verified(file), NEW q \in open', NEW i \in DOMAIN entries'[q]
               PROVE  entries'[q][i] = file[i]
    BY <1>1 DEF OneHistory
  <2>2. q = p \/ (q \in open /\ q \in Processes \ {p})
    BY <1>1 DEF LogTyped
  <2> QED
    BY <1>2, <2>2 DEF OneHistory
<1> QED
  BY <1>3, <1>4, <1>5, <1>6, <1>7, <1>8

LEMMA RecordKeeps ==
  ASSUME LogInv, NEW p \in Processes, NEW kind \in Kinds, Record(p, kind)
  PROVE  LogInv'
<1> USE DEF LogInv
<1> DEFINE e == Entry(NextSeq(p), kind, head[p])
<1>1. /\ p \in open
      /\ entries' = [entries EXCEPT ![p] = Append(@, e)] /\ head' = [head EXCEPT ![p] = e.hash]
      /\ file' = Append(file, e) /\ open' = open /\ shared' = shared
      /\ damages' = damages /\ spot' = spot
  BY DEF Record
<1>2. NextSeq(p) = Len(entries[p]) /\ NextSeq(p) \in Nat /\ head[p] \in Hashes
  BY DEF NextSeq, LogTyped
<1>3. e \in Entries
  BY <1>2, EntryType
<1>e. e.seq = Len(entries[p]) /\ e.hash \in Hashes
  BY <1>2, <1>3 DEF Entry, Entries
<1>h. e = Entry(Len(entries[p]), kind, head[p])
  BY <1>2
<1> HIDE DEF e
<1>4. /\ entries'[p] = Append(entries[p], e) /\ head'[p] = e.hash
      /\ \A q \in Processes \ {p} : entries'[q] = entries[q] /\ head'[q] = head[q]
  BY <1>1 DEF LogTyped
<1>5. LogTyped'
  <2>1. file' \in Seq(Entries)
    BY <1>1, <1>3 DEF LogTyped
  <2>2. entries' \in [Processes -> Seq(Entries)]
    BY <1>1, <1>3 DEF LogTyped
  <2>3. head' \in [Processes -> Hashes]
    BY <1>1, <1>e DEF LogTyped
  <2> QED
    BY <2>1, <2>2, <2>3, <1>1 DEF LogTyped
<1>6. OneOpen' /\ Unspotted'
  BY <1>1 DEF OneOpen, Unspotted
<1>7. OneWriterVerifies'
  <2> SUFFICES ASSUME ~shared, damages = 0
               PROVE  Verified(file') /\ \A q \in open : entries'[q] = file' /\ head'[q] = HeadOf(file')
    BY <1>1 DEF OneWriterVerifies
  <2>1. /\ Verified(file) /\ entries[p] = file /\ head[p] = HeadOf(file)
        /\ \A q \in open : q = p
    BY <1>1 DEF OneWriterVerifies, OneOpen
  <2>2. Linked(Append(file, e), Len(file) + 1) /\ HeadOf(Append(file, e)) = e.hash
    BY <2>1, <1>h, <1>3, NextIsLinked DEF LogTyped
  <2>3. Verified(Append(file, e))
    BY <2>1, <2>2, <1>3, VerifiedAppend DEF LogTyped
  <2> QED
    BY <2>1, <2>2, <2>3, <1>1, <1>4
<1>8. Spot'
  <2> SUFFICES ASSUME ~shared, damages = 1
               PROVE  /\ spot \in DOMAIN file' /\ ~Linked(file', spot)
                      /\ \A j \in 1 .. spot - 1 : Linked(file', j)
    BY <1>1 DEF Spot
  <2>1. /\ spot \in DOMAIN file /\ ~Linked(file, spot)
        /\ \A j \in 1 .. spot - 1 : Linked(file, j)
    BY DEF Spot
  <2>2. \A j \in 1 .. spot - 1 : j \in DOMAIN file
    BY <2>1 DEF LogTyped
  <2>3. \A j \in DOMAIN file : j \in DOMAIN file' /\ (Linked(file', j) <=> Linked(file, j))
    <3>1. \A j \in DOMAIN file : Linked(Append(file, e), j) <=> Linked(file, j)
      BY <1>3, LinksKept DEF LogTyped
    <3>2. DOMAIN file \subseteq DOMAIN Append(file, e)
      BY <1>3 DEF LogTyped
    <3> QED
      BY <3>1, <3>2, <1>1
  <2> QED
    BY <2>1, <2>2, <2>3
<1>9. NoneAhead'
  <2> SUFFICES ASSUME damages = 0, NEW q \in open PROVE Len(entries'[q]) <= Len(file')
    BY <1>1 DEF NoneAhead
  <2>1. Len(file) \in Nat /\ Len(file') = Len(file) + 1 /\ Len(entries[p]) \in Nat
    BY <1>1, <1>3 DEF LogTyped
  <2>2. Len(entries[q]) <= Len(file) /\ Len(entries[q]) \in Nat
    BY DEF NoneAhead, LogTyped
  <2>3. CASE q = p
    <3>1. Len(entries'[p]) = Len(entries[p]) + 1
      BY <1>3, <1>4 DEF LogTyped
    <3> QED
      BY <2>1, <2>2, <2>3, <3>1
  <2>4. CASE q # p
    <3>1. entries'[q] = entries[q]
      BY <2>4, <1>4 DEF LogTyped
    <3> QED
      BY <2>1, <2>2, <3>1
  <2> QED
    BY <2>3, <2>4
<1>10. OneHistory'
  <2> SUFFICES ASSUME damages = 0, Verified(file'), NEW q \in open, NEW i \in DOMAIN entries'[q]
               PROVE  entries'[q][i] = file'[i]
    BY <1>1 DEF OneHistory
  <2>1. Verified(file) /\ Linked(Append(file, e), Len(file) + 1)
    BY <1>1, <1>3, VerifiedAppend DEF LogTyped
  <2>2. Append(file, e)[Len(file) + 1] = e /\ Len(file) \in Nat
    BY <1>3 DEF LogTyped
  <2>3. Len(entries[p]) = Len(file)
    BY <2>1, <2>2, <1>e DEF Linked
  <2>4. \A r \in open : \A j \in DOMAIN entries[r] : entries[r][j] = file[j]
    BY <2>1 DEF OneHistory
  <2>5. \A r \in open : \A j \in DOMAIN entries[r] : j \in 1 .. Len(file)
    BY DEF NoneAhead, LogTyped
  <2>6. \A j \in 1 .. Len(file) : file'[j] = file[j]
    BY <1>1, <1>3 DEF LogTyped
  <2>7. CASE q # p
    BY <2>7, <1>4, <2>4, <2>5, <2>6, ZenonT(60) DEF LogTyped
  <2>8. CASE q = p
    <3>1. entries'[p] = Append(entries[p], e) /\ entries[p] \in Seq(Entries)
      BY <1>1, <1>4 DEF LogTyped
    <3>2. i \in DOMAIN entries[p] \/ i = Len(file) + 1
      BY <2>3, <2>8, <3>1, <1>3
    <3>3. CASE i \in DOMAIN entries[p]
      <4>1. entries'[p][i] = entries[p][i]
        BY <3>1, <3>3, <1>3
      <4> QED
        BY <4>1, <2>8, <3>3, <1>1, <2>4, <2>5, <2>6
    <3>4. CASE i = Len(file) + 1
      <4>1. entries'[p][Len(entries[p]) + 1] = e
        BY <3>1, <1>3
      <4> QED
        BY <4>1, <2>2, <2>3, <2>8, <3>4, <1>1
    <3> QED
      BY <3>2, <3>3, <3>4
  <2> QED
    BY <2>7, <2>8
<1> QED
  BY <1>5, <1>6, <1>7, <1>8, <1>9, <1>10

LEMMA LeaveKeeps ==
  ASSUME LogInv, NEW p \in Processes, Close(p) \/ Tear(p)
  PROVE  LogInv'
<1> USE DEF LogInv
<1>1. /\ open' = open \ {p} /\ entries' = [entries EXCEPT ![p] = << >>]
      /\ head' = [head EXCEPT ![p] = Genesis]
      /\ file' = file /\ shared' = shared /\ damages' = damages /\ spot' = spot
  BY DEF Close, Tear
<1>2. \A q \in open' : q \in open /\ entries'[q] = entries[q] /\ head'[q] = head[q]
  BY <1>1 DEF LogTyped
<1>3. LogTyped'
  BY <1>1 DEF LogTyped, Genesis, Hashes
<1>4. OneOpen' /\ Unspotted' /\ Spot'
  BY <1>1 DEF OneOpen, Unspotted, Spot
<1>5. OneWriterVerifies'
  BY <1>1, <1>2 DEF OneWriterVerifies
<1>6. NoneAhead' /\ OneHistory'
  BY <1>1, <1>2 DEF NoneAhead, OneHistory
<1> QED
  BY <1>3, <1>4, <1>5, <1>6

LEMMA EditKeeps ==
  ASSUME LogInv, NEW i \in DOMAIN file, Edit(i)
  PROVE  LogInv'
<1> USE DEF LogInv
<1>1. PICK kind \in Kinds \ {file[i].kind} : file' = [file EXCEPT ![i].kind = kind]
  BY DEF Edit
<1>2. /\ damages' = damages + 1 /\ open' = open /\ entries' = entries /\ head' = head
      /\ shared' = shared /\ spot' = IF spot = 0 \/ i < spot THEN i ELSE spot
  BY DEF Edit, Damaged
<1>3. /\ file[i] \in Entries /\ i \in Nat /\ i >= 1 /\ DOMAIN file' = DOMAIN file
      /\ DOMAIN file = 1 .. Len(file) /\ Len(file) \in Nat
      /\ \A j \in DOMAIN file : j # i => file'[j] = file[j]
      /\ file'[i] = [file[i] EXCEPT !.kind = kind]
  BY <1>1 DEF LogTyped
<1>4. /\ file'[i] \in Entries /\ file'[i].seq = file[i].seq /\ file'[i].prev = file[i].prev
      /\ file'[i].hash = file[i].hash /\ file'[i].kind = kind /\ kind # file[i].kind
  BY <1>1, <1>3 DEF Entries
<1>5. LogTyped'
  <2>1. file' \in Seq(Entries)
    BY <1>1, <1>3, <1>4 DEF LogTyped
  <2> QED
    BY <2>1, <1>2, <1>3 DEF LogTyped
<1>6. damages' # 0
  BY <1>2 DEF LogTyped
<1>7. OneOpen' /\ Unspotted' /\ OneWriterVerifies' /\ NoneAhead' /\ OneHistory'
  BY <1>2, <1>6 DEF OneOpen, Unspotted, OneWriterVerifies, NoneAhead, OneHistory
<1>8. Spot'
  <2> SUFFICES ASSUME ~shared, damages' = 1
               PROVE  /\ spot' \in DOMAIN file' /\ ~Linked(file', spot')
                      /\ \A j \in 1 .. spot' - 1 : Linked(file', j)
    BY <1>2 DEF Spot
  <2>1. damages = 0 /\ spot' = i
    BY <1>2 DEF Unspotted, LogTyped
  <2>2. \A j \in DOMAIN file : Linked(file, j)
    BY <2>1 DEF OneWriterVerifies, Verified
  <2>3. EntryHash(file'[i].seq, file'[i].kind, file'[i].prev) # file'[i].hash
    <3>1. file[i].hash = Append(file[i].prev, <<file[i].seq, file[i].kind>>)
      BY <2>2 DEF Linked, EntryHash
    <3>2. \A h \in Hashes, k \in Kinds, l \in Kinds, n \in Nat :
            k # l => Append(h, <<n, k>>) # Append(h, <<n, l>>)
      <4> SUFFICES ASSUME NEW h \in Hashes, NEW k \in Kinds, NEW l \in Kinds, NEW n \in Nat, k # l
                   PROVE  Append(h, <<n, k>>) # Append(h, <<n, l>>)
        OBVIOUS
      <4>1. Append(h, <<n, k>>)[Len(h) + 1] = <<n, k>> /\ Append(h, <<n, l>>)[Len(h) + 1] = <<n, l>>
        BY DEF Hashes
      <4>2. <<n, k>> # <<n, l>>
        OBVIOUS
      <4> QED
        BY <4>1, <4>2
    <3>3. file[i].prev \in Hashes /\ file[i].seq \in Nat /\ file[i].kind \in Kinds
      BY <1>3 DEF Entries
    <3> QED
      BY <3>1, <3>2, <3>3, <1>4, <1>1 DEF EntryHash
  <2>4. ~Linked(file', i)
    BY <2>3 DEF Linked
  <2>5. \A j \in 1 .. i - 1 : Linked(file', j)
    <3> SUFFICES ASSUME NEW j \in 1 .. i - 1 PROVE Linked(file', j)
      OBVIOUS
    <3>1. j \in DOMAIN file /\ j # i /\ (j # 1 => j - 1 \in DOMAIN file /\ j - 1 # i)
      BY <1>3
    <3>2. Linked(file, j)
      BY <2>2, <3>1
    <3> QED
      BY <3>1, <3>2, <1>3 DEF Linked, HashBefore
  <2> QED
    BY <2>1, <2>4, <2>5, <1>3
<1> QED
  BY <1>5, <1>7, <1>8

LEMMA DeleteKeeps ==
  ASSUME LogInv, NEW i \in DOMAIN file, Delete(i)
  PROVE  LogInv'
<1> USE DEF LogInv
<1>1. /\ i < Len(file)
      /\ file' = [j \in 1 .. Len(file) - 1 |-> IF j < i THEN file[j] ELSE file[j + 1]]
  BY DEF Delete
<1>2. /\ damages' = damages + 1 /\ open' = open /\ entries' = entries /\ head' = head
      /\ shared' = shared /\ spot' = IF spot = 0 \/ i < spot THEN i ELSE spot
  BY DEF Delete, Damaged
<1>3. i \in Nat /\ i >= 1 /\ DOMAIN file = 1 .. Len(file) /\ Len(file) \in Nat
  BY DEF LogTyped
<1>4. /\ DOMAIN file' = 1 .. Len(file) - 1 /\ file'[i] = file[i + 1]
      /\ \A j \in 1 .. i - 1 : file'[j] = file[j]
  BY <1>1, <1>3
<1>5. LogTyped'
  <2>1. \A j \in 1 .. Len(file) - 1 : (IF j < i THEN file[j] ELSE file[j + 1]) \in Entries
    BY <1>3 DEF LogTyped
  <2>2. file' \in Seq(Entries)
    BY <2>1, <1>1, <1>3
  <2> QED
    BY <2>2, <1>2, <1>3 DEF LogTyped
<1>6. damages' # 0
  BY <1>2 DEF LogTyped
<1>7. OneOpen' /\ Unspotted' /\ OneWriterVerifies' /\ NoneAhead' /\ OneHistory'
  BY <1>2, <1>6 DEF OneOpen, Unspotted, OneWriterVerifies, NoneAhead, OneHistory
<1>8. Spot'
  <2> SUFFICES ASSUME ~shared, damages' = 1
               PROVE  /\ spot' \in DOMAIN file' /\ ~Linked(file', spot')
                      /\ \A j \in 1 .. spot' - 1 : Linked(file', j)
    BY <1>2 DEF Spot
  <2>1. damages = 0 /\ spot' = i
    BY <1>2 DEF Unspotted, LogTyped
  <2>2. \A j \in DOMAIN file : Linked(file, j)
    BY <2>1 DEF OneWriterVerifies, Verified
  <2>3. file[i + 1].seq = i
    BY <2>2, <1>1, <1>3 DEF Linked
  <2>4. ~Linked(file', i)
    BY <2>3, <1>3, <1>4 DEF Linked
  <2>5. \A j \in 1 .. i - 1 : Linked(file', j)
    <3> SUFFICES ASSUME NEW j \in 1 .. i - 1 PROVE Linked(file', j)
      OBVIOUS
    <3>1. j \in DOMAIN file /\ (j # 1 => j - 1 \in 1 .. i - 1)
      BY <1>3
    <3>2. Linked(file, j)
      BY <2>2, <3>1
    <3> QED
      BY <3>1, <3>2, <1>4 DEF Linked, HashBefore
  <2>6. i \in DOMAIN file'
    BY <1>1, <1>3, <1>4
  <2> QED
    BY <2>1, <2>4, <2>5, <2>6
<1> QED
  BY <1>5, <1>7, <1>8
-----------------------------------------------------------------------------
(* The theorems. *)

\* The invariant the theorems below rest on: it holds at first and every step
\* keeps it.
THEOREM JournalInv == JSpec => []LogInv
<1>1. JInit => LogInv
  <2> SUFFICES ASSUME JInit PROVE LogInv
    OBVIOUS
  <2>1. file = << >> /\ open = {} /\ damages = 0 /\ spot = 0 /\ LogTyped
    BY DEF JInit, LogTyped, Genesis, Hashes
  <2>2. Verified(file)
    BY <2>1 DEF Verified
  <2> QED
    BY <2>1, <2>2 DEF LogInv, OneOpen, OneWriterVerifies, Spot, Unspotted, NoneAhead, OneHistory
<1>2. LogInv /\ [JNext]_jvars => LogInv'
  <2> SUFFICES ASSUME LogInv, [JNext]_jvars PROVE LogInv'
    OBVIOUS
  <2>1. CASE UNCHANGED jvars
    BY <2>1 DEF jvars, LogInv, LogTyped, OneOpen, OneWriterVerifies, Spot, Unspotted, NoneAhead,
                OneHistory, Verified, Linked, HashBefore, HeadOf
  <2>2. ASSUME NEW p \in Processes, Process(p) PROVE LogInv'
    <3>1. CASE Open(p)
      BY <3>1, OpenKeeps
    <3>2. CASE \E kind \in Kinds : Record(p, kind)
      BY <3>2, RecordKeeps
    <3>3. CASE Close(p) \/ Tear(p)
      BY <3>3, LeaveKeeps
    <3> QED
      BY <2>2, <3>1, <3>2, <3>3 DEF Process
  <2>3. ASSUME NEW i \in DOMAIN file, Edit(i) \/ Delete(i) PROVE LogInv'
    BY <2>3, EditKeeps, DeleteKeeps
  <2> QED
    BY <2>1, <2>2, <2>3 DEF JNext
<1> QED
  BY <1>1, <1>2, PTL DEF JSpec

\* The lines that one process at a time writes verify, up to one that is cut off
\* (journal.py:79-108).
THEOREM OneWriterIsSafe == JSpec => []OneWriterVerifies
<1>1. LogInv => OneWriterVerifies
  BY DEF LogInv
<1> QED
  BY <1>1, JournalInv, PTL

\* Damage to one line is reported, and with its number (journal.py:136-146).
THEOREM DamageIsReported == JSpec => []DamageIsFound
<1>1. LogInv => DamageIsFound
  BY FirstBadIs DEF LogInv, LogTyped, Spot, DamageIsFound
<1> QED
  BY <1>1, JournalInv, PTL

\* A file that verifies holds one history, whoever wrote to it (journal.py:86).
THEOREM HistoriesAreKeptApart == JSpec => []VerifiedIsOneHistory
<1>1. LogInv => VerifiedIsOneHistory
  BY DEF LogInv, NoneAhead, OneHistory, VerifiedIsOneHistory
<1> QED
  BY <1>1, JournalInv, PTL
=============================================================================
