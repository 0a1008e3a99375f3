--------------------------- MODULE Execution_proofs ---------------------------
(***************************************************************************)
(* Theorems about module Execution, for every market, every fill model and *)
(* every number of orders.                                                 *)
(***************************************************************************)
EXTENDS Execution, Sums, SequenceTheorems, TLAPS

\* The terms of an order, which nothing changes after submit.
SameTerms(o, f) ==
  /\ f.token = o.token /\ f.side = o.side /\ f.price = o.price /\ f.size = o.size
  /\ f.type = o.type /\ f.postOnly = o.postOnly
  /\ f.expires = o.expires /\ f.created = o.created

(***************************************************************************)
(* Operators on one order.                                                 *)
(***************************************************************************)

LEMMA LeastFacts ==
  ASSUME NEW a \in Int, NEW b \in Int
  PROVE  /\ Least(a, b) \in {a, b}
         /\ Least(a, b) <= a
         /\ Least(a, b) <= b
BY DEF Least

\* A fill of at most what remains leaves an order that is open exactly when
\* something remains.
LEMMA FilledFacts ==
  ASSUME NEW o \in Order, IsOpen(o), NEW n \in 0 .. o.remaining
  PROVE  /\ Filled(o, n) \in Order
         /\ SameTerms(o, Filled(o, n))
         /\ Filled(o, n).remaining = o.remaining - n
         /\ Filled(o, n).status = IF n = o.remaining THEN "filled" ELSE "open"
         /\ Filled(o, n).ahead = o.ahead
         /\ Filled(o, n).crossed = o.crossed
<1>1. o.remaining \in Nat /\ o.status = "open"
  BY DEF Order, IsOpen
<1>2. CASE n < o.remaining
  <2>1. Filled(o, n) = [o EXCEPT !.remaining = o.remaining - n]
    BY <1>2 DEF Filled
  <2>2. o.remaining - n \in Nat /\ n # o.remaining
    BY <1>1, <1>2
  <2> QED
    BY <2>1, <2>2, <1>1 DEF Order, SameTerms
<1>3. CASE n = o.remaining
  <2>1. Filled(o, n) = [o EXCEPT !.remaining = 0, !.status = "filled"]
    BY <1>1, <1>3 DEF Filled
  <2>2. o.remaining - n = 0
    BY <1>1, <1>3
  <2>3. "filled" \in Status
    BY DEF Status
  <2> DEFINE f == [o EXCEPT !.remaining = 0, !.status = "filled"]
  <2>4. /\ f \in Order
        /\ SameTerms(o, f)
        /\ f.remaining = 0 /\ f.status = "filled"
        /\ f.ahead = o.ahead /\ f.crossed = o.crossed
    BY <2>3 DEF Order, SameTerms
  <2> QED
    BY <2>1, <2>2, <2>4, <1>3
<1> QED
  BY <1>1, <1>2, <1>3

LEMMA CloseFacts ==
  ASSUME NEW o \in Order, NEW s \in Status
  PROVE  /\ Close(o, s) \in Order
         /\ SameTerms(o, Close(o, s))
         /\ Close(o, s).remaining = 0
         /\ Close(o, s).status = s
         /\ Close(o, s).ahead = o.ahead
         /\ Close(o, s).crossed = o.crossed
BY DEF Close, Order, SameTerms

-----------------------------------------------------------------------------
(***************************************************************************)
(* Books.                                                                  *)
(***************************************************************************)

LEMMA SidesOfBook ==
  ASSUME NEW o \in Order, NEW b \in Book
  PROVE  Same(o, b) \in Side /\ Opposite(o, b) \in Side
BY DEF Same, Opposite, Book, Order

\* A book that sits through an order's price has a best opposite level.
LEMMA BestSizeIsSize ==
  ASSUME NEW o \in Order, NEW b \in Book, Crosses(o, b)
  PROVE  BestSize(o, b) \in Nat \ {0}
<1> DEFINE opp == Opposite(o, b)
           Best(p) == opp[p] > 0 /\ \A q \in Prices : Better(o, q, p) => opp[q] = 0
<1>1. opp \in [Prices -> Nat]
  BY SidesOfBook DEF Side
<1>2. Prices \subseteq Nat /\ \A p \in Prices : One - p \in Nat
  BY ExecutionAssumption DEF Prices
<1> DEFINE T == {p \in Prices : opp[p] > 0}
<1>3. T # {}
  BY DEF Crosses
<1>4. \E p \in Prices : Best(p)
  <2>1. CASE o.side = "BUY"
    <3>1. PICK m \in T : \A k \in T : m <= k
      BY <1>2, <1>3, LeastNumber
    <3>2. \A q \in Prices : q < m => opp[q] = 0
      BY <3>1, <1>1, <1>2
    <3> QED
      BY <3>1, <3>2, <2>1 DEF Better
  <2>2. CASE o.side # "BUY"
    <3> DEFINE U == {One - p : p \in T}
    <3>1. U \in SUBSET Nat /\ U # {}
      BY <1>2, <1>3
    <3>2. PICK u \in U : \A k \in U : u <= k
      BY <3>1, LeastNumber
    <3>3. PICK m \in T : u = One - m
      BY <3>2
    <3>4. \A k \in T : One - m <= One - k
      BY <3>2, <3>3
    <3>5. \A k \in T : k <= m
      BY <3>4, <1>2, ExecutionAssumption DEF Prices
    <3>6. \A q \in Prices : q > m => opp[q] = 0
      BY <3>5, <1>1, <1>2
    <3> QED
      BY <3>3, <3>6, <2>2 DEF Better
  <2> QED
    BY <2>1, <2>2
<1> DEFINE best == CHOOSE p \in Prices : Best(p)
<1>5. best \in Prices /\ Best(best)
  BY <1>4
<1>6. BestSize(o, b) = opp[best]
  BY DEF BestSize
<1> HIDE DEF best
<1> QED
  BY <1>1, <1>5, <1>6

(***************************************************************************)
(* What matching with book b does to one resting order: it fills at most   *)
(* what remains and at most the best opposite level, only when the book    *)
(* starts to cross, and only once the queue ahead is gone.                 *)
(***************************************************************************)
LEMMA BookFillFacts ==
  ASSUME NEW o \in Order, IsOpen(o), o.price \in Prices, NEW b \in Book
  PROVE  /\ BookFill(o, b) \in 0 .. o.remaining
         /\ ~StartsCrossing(o, b) => BookFill(o, b) = 0
         /\ StartsCrossing(o, b) => BookFill(o, b) <= BestSize(o, b)
         /\ Shrunk(o, b) - QueueServed(o, b) \in 0 .. o.ahead
         /\ QueueModel /\ BookFill(o, b) > 0 => Shrunk(o, b) - QueueServed(o, b) = 0
<1> DEFINE level == Same(o, b)[o.price]
<1>1. o.remaining \in Nat /\ o.ahead \in Nat
  BY DEF Order
<1>2. level \in Nat
  BY SidesOfBook DEF Side
<1>3. Shrunk(o, b) \in 0 .. o.ahead
  <2> HIDE DEF level
  <2>1. Least(o.ahead, level) \in 0 .. o.ahead
    BY <1>1, <1>2 DEF Least
  <2> QED
    BY <1>1, <2>1 DEF Shrunk, level
<1>4. CASE ~StartsCrossing(o, b)
  BY <1>1, <1>3, <1>4 DEF BookFill, QueueServed
<1>5. CASE StartsCrossing(o, b)
  <2>1. BestSize(o, b) \in Nat
    BY <1>5, BestSizeIsSize DEF StartsCrossing
  <2>2. QueueServed(o, b) \in 0 .. Shrunk(o, b)
    BY <1>3, <2>1 DEF QueueServed, Least
  <2>3. QueueServed(o, b) \in 0 .. BestSize(o, b)
    BY <1>3, <2>1 DEF QueueServed, Least
  <2>4. BookFill(o, b) = Least(o.remaining, BestSize(o, b) - QueueServed(o, b))
    BY <1>5 DEF BookFill
  <2>5. /\ BookFill(o, b) \in 0 .. o.remaining
        /\ BookFill(o, b) <= BestSize(o, b) - QueueServed(o, b)
    BY <1>1, <2>1, <2>3, <2>4 DEF Least
  <2>6. ASSUME QueueModel, BookFill(o, b) > 0
        PROVE  Shrunk(o, b) = QueueServed(o, b)
    <3>1. QueueServed(o, b) = Least(BestSize(o, b), Shrunk(o, b))
      BY <1>5, <2>6 DEF QueueServed
    <3> QED
      BY <3>1, <2>1, <2>3, <2>5, <2>6, <1>3 DEF Least
  <2> QED
    BY <1>1, <1>3, <1>5, <2>1, <2>2, <2>3, <2>5, <2>6
<1> QED
  BY <1>4, <1>5

LEMMA MatchedFacts ==
  ASSUME NEW o \in Order, IsOpen(o), o.price \in Prices, NEW b \in Book
  PROVE  /\ Matched(o, b) \in Order
         /\ SameTerms(o, Matched(o, b))
         /\ Matched(o, b).remaining = o.remaining - BookFill(o, b)
         /\ Matched(o, b).status = IF BookFill(o, b) = o.remaining THEN "filled" ELSE "open"
         /\ Matched(o, b).ahead = Shrunk(o, b) - QueueServed(o, b)
         /\ Matched(o, b).crossed = Crosses(o, b)
<1> DEFINE a == Shrunk(o, b) - QueueServed(o, b)
           c == Crosses(o, b)
           q == [o EXCEPT !.ahead = a, !.crossed = c]
<1>1. a \in Nat
  BY BookFillFacts DEF Order
<1>2. c \in BOOLEAN
  BY DEF Crosses
<1>3. Matched(o, b) = Filled(q, BookFill(o, b))
  BY DEF Matched
<1> HIDE DEF a, c
<1>4. /\ q \in Order
      /\ SameTerms(o, q)
      /\ q.remaining = o.remaining
      /\ q.status = o.status
      /\ q.ahead = a
      /\ q.crossed = c
  BY <1>1, <1>2 DEF Order, SameTerms
<1> HIDE DEF q
<1>5. IsOpen(q) /\ BookFill(o, b) \in 0 .. q.remaining
  BY <1>4, BookFillFacts DEF IsOpen
<1> QED
  BY <1>3, <1>4, <1>5, FilledFacts DEF SameTerms, a, c
-----------------------------------------------------------------------------
(***************************************************************************)
(* What n shares of a print do to one resting order that can claim them.   *)
(***************************************************************************)
LEMMA PrintFacts ==
  ASSUME NEW o \in Order, IsOpen(o), o.price \in Prices,
         NEW pr \in TradePrint, NEW n \in Nat, n > 0, n <= Claim(o, pr)
  PROVE  /\ n - ToQueue(o, pr, n) \in 0 .. o.remaining
         /\ n - ToQueue(o, pr, n) <= n
         /\ Dequeued(o, pr, n) \in Order
         /\ SameTerms(o, Dequeued(o, pr, n))
         /\ Dequeued(o, pr, n).remaining = o.remaining
         /\ Dequeued(o, pr, n).status = o.status
         /\ Dequeued(o, pr, n).crossed = o.crossed
         /\ Dequeued(o, pr, n).ahead \in 0 .. o.ahead
         /\ n - ToQueue(o, pr, n) > 0 => Dequeued(o, pr, n).ahead = 0
<1>1. o.remaining \in Nat /\ o.ahead \in Nat
  BY DEF Order
<1> DEFINE a == IF Through(o, pr.price) THEN 0 ELSE o.ahead - ToQueue(o, pr, n)
<1>2. /\ n - ToQueue(o, pr, n) \in 0 .. o.remaining
      /\ n - ToQueue(o, pr, n) <= n
      /\ a \in 0 .. o.ahead
      /\ n - ToQueue(o, pr, n) > 0 => a = 0
  <2>1. CASE Through(o, pr.price)
    BY <1>1, <2>1 DEF ToQueue, Claim
  <2>2. CASE ~Through(o, pr.price)
    <3>1. pr.price = o.price /\ QueueModel /\ n <= o.ahead + o.remaining
      BY <2>2 DEF Claim
    <3> QED
      BY <1>1, <2>2, <3>1 DEF ToQueue, Least
  <2> QED
    BY <2>1, <2>2
<1>3. Dequeued(o, pr, n) = [o EXCEPT !.ahead = a]
  BY DEF Dequeued
<1>4. a \in Nat
  BY <1>1, <1>2
<1> HIDE DEF a
<1>5. /\ Dequeued(o, pr, n) \in Order
      /\ SameTerms(o, Dequeued(o, pr, n))
      /\ Dequeued(o, pr, n).remaining = o.remaining
      /\ Dequeued(o, pr, n).status = o.status
      /\ Dequeued(o, pr, n).crossed = o.crossed
      /\ Dequeued(o, pr, n).ahead = a
  BY <1>3, <1>4 DEF Order, SameTerms
<1> QED
  BY <1>2, <1>5

-----------------------------------------------------------------------------
(***************************************************************************)
(* The inductive invariant, order by order: o is an order with history y   *)
(* on a token whose book is b.                                             *)
(***************************************************************************)
Good(o, y, b) ==
  /\ IsOpen(o) => o.price \in Prices /\ o.remaining > 0
  /\ Accounted(o, y)
  /\ y.made <= y.seen
  /\ y.made > 0 => o.ahead = 0
  /\ ~QueueModel => o.ahead = 0
  /\ IsOpen(o) /\ Crosses(o, b) => o.crossed

Inv ==
  /\ Types
  /\ \A i \in DOMAIN orders : Good(orders[i], tally[i], books[orders[i].token])

LEMMA CrossesTerms ==
  ASSUME NEW o, NEW f, SameTerms(o, f), NEW b
  PROVE  Crosses(o, b) <=> Crosses(f, b)
BY DEF Crosses, SameTerms, Through, Opposite

\* Matching with a new book keeps an open order good.
LEMMA BookStep ==
  ASSUME NEW o \in Order, IsOpen(o), NEW y \in Tally,
         NEW b0 \in Book \cup {NoBook}, NEW b \in Book, Good(o, y, b0)
  PROVE  LET z == [taken |-> y.taken,
                   made  |-> y.made + BookFill(o, b),
                   seen  |-> IF Crosses(o, b) /\ ~Crosses(o, b0)
                             THEN Least(y.seen + BestSize(o, b), o.size) ELSE y.seen]
         IN  z \in Tally /\ Good(Matched(o, b), z, b)
<1> DEFINE fill == BookFill(o, b)
           m == Matched(o, b)
           best == BestSize(o, b)
           seen == IF Crosses(o, b) /\ ~Crosses(o, b0)
                   THEN Least(y.seen + best, o.size) ELSE y.seen
           z == [taken |-> y.taken, made |-> y.made + fill, seen |-> seen]
<1>1. /\ o.price \in Prices /\ o.remaining \in Nat /\ o.remaining > 0
      /\ o.size \in Nat /\ o.ahead \in Nat /\ o.status = "open"
      /\ y.taken \in Nat /\ y.made \in Nat /\ y.seen \in Nat
      /\ y.taken + y.made + o.remaining = o.size
      /\ y.made <= y.seen
  BY DEF Good, Order, Tally, IsOpen, Accounted
<1>2. fill \in 0 .. o.remaining
  BY <1>1, BookFillFacts
<1>3. /\ m.remaining = o.remaining - fill
      /\ m.status = IF fill = o.remaining THEN "filled" ELSE "open"
      /\ m.size = o.size /\ m.price = o.price
      /\ m.crossed = Crosses(o, b)
      /\ m.ahead \in 0 .. o.ahead
      /\ QueueModel /\ fill > 0 => m.ahead = 0
      /\ SameTerms(o, m)
  BY <1>1, MatchedFacts, BookFillFacts DEF SameTerms
<1>4. seen \in Nat /\ y.made + fill <= seen
  <2>1. CASE Crosses(o, b) /\ ~Crosses(o, b0)
    <3>1. best \in Nat
      BY <2>1, BestSizeIsSize
    <3>2. fill <= best
      BY <1>1, <3>1, BookFillFacts
    <3>3. seen = Least(y.seen + best, o.size)
      BY <2>1
    <3> HIDE DEF fill, best, seen
    <3> QED
      BY <1>1, <1>2, <3>1, <3>2, <3>3 DEF Least
  <2>2. CASE ~(Crosses(o, b) /\ ~Crosses(o, b0))
    <3>1. ~StartsCrossing(o, b)
      BY <2>2 DEF StartsCrossing, Good
    <3>2. fill = 0
      BY <1>1, <3>1, BookFillFacts
    <3> QED
      BY <1>1, <2>2, <3>2
  <2> QED
    BY <2>1, <2>2
<1> HIDE DEF fill, m, best, seen
<1>5. z \in Tally
  BY <1>1, <1>2, <1>4 DEF Tally
<1>6. z.taken = y.taken /\ z.made = y.made + fill /\ z.seen = seen
  OBVIOUS
<1> HIDE DEF z
<1>7. IsOpen(m) => m.price \in Prices /\ m.remaining > 0
  BY <1>1, <1>2, <1>3 DEF IsOpen
<1>8. Accounted(m, z)
  BY <1>1, <1>2, <1>3, <1>6 DEF Accounted
<1>9. z.made <= z.seen
  BY <1>4, <1>6
<1>10. /\ z.made > 0 => m.ahead = 0
       /\ ~QueueModel => m.ahead = 0
  BY <1>1, <1>2, <1>3, <1>6 DEF Good
<1>11. IsOpen(m) /\ Crosses(m, b) => m.crossed
  BY <1>3, CrossesTerms
<1>12. Good(m, z, b)
  BY <1>7, <1>8, <1>9, <1>10, <1>11 DEF Good
<1> QED
  BY <1>5, <1>12 DEF z, seen, m, fill, best

\* So does a print that hands n shares to its queue and to it.
LEMMA PrintStep ==
  ASSUME NEW o \in Order, IsOpen(o), NEW y \in Tally, NEW b,
         Good(o, y, b), NEW pr \in TradePrint,
         NEW n \in Nat, n <= Claim(o, pr), n <= pr.size
  PROVE  LET fill == n - ToQueue(o, pr, n)
             f == IF n > 0 THEN Filled(Dequeued(o, pr, n), fill) ELSE o
             z == [taken |-> y.taken,
                   made  |-> y.made + fill,
                   seen  |-> Least(y.seen + pr.size, o.size)]
         IN  f \in Order /\ f.token = o.token /\ z \in Tally /\ Good(f, z, b)
<1> DEFINE fill == n - ToQueue(o, pr, n)
           d == Dequeued(o, pr, n)
           f == IF n > 0 THEN Filled(d, fill) ELSE o
           seen == Least(y.seen + pr.size, o.size)
           z == [taken |-> y.taken, made |-> y.made + fill, seen |-> seen]
<1>1. /\ o.price \in Prices /\ o.remaining \in Nat /\ o.remaining > 0
      /\ o.size \in Nat /\ o.ahead \in Nat /\ o.status = "open"
      /\ y.taken \in Nat /\ y.made \in Nat /\ y.seen \in Nat
      /\ y.taken + y.made + o.remaining = o.size
      /\ y.made <= y.seen /\ pr.size \in Nat
  BY DEF Good, Order, Tally, IsOpen, Accounted, TradePrint
<1>2. /\ fill \in 0 .. o.remaining
      /\ fill <= pr.size
      /\ f \in Order /\ SameTerms(o, f)
      /\ f.remaining = o.remaining - fill
      /\ f.status = IF fill = o.remaining THEN "filled" ELSE "open"
      /\ f.crossed = o.crossed
      /\ f.ahead \in 0 .. o.ahead
      /\ fill > 0 => f.ahead = 0
  <2>1. CASE n > 0
    <3>1. /\ fill \in 0 .. o.remaining /\ fill <= n
          /\ d \in Order /\ SameTerms(o, d)
          /\ d.remaining = o.remaining /\ d.status = o.status
          /\ d.crossed = o.crossed /\ d.ahead \in 0 .. o.ahead
          /\ fill > 0 => d.ahead = 0
      BY <1>1, <2>1, PrintFacts
    <3>2. f = Filled(d, fill)
      BY <2>1
    <3>3. IsOpen(d) /\ fill \in 0 .. d.remaining
      BY <3>1 DEF IsOpen
    <3> HIDE DEF d, f, fill
    <3>4. /\ f \in Order
          /\ SameTerms(d, f)
          /\ f.remaining = d.remaining - fill
          /\ f.status = IF fill = d.remaining THEN "filled" ELSE "open"
          /\ f.ahead = d.ahead
          /\ f.crossed = d.crossed
      BY <3>1, <3>2, <3>3, FilledFacts
    <3>5. SameTerms(o, f)
      BY <3>1, <3>4 DEF SameTerms
    <3>6. fill <= pr.size
      BY <1>1, <3>1
    <3> QED
      BY <3>1, <3>4, <3>5, <3>6
  <2>2. CASE n = 0
    <3>1. ToQueue(o, pr, n) = 0 /\ f = o
      BY <1>1, <2>2 DEF ToQueue, Least
    <3> QED
      BY <1>1, <2>2, <3>1 DEF SameTerms
  <2> QED
    BY <2>1, <2>2
<1>3. seen \in Nat /\ y.made + fill <= seen
  <2> HIDE DEF fill
  <2> QED
    BY <1>1, <1>2 DEF Least
<1> HIDE DEF fill, d, f, seen
<1>4. z \in Tally /\ z.taken = y.taken /\ z.made = y.made + fill /\ z.seen = seen
  BY <1>1, <1>2, <1>3 DEF Tally
<1> HIDE DEF z
<1>5. IsOpen(f) => f.price \in Prices /\ f.remaining > 0
  BY <1>1, <1>2 DEF IsOpen, SameTerms
<1>6. Accounted(f, z)
  BY <1>1, <1>2, <1>4 DEF Accounted, SameTerms
<1>7. /\ z.made <= z.seen
      /\ z.made > 0 => f.ahead = 0
      /\ ~QueueModel => f.ahead = 0
  BY <1>1, <1>2, <1>3, <1>4 DEF Good
<1>8. IsOpen(f) /\ Crosses(f, b) => f.crossed
  BY <1>1, <1>2, CrossesTerms DEF Good, IsOpen
<1>9. Good(f, z, b)
  BY <1>5, <1>6, <1>7, <1>8 DEF Good
<1> QED
  BY <1>2, <1>4, <1>9 DEF SameTerms, z, f, d, fill, seen
-----------------------------------------------------------------------------
(***************************************************************************)
(* The invariant is inductive: one lemma per action.                       *)
(***************************************************************************)

LEMMA FunctionIsSeq ==
  ASSUME NEW S, NEW n \in Nat, NEW f \in [1 .. n -> S]
  PROVE  f \in Seq(S) /\ Len(f) = n /\ DOMAIN f = 1 .. n
OBVIOUS

\* An order's state only depends on the book of its token.
LEMMA ClosedIsGood ==
  ASSUME NEW o, NEW y, NEW b, NEW c, Good(o, y, b), ~IsOpen(o)
  PROVE  Good(o, y, c)
BY DEF Good

LEMMA Domains ==
  ASSUME Types
  PROVE  /\ Len(orders) \in Nat
         /\ DOMAIN orders = 1 .. Len(orders) /\ DOMAIN tally = 1 .. Len(orders)
         /\ \A i \in DOMAIN orders : /\ orders[i] \in Order
                                     /\ tally[i] \in Tally
                                     /\ orders[i].token \in Tokens
                                     /\ books[orders[i].token] \in Book \cup {NoBook}
<1>1. /\ orders \in Seq(Order) /\ tally \in Seq(Tally)
      /\ DOMAIN tally = DOMAIN orders
      /\ books \in [Tokens -> Book \cup {NoBook}]
  BY DEF Types
<1>2. /\ Len(orders) \in Nat /\ DOMAIN orders = 1 .. Len(orders)
      /\ orders \in [1 .. Len(orders) -> Order]
      /\ tally \in [DOMAIN tally -> Tally]
  BY <1>1, LenProperties
<1>3. \A i \in DOMAIN orders : orders[i] \in Order /\ tally[i] \in Tally
  BY <1>1, <1>2
<1>4. \A i \in DOMAIN orders : orders[i].token \in Tokens
  BY <1>3 DEF Order
<1> QED
  BY <1>1, <1>2, <1>3, <1>4

LEMMA InitGood == Init => Inv
<1> SUFFICES ASSUME Init PROVE Inv
  OBVIOUS
<1>1. << >> \in Seq(Order) /\ << >> \in Seq(Tally)
  BY EmptySeq
<1>2. DOMAIN << >> = {}
  OBVIOUS
<1> QED
  BY <1>1, <1>2, ExecutionAssumption DEF Init, Inv, Types

LEMMA OnBookKeepsInv ==
  ASSUME Inv, NEW t \in Tokens, NEW b \in Book, OnBook(t, b)
  PROVE  Inv'
<1> USE DEF Inv
<1>1. Types
  OBVIOUS
<1> DEFINE n == Len(orders)
<1>2. /\ n \in Nat /\ DOMAIN orders = 1 .. n /\ DOMAIN tally = 1 .. n
      /\ books \in [Tokens -> Book \cup {NoBook}]
  BY <1>1, Domains DEF Types
<1>3. books' = [books EXCEPT ![t] = b] /\ now' = now /\ params' = Adopt(b)
  BY DEF OnBook
<1>4. books' \in [Tokens -> Book \cup {NoBook}] /\ books'[t] = b
  BY <1>2, <1>3
<1>5. params' \in Params
  <2>1. params.tick \in Nat \ {0} /\ params.min \in Nat /\ b.tick \in Nat /\ b.min \in Nat
    BY <1>1 DEF Types, Params, Book
  <2> QED
    BY <1>3, <2>1 DEF Adopt, Params
<1>6. ASSUME NEW i \in 1 .. n
      PROVE  /\ orders'[i] \in Order /\ tally'[i] \in Tally
             /\ Good(orders'[i], tally'[i], books'[orders'[i].token])
  <2>1. /\ orders[i] \in Order /\ tally[i] \in Tally
        /\ orders[i].token \in Tokens
        /\ books[orders[i].token] \in Book \cup {NoBook}
        /\ Good(orders[i], tally[i], books[orders[i].token])
    BY <1>1, <1>2, Domains
  <2>2. CASE i \in OpenOn(t)
    <3>1. IsOpen(orders[i]) /\ orders[i].token = t /\ orders[i].price \in Prices
      BY <2>1, <2>2 DEF OpenOn, Good
    <3>2. /\ orders'[i] = Matched(orders[i], b)
          /\ tally'[i] = [taken |-> tally[i].taken,
                          made  |-> tally[i].made + BookFill(orders[i], b),
                          seen  |-> IF Crosses(orders[i], b) /\ ~Crosses(orders[i], books[t])
                                    THEN Least(tally[i].seen + BestSize(orders[i], b), orders[i].size)
                                    ELSE tally[i].seen]
      BY <1>2, <2>2 DEF OnBook, See
    <3>3. orders'[i] \in Order /\ orders'[i].token = t
      BY <2>1, <3>1, <3>2, MatchedFacts DEF SameTerms
    <3>4. tally'[i] \in Tally /\ Good(orders'[i], tally'[i], b)
      BY <2>1, <3>1, <3>2, BookStep
    <3> QED
      BY <3>3, <3>4, <1>4
  <2>3. CASE i \notin OpenOn(t)
    <3>1. orders'[i] = orders[i] /\ tally'[i] = tally[i]
      BY <1>2, <2>3 DEF OnBook
    <3>2. CASE orders[i].token # t
      BY <1>2, <1>3, <2>1, <3>1, <3>2
    <3>3. CASE ~IsOpen(orders[i])
      BY <2>1, <3>1, <3>3, ClosedIsGood
    <3> QED
      BY <1>2, <2>3, <3>2, <3>3 DEF OpenOn
  <2> QED
    BY <2>2, <2>3
<1>7. orders' \in [1 .. n -> Order] /\ tally' \in [1 .. n -> Tally]
  BY <1>2, <1>6 DEF OnBook
<1>8. /\ orders' \in Seq(Order) /\ tally' \in Seq(Tally)
      /\ DOMAIN orders' = 1 .. n /\ DOMAIN tally' = 1 .. n
  BY <1>2, <1>7, FunctionIsSeq
<1> QED
  BY <1>1, <1>3, <1>4, <1>5, <1>6, <1>8 DEF Types

LEMMA OnPriceChangeKeepsInv ==
  ASSUME Inv, NEW c \in Changes, OnPriceChange(c)
  PROVE  Inv'
<1> DEFINE b == books[c.token]
<1>1. c \in Change /\ b \in Book
  BY ExecutionAssumption DEF OnPriceChange, Inv, Types, Change
<1>2. WithLevel(b, c) \in Book
  BY <1>1 DEF WithLevel, Book, Change, Side
<1> QED
  BY <1>1, <1>2, OnBookKeepsInv DEF OnPriceChange, Change

LEMMA OnTradePrintKeepsInv ==
  ASSUME Inv, NEW pr \in Prints, OnTradePrint(pr)
  PROVE  Inv'
<1> USE DEF Inv
<1>1. Types /\ pr \in TradePrint
  BY ExecutionAssumption
<1> DEFINE n == Len(orders)
           claims == [i \in DOMAIN orders |->
                        IF i \in OpenOn(pr.token) THEN Claim(orders[i], pr) ELSE 0]
<1>2. /\ n \in Nat /\ DOMAIN orders = 1 .. n /\ DOMAIN tally = 1 .. n
      /\ books \in [Tokens -> Book \cup {NoBook}]
  BY <1>1, Domains DEF Types
<1>3. PICK got \in Shares(pr.size, claims, Earlier(pr.token)) :
        /\ orders' = [i \in DOMAIN orders |->
                        IF got[i] > 0
                        THEN Filled(Dequeued(orders[i], pr, got[i]),
                                    got[i] - ToQueue(orders[i], pr, got[i]))
                        ELSE orders[i]]
        /\ tally'  = [i \in DOMAIN orders |->
                        IF claims[i] > 0
                        THEN [taken |-> tally[i].taken,
                              made  |-> tally[i].made + (got[i] - ToQueue(orders[i], pr, got[i])),
                              seen  |-> See(i, pr.size)]
                        ELSE tally[i]]
  BY DEF OnTradePrint
<1>4. books' = books /\ params' = params /\ now' = now
  BY DEF OnTradePrint
<1>5. \A i \in 1 .. n : got[i] \in 0 .. pr.size /\ got[i] <= claims[i]
  BY <1>2 DEF Shares
<1>6. ASSUME NEW i \in 1 .. n
      PROVE  /\ orders'[i] \in Order /\ tally'[i] \in Tally
             /\ Good(orders'[i], tally'[i], books'[orders'[i].token])
  <2>1. /\ orders[i] \in Order /\ tally[i] \in Tally
        /\ Good(orders[i], tally[i], books[orders[i].token])
        /\ pr.size \in Nat
    BY <1>1, <1>2, Domains DEF TradePrint
  <2>2. got[i] \in Nat /\ got[i] <= claims[i] /\ got[i] <= pr.size
    <3> HIDE DEF claims
    <3>1. got[i] \in 0 .. pr.size /\ got[i] <= claims[i]
      BY <1>5
    <3> QED
      BY <2>1, <3>1
  <2>3. CASE claims[i] > 0
    <3>1. i \in OpenOn(pr.token) /\ claims[i] = Claim(orders[i], pr)
      BY <1>2, <2>3
    <3>2. IsOpen(orders[i])
      BY <3>1 DEF OpenOn
    <3>3. /\ orders'[i] = IF got[i] > 0
                          THEN Filled(Dequeued(orders[i], pr, got[i]),
                                      got[i] - ToQueue(orders[i], pr, got[i]))
                          ELSE orders[i]
          /\ tally'[i] = [taken |-> tally[i].taken,
                          made  |-> tally[i].made + (got[i] - ToQueue(orders[i], pr, got[i])),
                          seen  |-> Least(tally[i].seen + pr.size, orders[i].size)]
      BY <1>2, <1>3, <2>3 DEF See
    <3> HIDE DEF claims
    <3>4. /\ orders'[i] \in Order /\ orders'[i].token = orders[i].token
          /\ tally'[i] \in Tally
          /\ Good(orders'[i], tally'[i], books[orders[i].token])
      BY <1>1, <2>1, <2>2, <3>1, <3>2, <3>3, PrintStep
    <3> QED
      BY <1>4, <3>4
  <2>4. CASE ~(claims[i] > 0)
    <3>1. ~(got[i] > 0)
      <4>1. claims[i] \in Nat
        <5>1. orders[i].remaining \in Nat /\ orders[i].ahead \in Nat
          BY <2>1 DEF Order
        <5>2. Claim(orders[i], pr) \in Nat
          BY <5>1 DEF Claim
        <5> QED
          BY <1>2, <5>2
      <4> HIDE DEF claims
      <4> QED
        BY <2>2, <2>4, <4>1
    <3> QED
      BY <1>2, <1>3, <1>4, <2>1, <2>4, <3>1
  <2> QED
    BY <2>3, <2>4
<1>7. orders' \in [1 .. n -> Order] /\ tally' \in [1 .. n -> Tally]
  <2> HIDE DEF claims
  <2> QED
    BY <1>2, <1>3, <1>6
<1>8. /\ orders' \in Seq(Order) /\ tally' \in Seq(Tally)
      /\ DOMAIN orders' = 1 .. n /\ DOMAIN tally' = 1 .. n
  BY <1>2, <1>7, FunctionIsSeq
<1> QED
  BY <1>1, <1>4, <1>6, <1>8 DEF Types

\* What submit records is a well-formed open order that nothing happened to.
LEMMA NewOrderFacts ==
  ASSUME Inv, NEW r \in Requests
  PROVE  LET o == NewOrder(r)
         IN  /\ o \in Order /\ IsOpen(o) /\ o.token = r.token /\ o.token \in Tokens
             /\ o.remaining = r.size /\ o.size = r.size /\ o.ahead = 0 /\ ~o.crossed
             /\ r.size \in Nat \ {0}
<1>1. r \in Request
  BY ExecutionAssumption
<1>2. now \in Nat
  BY ExecutionAssumption DEF Inv, Types
<1>3. "open" \in Status
  BY DEF Status
<1> QED
  BY <1>1, <1>2, <1>3 DEF NewOrder, Order, Request, IsOpen

\* An order and its tally are appended; the books of other orders may only
\* lose levels.
LEMMA AppendKeepsInv ==
  ASSUME Inv, NEW f \in Order, NEW y \in Tally,
         orders' = Append(orders, f), tally' = Append(tally, y),
         books' \in [Tokens -> Book \cup {NoBook}],
         params' = params, now' = now,
         Good(f, y, books'[f.token]),
         \A i \in DOMAIN orders : Crosses(orders[i], books'[orders[i].token])
                                    => Crosses(orders[i], books[orders[i].token])
  PROVE  Inv'
<1> DEFINE n == Len(orders)
<1>1. Types /\ orders \in Seq(Order) /\ tally \in Seq(Tally)
  BY DEF Inv, Types
<1>2. /\ n \in Nat /\ DOMAIN orders = 1 .. n /\ DOMAIN tally = 1 .. n
  BY <1>1, Domains
<1>3. Len(tally) = n
  BY <1>1, <1>2, LenProperties
<1>4. /\ orders' \in Seq(Order) /\ tally' \in Seq(Tally)
      /\ DOMAIN orders' = 1 .. n + 1 /\ DOMAIN tally' = 1 .. n + 1
      /\ orders'[n + 1] = f /\ tally'[n + 1] = y
      /\ \A i \in 1 .. n : orders'[i] = orders[i] /\ tally'[i] = tally[i]
  BY <1>1, <1>2, <1>3
<1>5. Types'
  BY <1>1, <1>4 DEF Types
<1>6. ASSUME NEW i \in 1 .. n + 1
      PROVE  Good(orders'[i], tally'[i], books'[orders'[i].token])
  <2>1. CASE i = n + 1
    BY <1>4, <2>1
  <2>2. CASE i # n + 1
    <3>1. i \in 1 .. n
      BY <1>2, <2>2
    <3>2. Good(orders[i], tally[i], books[orders[i].token])
      BY <1>2, <3>1 DEF Inv
    <3>3. Good(orders[i], tally[i], books'[orders[i].token])
      BY <1>2, <3>1, <3>2 DEF Good
    <3> QED
      BY <1>4, <3>1, <3>3
  <2> QED
    BY <2>1, <2>2
<1> QED
  BY <1>4, <1>5, <1>6 DEF Inv

LEMMA RefuseKeepsInv ==
  ASSUME Inv, NEW r \in Requests, Refuse(r)
  PROVE  Inv'
<1> DEFINE o == NewOrder(r)
           f == Close(o, "rejected")
           y == [taken |-> 0, made |-> 0, seen |-> 0]
<1>1. o \in Order /\ o.ahead = 0
  BY NewOrderFacts
<1>2. /\ f \in Order /\ f.status = "rejected" /\ f.ahead = 0
  BY <1>1, CloseFacts DEF Status
<1>3. y \in Tally
  BY DEF Tally
<1>4. /\ orders' = Append(orders, f) /\ tally' = Append(tally, y)
      /\ books' = books /\ params' = params /\ now' = now
  BY DEF Refuse
<1> HIDE DEF f
<1>5. Good(f, y, books'[f.token])
  BY <1>2 DEF Good, Accounted, IsOpen
<1>6. books' \in [Tokens -> Book \cup {NoBook}]
  BY <1>4 DEF Inv, Types
<1> HIDE DEF y
<1> QED
  BY <1>2, <1>3, <1>4, <1>5, <1>6, AppendKeepsInv

\* A book that loses shares crosses no order that it did not cross before.
LEMMA ConsumedFacts ==
  ASSUME NEW o \in Order, NEW b \in Book,
         NEW take \in [Prices -> Nat],
         \A p \in Prices : take[p] <= Opposite(o, b)[p]
  PROVE  /\ Consumed(o, b, take) \in Book
         /\ \A p \in Prices :
              Opposite(o, Consumed(o, b, take))[p] = Opposite(o, b)[p] - take[p]
         /\ \A f \in Order : Crosses(f, Consumed(o, b, take)) => Crosses(f, b)
<1> DEFINE c == Consumed(o, b, take)
           opp == [p \in Prices |-> Opposite(o, b)[p] - take[p]]
<1>1. b.bids \in Side /\ b.asks \in Side /\ b.tick \in Nat /\ b.min \in Nat
  BY DEF Book
<1>2. opp \in Side
  BY SidesOfBook DEF Side
<1>3. CASE o.side = "BUY"
  <2>1. opp = [p \in Prices |-> b.asks[p] - take[p]]
    BY <1>3 DEF Opposite
  <2>2. c = [b EXCEPT !.asks = opp]
    BY <1>1, <1>3, <2>1 DEF Consumed
  <2> HIDE DEF opp
  <2>3. c \in Book /\ c.asks = opp /\ c.bids = b.bids
    BY <1>2, <2>2 DEF Book
  <2>4. \A p \in Prices : opp[p] <= b.asks[p]
    BY <1>1, <2>1 DEF Side
  <2>5. \A p \in Prices : opp[p] > 0 => b.asks[p] > 0
    BY <1>1, <1>2, <2>4 DEF Side
  <2>6. \A f \in Order : Crosses(f, c) => Crosses(f, b)
    BY <2>3, <2>5, ExecutionAssumption DEF Crosses, Opposite
  <2>7. \A p \in Prices : Opposite(o, c)[p] = Opposite(o, b)[p] - take[p]
    BY <1>3, <2>1, <2>3 DEF Opposite
  <2> QED
    BY <2>3, <2>6, <2>7
<1>4. CASE o.side # "BUY"
  <2>1. opp = [p \in Prices |-> b.bids[p] - take[p]]
    BY <1>4 DEF Opposite
  <2>2. c = [b EXCEPT !.bids = opp]
    BY <1>1, <1>4, <2>1 DEF Consumed
  <2> HIDE DEF opp
  <2>3. c \in Book /\ c.bids = opp /\ c.asks = b.asks
    BY <1>2, <2>2 DEF Book
  <2>4. \A p \in Prices : opp[p] <= b.bids[p]
    BY <1>1, <2>1 DEF Side
  <2>5. \A p \in Prices : opp[p] > 0 => b.bids[p] > 0
    BY <1>1, <1>2, <2>4 DEF Side
  <2>6. \A f \in Order : Crosses(f, c) => Crosses(f, b)
    BY <2>3, <2>5, ExecutionAssumption DEF Crosses, Opposite
  <2>7. \A p \in Prices : Opposite(o, c)[p] = Opposite(o, b)[p] - take[p]
    BY <1>4, <2>1, <2>3 DEF Opposite
  <2> QED
    BY <2>3, <2>6, <2>7
<1> QED
  BY <1>3, <1>4

\* An accepted order after its taker fills.
LEMMA SettledFacts ==
  ASSUME Types, NEW g \in Order, g.price \in Prices, g.token \in Tokens
  PROVE  /\ Settled(g) \in Order /\ SameTerms(g, Settled(g))
         /\ Settled(g).crossed = g.crossed
         /\ ~IsOpen(g) => Settled(g) = g
         /\ IsOpen(Settled(g)) => Settled(g).remaining = g.remaining
         /\ IsOpen(g) => Settled(g).status \in {"open", "cancelled"}
         /\ ~QueueModel /\ g.ahead = 0 => Settled(g).ahead = 0
<1>1. CASE ~IsOpen(g)
  BY <1>1 DEF Settled, SameTerms, IsOpen
<1>2. CASE IsOpen(g) /\ g.type \in {"FOK", "FAK"}
  <2>1. Settled(g) = Close(g, "cancelled") /\ "cancelled" \in Status
    BY <1>2 DEF Settled, Status
  <2>2. "cancelled" # "open"
    OBVIOUS
  <2> QED
    BY <1>2, <2>1, <2>2, CloseFacts DEF IsOpen
<1>3. CASE IsOpen(g) /\ g.type \notin {"FOK", "FAK"}
  <2> DEFINE a == QueueAhead(g)
  <2>1. books[g.token] \in Book \cup {NoBook}
    BY DEF Types
  <2>2. a \in Nat
    <3>1. CASE ~QueueModel \/ books[g.token] = NoBook
      BY <3>1, ExecutionAssumption DEF QueueAhead
    <3>2. CASE QueueModel /\ books[g.token] # NoBook
      <4>1. books[g.token] \in Book
        BY <2>1, <3>2
      <4>2. Same(g, books[g.token]) \in [Prices -> Nat]
        BY <4>1, SidesOfBook DEF Side
      <4> QED
        BY <3>2, <4>2 DEF QueueAhead
    <3> QED
      BY <3>1, <3>2
  <2>3. Settled(g) = [g EXCEPT !.ahead = a]
    BY <1>3 DEF Settled
  <2>4. ~QueueModel => a = 0
    BY DEF QueueAhead
  <2> HIDE DEF a
  <2>5. /\ Settled(g) \in Order /\ SameTerms(g, Settled(g))
        /\ Settled(g).crossed = g.crossed /\ Settled(g).ahead = a
        /\ Settled(g).remaining = g.remaining /\ Settled(g).status = g.status
    BY <2>2, <2>3 DEF Order, SameTerms
  <2> QED
    BY <1>3, <2>4, <2>5 DEF IsOpen
<1> QED
  BY <1>1, <1>2, <1>3

LEMMA AcceptKeepsInv ==
  ASSUME Inv, NEW r \in Requests, ~Refused(r), Accept(r)
  PROVE  Inv'
<1> DEFINE o == NewOrder(r)
           b == books[r.token]
           prices == TakeablePrices(o)
           offer == [p \in Prices |-> IF p \in prices THEN Opposite(o, b)[p] ELSE 0]
           before == [p \in Prices |-> {q \in prices : Better(o, q, p)}]
<1>1. Types
  BY DEF Inv
<1>2. /\ o \in Order /\ IsOpen(o) /\ o.token = r.token /\ r.token \in Tokens
      /\ o.remaining = r.size /\ o.size = r.size /\ o.ahead = 0 /\ ~o.crossed
      /\ r.size \in Nat \ {0}
  BY NewOrderFacts
<1>3. o.price \in Prices
  BY DEF Refused, Valid
<1>4. b \in Book \cup {NoBook}
  BY <1>1, <1>2 DEF Types
<1>5. PICK take \in Shares(r.size, offer, before), taken \in 0 .. r.size :
        /\ taken = SumFunction(take)
        /\ orders' = Append(orders, Settled(Filled(o, taken)))
        /\ tally'  = Append(tally, [taken |-> taken, made |-> 0, seen |-> 0])
        /\ books'  = IF b = NoBook THEN books
                     ELSE [books EXCEPT ![r.token] = Consumed(o, b, take)]
  BY DEF Accept
<1>6. params' = params /\ now' = now
  BY DEF Accept
<1> DEFINE g == Filled(o, taken)
           f == Settled(g)
           y == [taken |-> taken, made |-> 0, seen |-> 0]
<1>7. /\ g \in Order /\ SameTerms(o, g)
      /\ g.remaining = r.size - taken
      /\ g.status = IF taken = r.size THEN "filled" ELSE "open"
      /\ g.ahead = 0 /\ ~g.crossed
  <2> HIDE DEF o
  <2> QED
    BY <1>2, FilledFacts
<1>8. g.price \in Prices /\ g.token = r.token /\ g.size = r.size
  BY <1>2, <1>3, <1>7 DEF SameTerms
<1> HIDE DEF g
<1>9. /\ f \in Order /\ SameTerms(g, f) /\ ~f.crossed
      /\ ~IsOpen(g) => f = g
      /\ IsOpen(f) => f.remaining = g.remaining
      /\ IsOpen(g) => f.status \in {"open", "cancelled"}
      /\ ~QueueModel => f.ahead = 0
  BY <1>1, <1>2, <1>7, <1>8, SettledFacts
<1> HIDE DEF f
<1>10. f.token = r.token /\ f.size = r.size /\ f.price \in Prices /\ SameTerms(o, f)
  BY <1>7, <1>8, <1>9 DEF SameTerms
<1>11. IsOpen(g) <=> taken < r.size
  BY <1>2, <1>5, <1>7 DEF IsOpen
<1>12. y \in Tally /\ y.taken = taken /\ y.made = 0 /\ y.seen = 0
  BY <1>5 DEF Tally
<1>13. IsOpen(f) => f.remaining > 0 /\ taken < r.size /\ taken + f.remaining = r.size
  BY <1>2, <1>5, <1>7, <1>9, <1>11, SMTT(60)
<1>14. Accounted(f, y)
  <2>1. CASE IsOpen(g)
    <3>1. f.status \in {"open", "cancelled"} /\ taken < r.size
      BY <1>9, <1>11, <2>1
    <3> QED
      BY <3>1, <1>2, <1>5, <1>10, <1>13 DEF Accounted, IsOpen
  <2>2. CASE ~IsOpen(g)
    <3>1. taken = r.size
      BY <1>2, <1>5, <1>11, <2>2
    <3>2. f.status = "filled"
      BY <1>7, <1>9, <2>2, <3>1
    <3>3. y.taken + y.made = f.size
      BY <1>2, <1>10, <1>12, <3>1
    <3> QED
      BY <3>2, <3>3 DEF Accounted
  <2> QED
    BY <2>1, <2>2
<1>15. CASE b = NoBook
  <2>1. books' = books
    BY <1>5, <1>15
  <2>2. ~Crosses(f, books'[f.token])
    BY <1>10, <1>15, <2>1 DEF Crosses
  <2>3. Good(f, y, books'[f.token])
    BY <1>9, <1>10, <1>13, <1>14, <2>2 DEF Good
  <2>4. books' \in [Tokens -> Book \cup {NoBook}]
    BY <1>1, <2>1 DEF Types
  <2> HIDE DEF y
  <2> QED
    BY <1>5, <1>6, <1>9, <1>12, <2>1, <2>3, <2>4, AppendKeepsInv DEF y, f, g
<1>16. CASE b # NoBook
  <2> DEFINE c == Consumed(o, b, take)
  <2>1. b \in Book
    BY <1>4, <1>16
  <2>2. Opposite(o, b) \in [Prices -> Nat]
    BY <1>2, <2>1, SidesOfBook DEF Side
  <2>3. prices = Crossing(o, b)
    BY <1>2, <1>16 DEF TakeablePrices
  <2>4. DOMAIN offer = Prices
    OBVIOUS
  <2>5. /\ take \in [Prices -> 0 .. r.size]
        /\ \A p \in Prices : take[p] <= offer[p]
        /\ take # offer => SumFunction(take) = r.size
    <3> HIDE DEF offer, before
    <3> QED
      BY <1>5, <2>4 DEF Shares
  <2>6. take \in [Prices -> Nat] /\ \A p \in Prices : take[p] <= Opposite(o, b)[p]
    BY <1>2, <2>2, <2>5
  <2>7. /\ c \in Book
        /\ \A p \in Prices : Opposite(o, c)[p] = Opposite(o, b)[p] - take[p]
        /\ \A h \in Order : Crosses(h, c) => Crosses(h, b)
    <3> HIDE DEF o, b
    <3> QED
      BY <1>2, <2>1, <2>6, ConsumedFacts
  <2>8. books' = [books EXCEPT ![r.token] = c]
    BY <1>5, <1>16
  <2>9. taken < r.size => ~Crosses(o, c)
    <3> SUFFICES ASSUME taken < r.size, NEW p \in Prices,
                        Through(o, p), Opposite(o, c)[p] > 0
                 PROVE  FALSE
      BY DEF Crosses
    <3>1. take = offer
      BY <1>2, <1>5, <2>5
    <3>2. Opposite(o, b)[p] > 0
      BY <2>2, <2>6, <2>7
    <3>3. p \in prices
      BY <2>3, <3>2 DEF Crossing
    <3>4. take[p] = Opposite(o, b)[p]
      BY <3>1, <3>3
    <3> QED
      BY <2>2, <2>7, <3>4
  <2> HIDE DEF c
  <2>10. /\ books' \in [Tokens -> Book \cup {NoBook}]
         /\ books'[r.token] = c
         /\ \A t \in Tokens : t # r.token => books'[t] = books[t]
    BY <1>1, <1>2, <2>7, <2>8 DEF Types
  <2>11. IsOpen(f) => ~Crosses(f, c)
    <3>1. Crosses(o, c) <=> Crosses(f, c)
      BY <1>10, CrossesTerms
    <3> QED
      BY <1>13, <2>9, <3>1
  <2>12. Good(f, y, books'[f.token])
    BY <1>9, <1>10, <1>13, <1>14, <2>10, <2>11 DEF Good
  <2>13. ASSUME NEW i \in DOMAIN orders, Crosses(orders[i], books'[orders[i].token])
         PROVE  Crosses(orders[i], books[orders[i].token])
    <3>1. orders[i] \in Order /\ orders[i].token \in Tokens
      BY <1>1, Domains
    <3> QED
      BY <2>7, <2>10, <2>13, <3>1
  <2> HIDE DEF y
  <2> QED
    BY <1>5, <1>6, <1>9, <1>12, <2>10, <2>12, <2>13, AppendKeepsInv DEF y, f, g
<1> QED
  BY <1>15, <1>16

\* Some open orders are closed without a fill, everything else is unchanged.
LEMMA ClosingKeepsInv ==
  ASSUME Inv, UNCHANGED <<params, now, tally>>,
         \/ books' = books
         \/ books' = [t \in Tokens |-> NoBook],
         DOMAIN orders' = DOMAIN orders,
         orders' \in [DOMAIN orders -> Order],
         \A i \in DOMAIN orders :
           \/ orders'[i] = orders[i]
           \/ IsOpen(orders[i]) /\ orders'[i] = Close(orders[i], "cancelled")
           \/ IsOpen(orders[i]) /\ orders'[i] = [orders[i] EXCEPT !.status = "expired"]
  PROVE  Inv'
<1> DEFINE n == Len(orders)
<1>1. Types
  BY DEF Inv
<1>2. n \in Nat /\ DOMAIN orders = 1 .. n /\ DOMAIN tally = 1 .. n
  BY <1>1, Domains
<1>3. orders' \in Seq(Order)
  BY <1>2, FunctionIsSeq
<1>4. books' \in [Tokens -> Book \cup {NoBook}]
  BY <1>1 DEF Types
<1>5. Types'
  BY <1>1, <1>3, <1>4 DEF Types
<1>6. ASSUME NEW i \in DOMAIN orders
      PROVE  Good(orders'[i], tally'[i], books'[orders'[i].token])
  <2> DEFINE o == orders[i]
             y == tally[i]
  <2>1. /\ o \in Order /\ y \in Tally /\ o.token \in Tokens
        /\ Good(o, y, books[o.token]) /\ tally'[i] = y
    BY <1>1, <1>2, Domains DEF Inv
  <2>2. CASE orders'[i] = o
    <3>1. books'[o.token] \in {books[o.token], NoBook}
      BY <2>1
    <3>2. Crosses(o, books'[o.token]) => Crosses(o, books[o.token])
      BY <3>1 DEF Crosses
    <3> HIDE DEF o, y
    <3>3. Good(o, y, books'[o.token])
      BY <2>1, <3>2 DEF Good
    <3> QED
      BY <2>1, <2>2, <3>3
  <2>3. CASE IsOpen(o) /\ orders'[i] # o
    <3>1. /\ o.status = "open" /\ o.remaining \in Nat /\ o.remaining > 0 /\ o.size \in Nat
          /\ y.taken + y.made + o.remaining = o.size
          /\ y.taken \in Nat /\ y.made \in Nat
      BY <2>1, <2>3 DEF Good, IsOpen, Accounted, Order, Tally
    <3> DEFINE f == orders'[i]
    <3>2. /\ f.size = o.size /\ f.ahead = o.ahead
          /\ \/ f.status = "cancelled"
             \/ f.status = "expired" /\ f.remaining = o.remaining
      <4>1. CASE f = Close(o, "cancelled")
        BY <2>1, <4>1, CloseFacts DEF Status, SameTerms
      <4>2. CASE f = [o EXCEPT !.status = "expired"]
        <5> HIDE DEF f, o
        <5> QED
          BY <2>1, <4>2 DEF Order
      <4> QED
        BY <2>3, <4>1, <4>2
    <3> HIDE DEF f, o, y
    <3>3. Accounted(f, y)
      BY <3>1, <3>2 DEF Accounted
    <3>4. ~IsOpen(f)
      BY <3>2 DEF IsOpen
    <3>5. Good(f, y, books'[f.token])
      BY <2>1, <3>2, <3>3, <3>4 DEF Good
    <3> QED
      BY <2>1, <3>5 DEF f
  <2> QED
    BY <2>2, <2>3
<1> QED
  BY <1>5, <1>6 DEF Inv

LEMMA ExpiredType ==
  ASSUME NEW o \in Order
  PROVE  [o EXCEPT !.status = "expired"] \in Order
<1>1. "expired" \in Status
  BY DEF Status
<1> QED
  BY <1>1 DEF Order

LEMMA CancelledType ==
  ASSUME NEW o \in Order
  PROVE  Close(o, "cancelled") \in Order
BY CloseFacts DEF Status

LEMMA NextKeepsInv == Inv /\ [Next]_vars => Inv'
<1> SUFFICES ASSUME Inv, [Next]_vars PROVE Inv'
  OBVIOUS
<1>1. /\ \A i \in DOMAIN orders : orders[i] \in Order
      /\ DOMAIN orders = 1 .. Len(orders)
  BY Domains DEF Inv
<1>2. orders \in [DOMAIN orders -> Order]
  BY LenProperties DEF Inv, Types
<1>3. ASSUME NEW t \in Tokens, NEW b \in Snapshots, OnBook(t, b)
      PROVE  Inv'
  BY <1>3, OnBookKeepsInv, ExecutionAssumption
<1>4. ASSUME NEW c \in Changes, OnPriceChange(c)
      PROVE  Inv'
  BY <1>4, OnPriceChangeKeepsInv
<1>5. CASE DropBooks
  BY <1>1, <1>2, <1>5, ClosingKeepsInv DEF DropBooks
<1>6. ASSUME NEW pr \in Prints, OnTradePrint(pr)
      PROVE  Inv'
  BY <1>6, OnTradePrintKeepsInv
<1>7. ASSUME NEW r \in Requests, Submit(r)
      PROVE  Inv'
  BY <1>7, AcceptKeepsInv, RefuseKeepsInv DEF Submit
<1>8. ASSUME NEW i \in DOMAIN orders, Cancel(i)
      PROVE  Inv'
  <2>1. \A j \in DOMAIN orders :
          orders'[j] = IF j = i /\ IsOpen(orders[j]) THEN Close(orders[j], "cancelled")
                                                   ELSE orders[j]
    BY <1>2, <1>8 DEF Cancel
  <2>2. DOMAIN orders' = DOMAIN orders /\ orders' \in [DOMAIN orders -> Order]
    <3>1. IF IsOpen(orders[i]) THEN Close(orders[i], "cancelled") \in Order
                               ELSE orders[i] \in Order
      BY <1>1, CancelledType
    <3> QED
      BY <1>2, <1>8, <3>1 DEF Cancel
  <2> QED
    BY <1>8, <2>1, <2>2, ClosingKeepsInv DEF Cancel
<1>9. CASE CancelAll
  <2>1. orders' \in [DOMAIN orders -> Order]
    BY <1>1, <1>9, CancelledType DEF CancelAll
  <2> QED
    BY <1>9, <2>1, ClosingKeepsInv DEF CancelAll
<1>10. ASSUME NEW t \in Times, Expire(t)
       PROVE  Inv'
  <2>1. orders' \in [DOMAIN orders -> Order]
    BY <1>1, <1>10, ExpiredType DEF Expire
  <2> QED
    BY <1>10, <2>1, ClosingKeepsInv DEF Expire, Due
<1>11. ASSUME NEW t \in Times, SetClock(t)
       PROVE  Inv'
  BY <1>11 DEF SetClock, Inv, Types
<1>12. CASE UNCHANGED vars
  BY <1>12 DEF vars, Inv, Types
<1> QED
  BY <1>3, <1>4, <1>5, <1>6, <1>7, <1>8, <1>9, <1>10, <1>11, <1>12 DEF Next

-----------------------------------------------------------------------------
(***************************************************************************)
(* Theorems.                                                               *)
(***************************************************************************)

LEMMA InvHolds == Spec => []Inv
BY InitGood, NextKeepsInv, PTL DEF Spec

(***************************************************************************)
(* After every call the state of the executor is well-typed, and an order  *)
(* that is open has a valid price and something left to fill.              *)
(***************************************************************************)
THEOREM TypeCorrect == Spec => []TypeOK
<1>1. Inv => TypeOK
  BY DEF Inv, TypeOK, OpenOrdersAreValid, Good
<1> QED
  BY <1>1, InvHolds, PTL

(***************************************************************************)
(* Every share of every order is taken, made, open or written off, once.   *)
(***************************************************************************)
THEOREM Accounting == Spec => []SharesAccountedFor
<1>1. Inv => SharesAccountedFor
  BY DEF Inv, SharesAccountedFor, Good
<1> QED
  BY <1>1, InvHolds, PTL

(***************************************************************************)
(* No resting order is filled beyond the volume that reached its price.    *)
(***************************************************************************)
THEOREM Backing == Spec => []MakerFillsAreBacked
<1>1. Inv => MakerFillsAreBacked
  BY DEF Inv, MakerFillsAreBacked, Good
<1> QED
  BY <1>1, InvHolds, PTL

(***************************************************************************)
(* An order that was filled as a maker has nobody ahead of it in the queue.*)
(***************************************************************************)
THEOREM QueueFirst == Spec => []QueueServedFirst
<1>1. Inv => QueueServedFirst
  BY DEF Inv, QueueServedFirst, Good
<1> QED
  BY <1>1, InvHolds, PTL

(***************************************************************************)
(* A maker's fill is earned: by volume that came, and after the queue.     *)
(***************************************************************************)
THEOREM Earned == Spec => []FillsAreEarned
<1>1. MakerFillsAreBacked /\ QueueServedFirst => FillsAreEarned
  BY DEF FillsAreEarned
<1> QED
  BY <1>1, Backing, QueueFirst, PTL

(***************************************************************************)
(* The crossed flag is set on every open order the known book sits through.*)
(***************************************************************************)
THEOREM FlagInSync == Spec => []CrossedFlagInSync
<1>1. Inv => CrossedFlagInSync
  BY DEF Inv, CrossedFlagInSync, Good
<1> QED
  BY <1>1, InvHolds, PTL

(***************************************************************************)
(* A book gives an order one fill per crossing.                            *)
(***************************************************************************)
THEOREM OneFillPerCrossing == Spec => OncePerCrossing
<1> DEFINE Step == \A t \in Tokens : books'[t] # NoBook /\ OnBook(t, books'[t]) =>
              \A i \in OpenOn(t) :
                Crosses(orders[i], books[t]) /\ Crosses(orders[i], books'[t]) =>
                  orders'[i].remaining = orders[i].remaining
<1>1. Inv /\ Inv' => Step
  <2> SUFFICES ASSUME Inv, Inv', NEW t \in Tokens, books'[t] # NoBook,
                      OnBook(t, books'[t]), NEW i \in OpenOn(t),
                      Crosses(orders[i], books[t])
               PROVE  orders'[i].remaining = orders[i].remaining
    OBVIOUS
  <2> DEFINE o == orders[i]
             b == books'[t]
  <2>1. b \in Book
    BY DEF Inv, Types
  <2>2. /\ i \in DOMAIN orders /\ o \in Order /\ IsOpen(o) /\ o.token = t
        /\ o.price \in Prices /\ o.crossed
    BY Domains DEF Inv, Good, OpenOn
  <2>3. orders'[i] = Matched(o, b)
    BY <2>2 DEF OnBook
  <2> HIDE DEF o, b
  <2>4. BookFill(o, b) = 0
    BY <2>2 DEF BookFill, StartsCrossing
  <2>5. Matched(o, b).remaining = o.remaining - 0
    BY <2>1, <2>2, <2>4, MatchedFacts
  <2> QED
    BY <2>2, <2>3, <2>5 DEF o, Order
<1>2. Inv /\ Inv' /\ [Next]_vars => [Step]_vars
  BY <1>1
<1> QED
  BY <1>2, InvHolds, PTL DEF Spec, OncePerCrossing

-----------------------------------------------------------------------------
(***************************************************************************)
(* What one call does to the orders: the ledger, and what is kept of them. *)
(***************************************************************************)

\* The terms of the orders that were there stay, and so does what they took.
TermsKept ==
  \A i \in DOMAIN orders :
    SameTerms(orders[i], orders'[i]) /\ tally'[i].taken = tally[i].taken

Kept(o, f) == f.remaining = o.remaining /\ f.status = o.status

\* What a fill, a cancellation and expiry make of an order.
Worked(o, f) ==
  /\ IsOpen(o)
  /\ f.remaining \in 0 .. o.remaining - 1
  /\ f.status = IF f.remaining = 0 THEN "filled" ELSE "open"

Cancelled(o, f) == IsOpen(o) /\ f.remaining = 0 /\ f.status = "cancelled"

Lapsed(o, f) == IsOpen(o) /\ f.remaining = o.remaining /\ f.status = "expired"

SameOrders == DOMAIN orders' = DOMAIN orders /\ TermsKept

\* n shares filled of an open order: it is worked, or nothing happens.
LEMMA FillWorks ==
  ASSUME NEW o \in Order, IsOpen(o), NEW n \in 0 .. o.remaining, NEW f,
         f.remaining = o.remaining - n,
         f.status = IF n = o.remaining THEN "filled" ELSE "open", o.remaining > 0
  PROVE  Kept(o, f) \/ Worked(o, f)
<1>1. o.remaining \in Nat /\ o.status = "open" /\ n \in Nat
  BY DEF Order, IsOpen
<1>2. CASE n = 0
  BY <1>1, <1>2 DEF Kept
<1>3. CASE n # 0
  <2>1. f.remaining \in 0 .. o.remaining - 1 /\ (f.remaining = 0 <=> n = o.remaining)
    BY <1>1, <1>3
  <2> QED
    BY <2>1 DEF Worked
<1> QED
  BY <1>2, <1>3

LEMMA OnBookWorks ==
  ASSUME Inv, NEW t \in Tokens, NEW b \in Book, OnBook(t, b)
  PROVE  SameOrders /\ \A i \in DOMAIN orders :
                         Kept(orders[i], orders'[i]) \/ Worked(orders[i], orders'[i])
<1>1. /\ DOMAIN orders' = DOMAIN orders
      /\ \A i \in DOMAIN orders :
           /\ orders'[i] = IF i \in OpenOn(t) THEN Matched(orders[i], b) ELSE orders[i]
           /\ tally'[i].taken = tally[i].taken
  BY DEF OnBook
<1>2. ASSUME NEW i \in DOMAIN orders
      PROVE  /\ SameTerms(orders[i], orders'[i])
             /\ Kept(orders[i], orders'[i]) \/ Worked(orders[i], orders'[i])
  <2>1. orders[i] \in Order /\ Good(orders[i], tally[i], books[orders[i].token])
    BY Domains DEF Inv
  <2>2. CASE i \in OpenOn(t)
    <3>1. /\ IsOpen(orders[i]) /\ orders[i].price \in Prices /\ orders[i].remaining > 0
          /\ orders'[i] = Matched(orders[i], b)
      BY <1>1, <2>1, <2>2 DEF OpenOn, Good
    <3>2. BookFill(orders[i], b) \in 0 .. orders[i].remaining
      BY <2>1, <3>1, BookFillFacts
    <3>3. /\ SameTerms(orders[i], orders'[i])
          /\ orders'[i].remaining = orders[i].remaining - BookFill(orders[i], b)
          /\ orders'[i].status = IF BookFill(orders[i], b) = orders[i].remaining
                                 THEN "filled" ELSE "open"
      BY <2>1, <3>1, MatchedFacts
    <3> QED
      BY <2>1, <3>1, <3>2, <3>3, FillWorks
  <2>3. CASE i \notin OpenOn(t)
    BY <1>1, <2>3 DEF SameTerms, Kept
  <2> QED
    BY <2>2, <2>3
<1> QED
  BY <1>1, <1>2 DEF SameOrders, TermsKept

\* What a print hands out, order by order.
LEMMA PrintGiven ==
  ASSUME Inv, NEW pr \in Prints, OnTradePrint(pr)
  PROVE  \E got \in [DOMAIN orders -> 0 .. pr.size] :
           /\ SumFunction(got) <= pr.size
           /\ DOMAIN orders' = DOMAIN orders
           /\ \A i \in DOMAIN orders :
                /\ got[i] > 0 => i \in OpenOn(pr.token) /\ got[i] <= Claim(orders[i], pr)
                /\ got[i] > 0 => \A j \in Earlier(pr.token)[i] : got[j] = Claim(orders[j], pr)
                /\ orders'[i] = IF got[i] > 0
                                THEN Filled(Dequeued(orders[i], pr, got[i]),
                                            got[i] - ToQueue(orders[i], pr, got[i]))
                                ELSE orders[i]
                /\ tally'[i].taken = tally[i].taken
<1> DEFINE claims == [i \in DOMAIN orders |->
                        IF i \in OpenOn(pr.token) THEN Claim(orders[i], pr) ELSE 0]
<1>1. pr.size \in Nat
  BY ExecutionAssumption DEF TradePrint
<1>2. PICK got \in Shares(pr.size, claims, Earlier(pr.token)) :
        /\ orders' = [i \in DOMAIN orders |->
                        IF got[i] > 0
                        THEN Filled(Dequeued(orders[i], pr, got[i]),
                                    got[i] - ToQueue(orders[i], pr, got[i]))
                        ELSE orders[i]]
        /\ tally'  = [i \in DOMAIN orders |->
                        IF claims[i] > 0
                        THEN [taken |-> tally[i].taken,
                              made  |-> tally[i].made + (got[i] - ToQueue(orders[i], pr, got[i])),
                              seen  |-> See(i, pr.size)]
                        ELSE tally[i]]
  BY DEF OnTradePrint
<1>3. DOMAIN claims = DOMAIN orders
  OBVIOUS
<1>4. /\ got \in [DOMAIN orders -> 0 .. pr.size]
      /\ \A i \in DOMAIN orders : got[i] <= claims[i]
      /\ \A i \in DOMAIN orders : got[i] > 0 => \A j \in Earlier(pr.token)[i] : got[j] = claims[j]
      /\ SumFunction(got) <= pr.size
  <2> HIDE DEF claims
  <2> QED
    BY <1>2, <1>3 DEF Shares
<1>5. ASSUME NEW i \in DOMAIN orders, got[i] > 0
      PROVE  i \in OpenOn(pr.token)
  <2>1. got[i] \in Nat
    BY <1>1, <1>4
  <2>2. claims[i] # 0
    <3> HIDE DEF claims
    <3> QED
      BY <1>4, <1>5, <2>1
  <2> QED
    BY <2>2
<1>6. \A i \in DOMAIN orders : Earlier(pr.token)[i] \subseteq OpenOn(pr.token)
  BY DEF Earlier
<1>7. \A j \in OpenOn(pr.token) : j \in DOMAIN orders /\ claims[j] = Claim(orders[j], pr)
  BY DEF OpenOn
<1>8. \A i \in DOMAIN orders : tally'[i].taken = tally[i].taken
  <2> HIDE DEF claims
  <2> QED
    BY <1>2
<1> HIDE DEF claims
<1>9. ASSUME NEW i \in DOMAIN orders, got[i] > 0
      PROVE  \A j \in Earlier(pr.token)[i] : got[j] = Claim(orders[j], pr)
  BY <1>4, <1>6, <1>7, <1>9
<1>10. ASSUME NEW i \in DOMAIN orders, got[i] > 0
       PROVE  i \in OpenOn(pr.token) /\ got[i] <= Claim(orders[i], pr)
  BY <1>4, <1>5, <1>7, <1>10
<1> QED
  BY <1>2, <1>4, <1>8, <1>9, <1>10

LEMMA OnTradePrintWorks ==
  ASSUME Inv, NEW pr \in Prints, OnTradePrint(pr)
  PROVE  SameOrders /\ \A i \in DOMAIN orders :
                         Kept(orders[i], orders'[i]) \/ Worked(orders[i], orders'[i])
<1>1. PICK got \in [DOMAIN orders -> 0 .. pr.size] :
        /\ DOMAIN orders' = DOMAIN orders
        /\ \A i \in DOMAIN orders :
             /\ got[i] > 0 => i \in OpenOn(pr.token) /\ got[i] <= Claim(orders[i], pr)
             /\ orders'[i] = IF got[i] > 0
                             THEN Filled(Dequeued(orders[i], pr, got[i]),
                                         got[i] - ToQueue(orders[i], pr, got[i]))
                             ELSE orders[i]
             /\ tally'[i].taken = tally[i].taken
  BY PrintGiven
<1>2. pr \in TradePrint /\ pr.size \in Nat
  BY ExecutionAssumption DEF TradePrint
<1>3. ASSUME NEW i \in DOMAIN orders
      PROVE  /\ SameTerms(orders[i], orders'[i])
             /\ Kept(orders[i], orders'[i]) \/ Worked(orders[i], orders'[i])
  <2> DEFINE o == orders[i]
             n == got[i]
             fill == n - ToQueue(o, pr, n)
             d == Dequeued(o, pr, n)
  <2>1. o \in Order /\ Good(o, tally[i], books[o.token]) /\ n \in Nat
    BY <1>2, Domains DEF Inv
  <2>2. CASE n > 0
    <3>1. IsOpen(o) /\ o.price \in Prices /\ o.remaining > 0 /\ n <= Claim(o, pr)
      BY <1>1, <2>1, <2>2 DEF OpenOn, Good
    <3>2. orders'[i] = Filled(d, fill)
      BY <1>1, <2>2
    <3> HIDE DEF o, n
    <3>3. /\ fill \in 0 .. o.remaining /\ d \in Order /\ SameTerms(o, d)
          /\ d.remaining = o.remaining /\ d.status = o.status
      BY <1>2, <2>1, <2>2, <3>1, PrintFacts
    <3> HIDE DEF d, fill
    <3>4. IsOpen(d) /\ fill \in 0 .. d.remaining
      BY <3>1, <3>3 DEF IsOpen
    <3>5. /\ SameTerms(d, Filled(d, fill))
          /\ Filled(d, fill).remaining = d.remaining - fill
          /\ Filled(d, fill).status = IF fill = d.remaining THEN "filled" ELSE "open"
      BY <3>3, <3>4, FilledFacts
    <3>6. SameTerms(o, Filled(d, fill))
      BY <3>3, <3>5 DEF SameTerms
    <3>7. Kept(o, Filled(d, fill)) \/ Worked(o, Filled(d, fill))
      BY <2>1, <3>1, <3>3, <3>5, FillWorks
    <3> QED
      BY <3>2, <3>6, <3>7 DEF o
  <2>3. CASE ~(n > 0)
    BY <1>1, <2>3 DEF SameTerms, Kept
  <2> QED
    BY <2>2, <2>3
<1> QED
  BY <1>1, <1>3 DEF SameOrders, TermsKept

\* What becomes of an order that is accepted: rested, filled or cancelled.
LEMMA SettledStatus ==
  ASSUME NEW g \in Order, IsOpen(g) \/ (g.status = "filled" /\ g.remaining = 0)
  PROVE  /\ Settled(g).status \in {"open", "filled", "cancelled"}
         /\ IsOpen(Settled(g)) => IsOpen(g) /\ g.type \notin {"FOK", "FAK"}
         /\ ~IsOpen(Settled(g)) => Settled(g).remaining = 0
         /\ Settled(g).status = "filled" => ~IsOpen(g)
<1>1. CASE ~IsOpen(g)
  <2>1. Settled(g) = g
    BY <1>1 DEF Settled
  <2> QED
    BY <1>1, <2>1
<1>2. CASE IsOpen(g) /\ g.type \in {"FOK", "FAK"}
  <2>1. Settled(g) = Close(g, "cancelled") /\ "cancelled" \in Status
    BY <1>2 DEF Settled, Status
  <2>2. Settled(g).status = "cancelled" /\ Settled(g).remaining = 0
    BY <2>1, CloseFacts
  <2> QED
    BY <1>2, <2>2 DEF IsOpen
<1>3. CASE IsOpen(g) /\ g.type \notin {"FOK", "FAK"}
  <2>1. Settled(g) = [g EXCEPT !.ahead = QueueAhead(g)]
    BY <1>3 DEF Settled
  <2>2. Settled(g).status = g.status
    BY <2>1 DEF Order
  <2> QED
    BY <1>3, <2>2 DEF IsOpen
<1> QED
  BY <1>1, <1>2, <1>3

\* What an accepted order takes from the book, and what it is then.
LEMMA AcceptFacts ==
  ASSUME Inv, NEW r \in Requests, ~Refused(r), Accept(r)
  PROVE  LET o      == NewOrder(r)
             prices == TakeablePrices(o)
             b      == books[r.token]
         IN  \E take \in [Prices -> 0 .. r.size], taken \in 0 .. r.size, f \in Order :
               /\ taken = SumFunction(take)
               /\ \A p \in Prices \ prices : take[p] = 0
               /\ \A p \in prices : take[p] <= Opposite(o, b)[p]
               /\ \A p \in Prices : take[p] > 0 =>
                    \A q \in prices : Better(o, q, p) => take[q] = Opposite(o, b)[q]
               /\ taken < r.size => \A p \in prices : take[p] = Opposite(o, b)[p]
               /\ orders' = Append(orders, f) /\ SameTerms(o, f)
               /\ tally' = Append(tally, [taken |-> taken, made |-> 0, seen |-> 0])
               /\ books' = IF b = NoBook THEN books
                           ELSE [books EXCEPT ![r.token] = Consumed(o, b, take)]
               /\ f.status \in {"open", "filled", "cancelled"}
               /\ IsOpen(f) => /\ f.remaining = r.size - taken /\ f.remaining > 0
                               /\ f.type \notin {"FOK", "FAK"}
               /\ ~IsOpen(f) => f.remaining = 0
<1> DEFINE o == NewOrder(r)
           b == books[r.token]
           prices == TakeablePrices(o)
           offer == [p \in Prices |-> IF p \in prices THEN Opposite(o, b)[p] ELSE 0]
           before == [p \in Prices |-> {q \in prices : Better(o, q, p)}]
<1>1. Types
  BY DEF Inv
<1>2. /\ o \in Order /\ IsOpen(o) /\ o.token = r.token /\ r.token \in Tokens
      /\ o.remaining = r.size /\ o.size = r.size /\ r.size \in Nat \ {0}
  BY NewOrderFacts
<1>3. o.price \in Prices
  BY DEF Refused, Valid
<1>4. PICK take \in Shares(r.size, offer, before), taken \in 0 .. r.size :
        /\ taken = SumFunction(take)
        /\ orders' = Append(orders, Settled(Filled(o, taken)))
        /\ tally'  = Append(tally, [taken |-> taken, made |-> 0, seen |-> 0])
        /\ books'  = IF b = NoBook THEN books
                     ELSE [books EXCEPT ![r.token] = Consumed(o, b, take)]
  BY DEF Accept
<1>5. DOMAIN offer = Prices /\ prices \subseteq Prices
  BY DEF TakeablePrices, Crossing
<1>6. /\ take \in [Prices -> 0 .. r.size]
      /\ \A p \in Prices : take[p] <= offer[p]
      /\ \A p \in Prices : take[p] > 0 => \A q \in before[p] : take[q] = offer[q]
      /\ take # offer => SumFunction(take) = r.size
  <2> HIDE DEF offer, before
  <2> QED
    BY <1>4, <1>5 DEF Shares
<1>7. ASSUME NEW p \in Prices \ prices
      PROVE  take[p] = 0
  <2>1. take[p] \in 0 .. r.size /\ take[p] <= 0
    BY <1>6
  <2> QED
    BY <1>2, <2>1
<1>8. \A p \in prices : take[p] <= Opposite(o, b)[p]
  BY <1>5, <1>6
<1>9. \A p \in Prices : take[p] > 0 =>
        \A q \in prices : Better(o, q, p) => take[q] = Opposite(o, b)[q]
  BY <1>5, <1>6
<1>10. taken < r.size => \A p \in prices : take[p] = Opposite(o, b)[p]
  <2>1. taken < r.size => take = offer
    BY <1>2, <1>4, <1>6
  <2> QED
    BY <1>5, <2>1
<1> DEFINE g == Filled(o, taken)
           f == Settled(g)
<1>11. /\ g \in Order /\ SameTerms(o, g)
       /\ g.remaining = r.size - taken
       /\ g.status = IF taken = r.size THEN "filled" ELSE "open"
  <2> HIDE DEF o
  <2> QED
    BY <1>2, FilledFacts
<1>12. g.price \in Prices /\ g.token \in Tokens
  BY <1>2, <1>3, <1>11 DEF SameTerms
<1> HIDE DEF g, o, b, prices
<1>13. IsOpen(g) \/ (g.status = "filled" /\ g.remaining = 0)
  <2>1. taken = r.size => g.remaining = 0
    BY <1>2, <1>11
  <2> QED
    BY <1>11, <2>1 DEF IsOpen
<1>14. /\ f \in Order /\ SameTerms(g, f)
       /\ IsOpen(f) => f.remaining = g.remaining
  BY <1>1, <1>11, <1>12, SettledFacts
<1>15. /\ f.status \in {"open", "filled", "cancelled"}
       /\ IsOpen(f) => IsOpen(g) /\ g.type \notin {"FOK", "FAK"}
       /\ ~IsOpen(f) => f.remaining = 0
  BY <1>11, <1>13, SettledStatus
<1>16. SameTerms(o, f) /\ f.type = g.type
  BY <1>11, <1>14 DEF SameTerms
<1>17. IsOpen(f) => /\ f.remaining = r.size - taken /\ f.remaining > 0
                    /\ f.type \notin {"FOK", "FAK"}
  <2>1. IsOpen(g) => taken < r.size
    BY <1>2, <1>4, <1>11 DEF IsOpen
  <2> QED
    BY <1>2, <1>4, <1>11, <1>14, <1>15, <1>16, <2>1
<1>18. orders' = Append(orders, f)
  BY <1>4 DEF g
<1> HIDE DEF f
<1> QED
  BY <1>4, <1>6, <1>7, <1>8, <1>9, <1>10, <1>14, <1>15, <1>16, <1>17, <1>18, ZenonT(60) DEF o, b, prices

\* An open order that is closed without a fill.
LEMMA ClosedFacts ==
  ASSUME NEW o \in Order, IsOpen(o)
  PROVE  /\ SameTerms(o, Close(o, "cancelled"))
         /\ Cancelled(o, Close(o, "cancelled"))
         /\ SameTerms(o, [o EXCEPT !.status = "expired"])
         /\ Lapsed(o, [o EXCEPT !.status = "expired"])
<1>1. "cancelled" \in Status
  BY DEF Status
<1>2. /\ SameTerms(o, Close(o, "cancelled"))
      /\ Cancelled(o, Close(o, "cancelled"))
  BY <1>1, CloseFacts DEF Cancelled
<1>3. /\ SameTerms(o, [o EXCEPT !.status = "expired"])
      /\ Lapsed(o, [o EXCEPT !.status = "expired"])
  BY DEF SameTerms, Lapsed, Order
<1> QED
  BY <1>2, <1>3

\* What a call can do to the orders.
Works   == SameOrders /\ \A i \in DOMAIN orders :
             Kept(orders[i], orders'[i]) \/ Worked(orders[i], orders'[i])
Cancels == SameOrders /\ \A i \in DOMAIN orders :
             Kept(orders[i], orders'[i]) \/ Cancelled(orders[i], orders'[i])
Lapses  == SameOrders /\ \A i \in DOMAIN orders :
             Kept(orders[i], orders'[i]) \/ Lapsed(orders[i], orders'[i])

LEMMA NothingWorks ==
  ASSUME UNCHANGED <<orders, tally>>
  PROVE  Works
BY DEF Works, SameOrders, TermsKept, SameTerms, Kept

LEMMA CancellingCancels ==
  ASSUME Inv, (\E i \in DOMAIN orders : Cancel(i)) \/ CancelAll
  PROVE  Cancels
<1>1. tally' = tally /\ DOMAIN orders' = DOMAIN orders
  BY DEF Cancel, CancelAll
<1>2. \A j \in DOMAIN orders : orders[j] \in Order
  BY Domains DEF Inv
<1>3. \A j \in DOMAIN orders :
        \/ orders'[j] = orders[j]
        \/ IsOpen(orders[j]) /\ orders'[j] = Close(orders[j], "cancelled")
  BY DEF Cancel, CancelAll
<1>4. ASSUME NEW j \in DOMAIN orders
      PROVE  /\ SameTerms(orders[j], orders'[j])
             /\ Kept(orders[j], orders'[j]) \/ Cancelled(orders[j], orders'[j])
  <2>1. CASE orders'[j] = orders[j]
    BY <2>1 DEF SameTerms, Kept
  <2>2. CASE orders'[j] # orders[j]
    BY <1>2, <1>3, <2>2, ClosedFacts
  <2> QED
    BY <2>1, <2>2
<1> QED
  BY <1>1, <1>4 DEF Cancels, SameOrders, TermsKept

LEMMA ExpiryLapses ==
  ASSUME Inv, NEW t \in Times, Expire(t)
  PROVE  Lapses
<1>1. tally' = tally /\ DOMAIN orders' = DOMAIN orders
  BY DEF Expire
<1>2. \A j \in DOMAIN orders : orders[j] \in Order
  BY Domains DEF Inv
<1>3. \A j \in DOMAIN orders :
        \/ orders'[j] = orders[j]
        \/ IsOpen(orders[j]) /\ orders'[j] = [orders[j] EXCEPT !.status = "expired"]
  BY DEF Expire, Due
<1>4. ASSUME NEW j \in DOMAIN orders
      PROVE  /\ SameTerms(orders[j], orders'[j])
             /\ Kept(orders[j], orders'[j]) \/ Lapsed(orders[j], orders'[j])
  <2>1. CASE orders'[j] = orders[j]
    BY <2>1 DEF SameTerms, Kept
  <2>2. CASE orders'[j] # orders[j]
    BY <1>2, <1>3, <2>2, ClosedFacts
  <2> QED
    BY <2>1, <2>2
<1> QED
  BY <1>1, <1>4 DEF Lapses, SameOrders, TermsKept

\* Every call works, cancels or lapses orders, or records a new one.
LEMMA StepKinds ==
  ASSUME Inv, [Next]_vars
  PROVE  \/ Works \/ Cancels \/ Lapses
         \/ \E r \in Requests : Submit(r)
<1>1. ASSUME NEW t \in Tokens, NEW b \in Snapshots, OnBook(t, b)
      PROVE  Works
  BY <1>1, OnBookWorks, ExecutionAssumption DEF Works
<1>2. ASSUME NEW c \in Changes, OnPriceChange(c)
      PROVE  Works
  <2>1. c \in Change /\ books[c.token] \in Book \cup {NoBook} /\ c.token \in Tokens
    BY ExecutionAssumption DEF Change, Inv, Types
  <2>2. WithLevel(books[c.token], c) \in Book
    BY <1>2, <2>1 DEF OnPriceChange, WithLevel, Book, Side, Change
  <2> QED
    BY <1>2, <2>1, <2>2, OnBookWorks DEF OnPriceChange, Works
<1>3. ASSUME NEW pr \in Prints, OnTradePrint(pr)
      PROVE  Works
  BY <1>3, OnTradePrintWorks DEF Works
<1>4. CASE DropBooks \/ (\E t \in Times : SetClock(t)) \/ UNCHANGED vars
  BY <1>4, NothingWorks DEF DropBooks, SetClock, vars
<1>5. CASE (\E i \in DOMAIN orders : Cancel(i)) \/ CancelAll
  BY <1>5, CancellingCancels
<1>6. ASSUME NEW t \in Times, Expire(t)
      PROVE  Lapses
  BY <1>6, ExpiryLapses
<1> QED
  BY <1>1, <1>2, <1>3, <1>4, <1>5, <1>6 DEF Next

-----------------------------------------------------------------------------
(***************************************************************************)
(* The executor implements the order ledger.                               *)
(***************************************************************************)

\* What the ledger shows of order o.
Shown(o) == [size |-> o.size, remaining |-> o.remaining, status |-> o.status]

View == [i \in DOMAIN orders |-> Shown(orders[i])]

LEMMA ShownFacts ==
  ASSUME NEW o \in Order
  PROVE  /\ Shown(o) \in Ledger!Entry
         /\ Shown(o).size = o.size /\ Shown(o).size \in Nat
         /\ Shown(o).remaining = o.remaining /\ Shown(o).remaining \in Nat
         /\ Shown(o).status = o.status
BY DEF Shown, Order, Status, Ledger!Entry, Ledger!Closed

LEMMA ViewFacts ==
  Types =>
    /\ Len(orders) \in Nat /\ DOMAIN orders = 1 .. Len(orders)
    /\ View \in Seq(Ledger!Entry) /\ Len(View) = Len(orders) /\ DOMAIN View = DOMAIN orders
    /\ \A i \in DOMAIN orders : orders[i] \in Order /\ View[i] = Shown(orders[i])
<1> SUFFICES ASSUME Types
             PROVE  /\ Len(orders) \in Nat /\ DOMAIN orders = 1 .. Len(orders)
                    /\ View \in Seq(Ledger!Entry) /\ Len(View) = Len(orders)
                    /\ DOMAIN View = DOMAIN orders
                    /\ \A i \in DOMAIN orders : /\ orders[i] \in Order
                                                /\ View[i] = Shown(orders[i])
  OBVIOUS
<1>1. /\ Len(orders) \in Nat /\ DOMAIN orders = 1 .. Len(orders)
      /\ \A i \in DOMAIN orders : orders[i] \in Order
  BY Domains
<1>2. View \in [1 .. Len(orders) -> Ledger!Entry]
  BY <1>1, ShownFacts DEF View
<1>3. View \in Seq(Ledger!Entry) /\ Len(View) = Len(orders)
  BY <1>1, <1>2, FunctionIsSeq
<1> QED
  BY <1>1, <1>3 DEF View

\* A change of an order as the ledger shows it.
LEMMA ShownChanges ==
  ASSUME NEW o \in Order, NEW f \in Order, SameTerms(o, f)
  PROVE  /\ Kept(o, f) => Shown(f) = Shown(o)
         /\ Worked(o, f) => Ledger!Worked(Shown(o), Shown(f))
         /\ Cancelled(o, f) => Ledger!Cancelled(Shown(o), Shown(f))
         /\ Lapsed(o, f) => Ledger!Lapsed(Shown(o), Shown(f))
<1>1. f.size = o.size
  BY DEF SameTerms
<1>2. Kept(o, f) => Shown(f) = Shown(o)
  BY <1>1 DEF Kept, Shown
<1>3. Worked(o, f) => Ledger!Worked(Shown(o), Shown(f))
  BY <1>1 DEF Worked, Ledger!Worked, Shown, IsOpen
<1>4. Cancelled(o, f) => Ledger!Cancelled(Shown(o), Shown(f))
  <2> DEFINE e == Shown(o)
             g == Shown(f)
  <2>1. /\ e \in Ledger!Entry /\ g \in Ledger!Entry
        /\ e.status = o.status /\ g.status = f.status /\ g.remaining = f.remaining
        /\ g.size = e.size
    BY <1>1, ShownFacts
  <2> HIDE DEF e, g
  <2>2. ASSUME Cancelled(o, f)
        PROVE  g = [e EXCEPT !.status = "cancelled", !.remaining = 0]
    <3>1. g.status = "cancelled" /\ g.remaining = 0
      BY <2>1, <2>2 DEF Cancelled
    <3> QED
      BY <2>1, <3>1 DEF Ledger!Entry
  <2> QED
    BY <2>1, <2>2 DEF Cancelled, Ledger!Cancelled, IsOpen, e, g
<1>5. Lapsed(o, f) => Ledger!Lapsed(Shown(o), Shown(f))
  BY <1>1 DEF Lapsed, Ledger!Lapsed, Shown, IsOpen
<1> QED
  BY <1>2, <1>3, <1>4, <1>5

LEMMA LedgerInit == Init => Ledger!Init
<1> SUFFICES ASSUME Init PROVE Ledger!Init
  OBVIOUS
<1>1. orders = << >>
  BY DEF Init
<1>2. [i \in DOMAIN orders |-> [size      |-> orders[i].size,
                                remaining |-> orders[i].remaining,
                                status    |-> orders[i].status]] = << >>
  BY <1>1
<1> QED
  BY <1>2 DEF Ledger!Init

\* A step that keeps or changes the orders in place is one of the ledger.
LEMMA EachStep ==
  ASSUME Inv, Inv', SameOrders
  PROVE  /\ View' \in Seq(Ledger!Entry) /\ Len(View') = Len(View)
         /\ \A i \in DOMAIN View : /\ i \in DOMAIN orders
                                   /\ orders[i] \in Order /\ orders'[i] \in Order
                                   /\ SameTerms(orders[i], orders'[i])
                                   /\ View[i] = Shown(orders[i])
                                   /\ View'[i] = Shown(orders'[i])
<1>1. /\ Len(orders) \in Nat /\ DOMAIN orders = 1 .. Len(orders)
      /\ Len(View) = Len(orders) /\ DOMAIN View = DOMAIN orders
      /\ \A i \in DOMAIN orders : orders[i] \in Order /\ View[i] = Shown(orders[i])
  BY ViewFacts DEF Inv
<1>2. (Types =>
         /\ Len(orders) \in Nat /\ DOMAIN orders = 1 .. Len(orders)
         /\ View \in Seq(Ledger!Entry) /\ Len(View) = Len(orders) /\ DOMAIN View = DOMAIN orders
         /\ \A i \in DOMAIN orders : orders[i] \in Order /\ View[i] = Shown(orders[i]))'
  BY ViewFacts, PTL
<1>3. /\ Len(orders') \in Nat /\ DOMAIN orders' = 1 .. Len(orders')
      /\ View' \in Seq(Ledger!Entry) /\ Len(View') = Len(orders')
      /\ \A i \in DOMAIN orders' : orders'[i] \in Order /\ View'[i] = Shown(orders'[i])
  BY <1>2 DEF Inv
<1>4. Len(orders') = Len(orders) /\ DOMAIN orders' = DOMAIN orders
  BY <1>1, <1>3 DEF SameOrders
<1> QED
  BY <1>1, <1>3, <1>4 DEF SameOrders, TermsKept

\* A submitted order is recorded as the ledger expects.
LEMMA PlacedIsFresh ==
  ASSUME Inv, NEW r \in Requests, Submit(r)
  PROVE  \E f \in Order : orders' = Append(orders, f) /\ Ledger!Fresh(Shown(f))
<1> DEFINE o == NewOrder(r)
<1>1. o \in Order /\ o.size = r.size /\ r.size \in Nat \ {0}
  BY NewOrderFacts
<1>2. CASE Refused(r)
  <2> DEFINE f == Close(o, "rejected")
  <2>1. orders' = Append(orders, f)
    BY <1>2 DEF Submit, Refuse
  <2> HIDE DEF o
  <2>2. f \in Order /\ f.remaining = 0 /\ f.status = "rejected" /\ SameTerms(o, f)
    BY <1>1, CloseFacts DEF Status
  <2> HIDE DEF f
  <2>3. Ledger!Fresh(Shown(f))
    BY <1>1, <2>2, ShownFacts DEF Ledger!Fresh, SameTerms
  <2> QED
    BY <2>1, <2>2, <2>3
<1>3. CASE ~Refused(r)
  <2>1. Accept(r)
    BY <1>3 DEF Submit
  <2>2. PICK take \in [Prices -> 0 .. r.size], taken \in 0 .. r.size, f \in Order :
          /\ orders' = Append(orders, f) /\ SameTerms(o, f)
          /\ f.status \in {"open", "filled", "cancelled"}
          /\ IsOpen(f) => f.remaining = r.size - taken /\ f.remaining > 0
          /\ ~IsOpen(f) => f.remaining = 0
    BY <1>3, <2>1, AcceptFacts, ZenonT(60)
  <2>3. f.size = r.size
    BY <1>1, <2>2 DEF SameTerms
  <2>4. Ledger!Fresh(Shown(f))
    BY <1>1, <2>2, <2>3, ShownFacts DEF Ledger!Fresh, IsOpen
  <2> QED
    BY <2>2, <2>4
<1> QED
  BY <1>2, <1>3

LEMMA LedgerStep ==
  ASSUME Inv, Inv', [Next]_vars
  PROVE  [Ledger!Next]_View
<1>1. CASE Works
  <2>1. \A i \in DOMAIN View : View'[i] = View[i] \/ Ledger!Worked(View[i], View'[i])
    BY <1>1, EachStep, ShownChanges DEF Works
  <2>2. View' \in Seq(Ledger!Entry) /\ Len(View') = Len(View)
    BY <1>1, EachStep DEF Works
  <2>3. Ledger!Fill
    BY <2>1, <2>2 DEF Ledger!Fill, Ledger!Each, View, Shown
  <2> QED
    BY <2>3 DEF Ledger!Next
<1>2. CASE Cancels
  <2>1. \A i \in DOMAIN View : View'[i] = View[i] \/ Ledger!Cancelled(View[i], View'[i])
    BY <1>2, EachStep, ShownChanges DEF Cancels
  <2>2. View' \in Seq(Ledger!Entry) /\ Len(View') = Len(View)
    BY <1>2, EachStep DEF Cancels
  <2>3. Ledger!Cancel
    BY <2>1, <2>2 DEF Ledger!Cancel, Ledger!Each, View, Shown
  <2> QED
    BY <2>3 DEF Ledger!Next
<1>3. CASE Lapses
  <2>1. \A i \in DOMAIN View : View'[i] = View[i] \/ Ledger!Lapsed(View[i], View'[i])
    BY <1>3, EachStep, ShownChanges, SMTT(60) DEF Lapses
  <2>2. View' \in Seq(Ledger!Entry) /\ Len(View') = Len(View)
    BY <1>3, EachStep DEF Lapses
  <2>3. Ledger!Expire
    BY <2>1, <2>2 DEF Ledger!Expire, Ledger!Each, View, Shown
  <2> QED
    BY <2>3 DEF Ledger!Next
<1>4. ASSUME NEW r \in Requests, Submit(r)
      PROVE  Ledger!Place
  <2>1. PICK f \in Order : /\ orders' = Append(orders, f)
                           /\ Ledger!Fresh(Shown(f))
    BY <1>4, PlacedIsFresh
  <2>2. /\ Types /\ orders \in Seq(Order)
        /\ Len(orders) \in Nat /\ DOMAIN orders = 1 .. Len(orders)
        /\ View \in Seq(Ledger!Entry) /\ Len(View) = Len(orders)
    BY ViewFacts DEF Inv, Types
  <2>3. View' = Append(View, Shown(f))
    <3> DEFINE n == Len(orders)
    <3>1. /\ DOMAIN orders' = 1 .. n + 1 /\ orders'[n + 1] = f
          /\ \A i \in 1 .. n : orders'[i] = orders[i]
      BY <2>1, <2>2
    <3>2. View' = [i \in 1 .. n + 1 |-> Shown(orders'[i])]
      BY <3>1 DEF View
    <3>3. Append(View, Shown(f)) = [i \in 1 .. n + 1 |-> IF i = n + 1 THEN Shown(f) ELSE View[i]]
      BY <2>2 DEF View
    <3>4. \A i \in 1 .. n + 1 :
            Shown(orders'[i]) = IF i = n + 1 THEN Shown(f) ELSE View[i]
      BY <2>2, <3>1 DEF View
    <3> QED
      BY <3>2, <3>3, <3>4
  <2>4. Shown(f) \in Ledger!Entry
    BY ShownFacts
  <2>5. Len(View') = Len(View) + 1 /\ View'[Len(View) + 1] = Shown(f)
    <3> HIDE DEF View
    <3> QED
      BY <2>2, <2>3, <2>4
  <2> QED
    BY <2>1, <2>3, <2>5, ZenonT(60) DEF Ledger!Place, View, Shown
<1>5. Works \/ Cancels \/ Lapses \/ \E r \in Requests : Submit(r)
  BY StepKinds
<1> QED
  BY <1>1, <1>2, <1>3, <1>4, <1>5 DEF Ledger!Next

(***************************************************************************)
(* The executor implements the order ledger: fills only shrink open        *)
(* orders, and a closed order is final, whatever is called afterwards.     *)
(***************************************************************************)
THEOREM LedgerImplemented == Spec => ImplementsLedger
<1>1. Inv /\ Inv' /\ [Next]_vars => [Ledger!Next]_View
  BY LedgerStep
<1> QED
  BY <1>1, LedgerInit, InvHolds, PTL DEF Spec, ImplementsLedger, Ledger!Spec, View, Shown

-----------------------------------------------------------------------------
(***************************************************************************)
(* Orders that must trade at once, and orders that must not.               *)
(***************************************************************************)

LEMMA SumNamed ==
  ASSUME NEW f
  PROVE  SumFunction(f) = SumFunctionOnSet(f, DOMAIN f)
BY DEF SumFunction, FoldFunction, SumFunctionOnSet

LEMMA FinitePrices == IsFiniteSet(Prices) /\ \A S \in SUBSET Prices : IsFiniteSet(S)
<1>1. IsFiniteSet(1 .. One - 1)
  <2>1. 1 \in Int /\ One - 1 \in Int
    BY ExecutionAssumption
  <2> QED
    BY <2>1, FS_Interval
<1> QED
  BY <1>1, FS_Subset DEF Prices

\* ImmediateOrPassive, for one order with its history.
Prompt(o, y) ==
  /\ o.type \in {"FAK", "FOK"} => o.status \in Status \ {"open", "expired"}
  /\ o.type = "FOK" => y.taken \in {0, o.size}
  /\ o.postOnly => y.taken = 0

\* A taker that is not satisfied took all that was offered up to its limit.
LEMMA TakenIsDepth ==
  ASSUME Inv, NEW r \in Requests,
         NEW take \in [Prices -> 0 .. r.size],
         \A p \in Prices \ TakeablePrices(NewOrder(r)) : take[p] = 0,
         \A p \in TakeablePrices(NewOrder(r)) :
           take[p] = Opposite(NewOrder(r), books[r.token])[p]
  PROVE  SumFunction(take) = Depth(NewOrder(r))
<1> DEFINE o == NewOrder(r)
           prices == TakeablePrices(o)
<1>1. o.token = r.token /\ r.size \in Nat
  BY NewOrderFacts
<1>2. prices \subseteq Prices
  BY DEF TakeablePrices, Crossing
<1>3. \A p \in Prices : take[p] \in Int
  BY <1>1
<1>4. SumFunction(take) = SumFunctionOnSet(take, prices)
  <2> HIDE DEF o, prices
  <2>1. SumFunction(take) = SumFunctionOnSet(take, Prices)
    BY SumNamed
  <2>2. \A p \in Prices \ prices : take[p] = 0
    BY DEF o, prices
  <2> QED
    BY <1>2, <1>3, <2>1, <2>2, FinitePrices, SumWithoutZeros
<1>5. CASE books[r.token] = NoBook
  <2>1. prices = {} /\ Depth(o) = 0
    BY <1>1, <1>5 DEF TakeablePrices, Depth
  <2> QED
    BY <1>4, <2>1, SumOfNone
<1>6. CASE books[r.token] # NoBook
  <2> DEFINE g == Opposite(o, books[r.token])
  <2>1. Depth(o) = SumFunctionOnSet(g, prices)
    BY <1>1, <1>6 DEF Depth
  <2>2. \A p \in prices : take[p] = g[p]
    OBVIOUS
  <2>3. IsFiniteSet(prices)
    BY <1>2, FinitePrices
  <2> HIDE DEF g, prices
  <2>4. SumFunctionOnSet(take, prices) = SumFunctionOnSet(g, prices)
    BY <1>2, <1>3, <2>2, <2>3, SumOfEqual
  <2> QED
    BY <1>4, <2>1, <2>4 DEF prices
<1> QED
  BY <1>5, <1>6

\* A submitted order is prompt from the start.
LEMMA PlacedIsPrompt ==
  ASSUME Inv, NEW r \in Requests, Submit(r)
  PROVE  \E f \in Order, y \in Tally :
           /\ orders' = Append(orders, f) /\ tally' = Append(tally, y)
           /\ Prompt(f, y)
<1> DEFINE o == NewOrder(r)
<1>1. o \in Order /\ o.size = r.size /\ r.size \in Nat \ {0}
  BY NewOrderFacts
<1>2. CASE Refused(r)
  <2> DEFINE f == Close(o, "rejected")
             y == [taken |-> 0, made |-> 0, seen |-> 0]
  <2>1. orders' = Append(orders, f) /\ tally' = Append(tally, y)
    BY <1>2 DEF Submit, Refuse
  <2> HIDE DEF o
  <2>2. f \in Order /\ f.status = "rejected" /\ "rejected" \in Status
    BY <1>1, CloseFacts DEF Status
  <2> HIDE DEF f
  <2>3. y \in Tally /\ Prompt(f, y)
    BY <2>2 DEF Prompt, Tally
  <2> QED
    BY <2>1, <2>2, <2>3
<1>3. CASE ~Refused(r)
  <2> DEFINE prices == TakeablePrices(o)
             b == books[r.token]
  <2>1. Accept(r)
    BY <1>3 DEF Submit
  <2>2. PICK take \in [Prices -> 0 .. r.size], taken \in 0 .. r.size, f \in Order :
          /\ taken = SumFunction(take)
          /\ \A p \in Prices \ prices : take[p] = 0
          /\ taken < r.size => \A p \in prices : take[p] = Opposite(o, b)[p]
          /\ orders' = Append(orders, f) /\ SameTerms(o, f)
          /\ tally' = Append(tally, [taken |-> taken, made |-> 0, seen |-> 0])
          /\ f.status \in {"open", "filled", "cancelled"}
          /\ IsOpen(f) => f.type \notin {"FOK", "FAK"}
    BY <1>3, <2>1, AcceptFacts
  <2> DEFINE y == [taken |-> taken, made |-> 0, seen |-> 0]
  <2>3. taken \in Nat /\ taken <= r.size /\ f.size = r.size /\ f.type = o.type /\ f.postOnly = o.postOnly
    BY <1>1, <2>2 DEF SameTerms
  <2>4. y \in Tally /\ y.taken = taken
    BY <2>3 DEF Tally
  <2>5. taken < r.size => taken = Depth(o)
    BY <2>2, TakenIsDepth
  <2>6. ASSUME f.type = "FOK"
        PROVE  taken = f.size
    <3>1. ~(Depth(o) < r.size)
      BY <1>1, <1>3, <2>3, <2>6 DEF Refused
    <3> HIDE DEF o
    <3> QED
      BY <1>1, <2>3, <2>5, <3>1
  <2>7. ASSUME f.postOnly
        PROVE  taken = 0
    <3>1. prices = {}
      BY <1>3, <2>3, <2>7 DEF Refused
    <3>2. \A p \in Prices : take[p] \in Int /\ take[p] = 0
      BY <2>2, <3>1
    <3>3. SumFunctionOnSet(take, Prices) = SumFunctionOnSet(take, {})
      BY <3>2, FinitePrices, SumWithoutZeros
    <3> QED
      BY <2>2, <3>3, SumNamed, SumOfNone
  <2>8. f.type \in {"FAK", "FOK"} => f.status \in Status \ {"open", "expired"}
    BY <2>2 DEF IsOpen, Status
  <2>9. Prompt(f, y)
    <3> HIDE DEF y, o
    <3> QED
      BY <2>4, <2>6, <2>7, <2>8 DEF Prompt
  <2> QED
    BY <2>2, <2>4, <2>9
<1> QED
  BY <1>2, <1>3

AllPrompt == \A i \in DOMAIN orders : Prompt(orders[i], tally[i])

LEMMA PromptStep ==
  ASSUME Inv, [Next]_vars, AllPrompt
  PROVE  AllPrompt'
<1>1. /\ orders \in Seq(Order) /\ tally \in Seq(Tally)
      /\ Len(orders) \in Nat /\ DOMAIN orders = 1 .. Len(orders) /\ Len(tally) = Len(orders)
      /\ \A i \in DOMAIN orders : orders[i] \in Order
  BY Domains, LenProperties DEF Inv, Types
<1>2. CASE Works \/ Cancels \/ Lapses
  <2>1. DOMAIN orders' = DOMAIN orders
    BY <1>2 DEF Works, Cancels, Lapses, SameOrders
  <2>2. ASSUME NEW i \in DOMAIN orders
        PROVE  Prompt(orders'[i], tally'[i])
    <3>1. /\ SameTerms(orders[i], orders'[i]) /\ tally'[i].taken = tally[i].taken
          /\ \/ orders'[i].status = orders[i].status
             \/ IsOpen(orders[i])
      BY <1>2 DEF Works, Cancels, Lapses, SameOrders, TermsKept, Kept, Worked, Cancelled, Lapsed
    <3>2. Prompt(orders[i], tally[i])
      BY DEF AllPrompt
    <3> QED
      BY <3>1, <3>2 DEF Prompt, SameTerms, IsOpen
  <2> QED
    BY <2>1, <2>2 DEF AllPrompt
<1>3. ASSUME NEW r \in Requests, Submit(r)
      PROVE  AllPrompt'
  <2>1. PICK f \in Order, y \in Tally : /\ orders' = Append(orders, f)
                                        /\ tally' = Append(tally, y)
                                        /\ Prompt(f, y)
    BY <1>3, PlacedIsPrompt
  <2>2. /\ DOMAIN orders' = 1 .. Len(orders) + 1
        /\ orders'[Len(orders) + 1] = f /\ tally'[Len(orders) + 1] = y
        /\ \A i \in DOMAIN orders : orders'[i] = orders[i] /\ tally'[i] = tally[i]
    BY <1>1, <2>1
  <2>3. \A i \in 1 .. Len(orders) + 1 : i = Len(orders) + 1 \/ i \in DOMAIN orders
    BY <1>1
  <2> QED
    BY <2>1, <2>2, <2>3 DEF AllPrompt
<1> QED
  BY <1>2, <1>3, StepKinds

(***************************************************************************)
(* Orders that must trade at once never rest, fill-or-kill orders fill     *)
(* entirely or not at all, and post-only orders never take.                *)
(***************************************************************************)
THEOREM Promptness == Spec => []ImmediateOrPassive
<1>1. Init => AllPrompt
  BY DEF Init, AllPrompt
<1>2. Inv /\ AllPrompt /\ [Next]_vars => AllPrompt'
  BY PromptStep
<1>3. AllPrompt => ImmediateOrPassive
  BY DEF AllPrompt, Prompt, ImmediateOrPassive
<1> QED
  BY <1>1, <1>2, <1>3, InvHolds, PTL DEF Spec

-----------------------------------------------------------------------------
(***************************************************************************)
(* How a print is shared out.                                              *)
(***************************************************************************)

\* What order i gets of a print is part of what it is given, and an order
\* that is given all that it claims is filled.
LEMMA GivenIsFilled ==
  ASSUME NEW o \in Order, IsOpen(o), o.price \in Prices, o.remaining > 0,
         NEW pr \in TradePrint, NEW n \in Nat, n > 0, n <= Claim(o, pr),
         NEW f, f = Filled(Dequeued(o, pr, n), n - ToQueue(o, pr, n))
  PROVE  /\ f.remaining = o.remaining - (n - ToQueue(o, pr, n))
         /\ o.remaining - f.remaining <= n
         /\ n = Claim(o, pr) => f.status = "filled"
<1> DEFINE fill == n - ToQueue(o, pr, n)
           d == Dequeued(o, pr, n)
<1>1. o.remaining \in Nat /\ o.ahead \in Nat
  BY DEF Order
<1>2. /\ fill \in 0 .. o.remaining /\ fill <= n /\ d \in Order
      /\ d.remaining = o.remaining /\ d.status = o.status
  BY PrintFacts
<1>3. n = Claim(o, pr) => fill = o.remaining
  BY <1>1 DEF Claim, ToQueue, Least
<1> HIDE DEF d, fill
<1>4. IsOpen(d) /\ fill \in 0 .. d.remaining
  BY <1>2 DEF IsOpen
<1>5. /\ Filled(d, fill).remaining = d.remaining - fill
      /\ Filled(d, fill).status = IF fill = d.remaining THEN "filled" ELSE "open"
  BY <1>2, <1>4, FilledFacts
<1>6. f = Filled(d, fill)
  BY DEF d, fill
<1>7. f.remaining = o.remaining - fill /\ o.remaining - f.remaining <= n
  BY <1>1, <1>2, <1>5, <1>6
<1>8. n = Claim(o, pr) => f.status = "filled"
  BY <1>2, <1>3, <1>5, <1>6
<1> QED
  BY <1>7, <1>8 DEF fill

LEMMA PrintShares ==
  ASSUME Inv, NEW pr \in Prints, OnTradePrint(pr)
  PROVE  /\ SumFunction([i \in DOMAIN orders |-> orders[i].remaining - orders'[i].remaining])
              <= pr.size
         /\ \A i, j \in OpenOn(pr.token) :
              /\ \/ orders[i].created < orders[j].created
                 \/ orders[i].created = orders[j].created /\ i < j
              /\ orders[i].side = orders[j].side /\ orders[i].price = orders[j].price
              /\ orders[j].remaining - orders'[j].remaining > 0
              => orders'[i].status = "filled"
<1>1. PICK got \in [DOMAIN orders -> 0 .. pr.size] :
        /\ SumFunction(got) <= pr.size
        /\ \A i \in DOMAIN orders :
             /\ got[i] > 0 => i \in OpenOn(pr.token) /\ got[i] <= Claim(orders[i], pr)
             /\ got[i] > 0 => \A j \in Earlier(pr.token)[i] : got[j] = Claim(orders[j], pr)
             /\ orders'[i] = IF got[i] > 0
                             THEN Filled(Dequeued(orders[i], pr, got[i]),
                                         got[i] - ToQueue(orders[i], pr, got[i]))
                             ELSE orders[i]
  BY PrintGiven
<1>2. pr \in TradePrint /\ pr.size \in Nat
  BY ExecutionAssumption DEF TradePrint
<1>3. /\ Len(orders) \in Nat /\ DOMAIN orders = 1 .. Len(orders)
      /\ \A i \in DOMAIN orders : /\ orders[i] \in Order
                                  /\ orders[i].remaining \in Nat /\ orders[i].ahead \in Nat
                                  /\ got[i] \in Nat
                                  /\ Good(orders[i], tally[i], books[orders[i].token])
  BY <1>1, <1>2, Domains DEF Inv, Order
<1>4. ASSUME NEW i \in DOMAIN orders
      PROVE  /\ orders[i].remaining - orders'[i].remaining \in Int
             /\ orders[i].remaining - orders'[i].remaining <= got[i]
             /\ orders[i].remaining - orders'[i].remaining > 0 => got[i] > 0
             /\ got[i] > 0 /\ got[i] = Claim(orders[i], pr) => orders'[i].status = "filled"
  <2>1. CASE got[i] > 0
    <3>1. /\ IsOpen(orders[i]) /\ orders[i].price \in Prices /\ orders[i].remaining > 0
          /\ got[i] <= Claim(orders[i], pr)
      BY <1>1, <1>3, <2>1 DEF OpenOn, Good
    <3>2. got[i] - ToQueue(orders[i], pr, got[i]) \in Int
      BY <1>2, <1>3, <2>1, <3>1, PrintFacts
    <3> QED
      BY <1>1, <1>2, <1>3, <2>1, <3>1, <3>2, GivenIsFilled
  <2>2. CASE ~(got[i] > 0)
    BY <1>1, <1>3, <2>2
  <2> QED
    BY <2>1, <2>2
<1> DEFINE filled == [i \in DOMAIN orders |-> orders[i].remaining - orders'[i].remaining]
<1>5. SumFunction(filled) <= pr.size
  <2>1. \A i \in DOMAIN orders : filled[i] \in Int /\ got[i] \in Int /\ filled[i] <= got[i]
    BY <1>3, <1>4
  <2>2. IsFiniteSet(DOMAIN orders)
    BY <1>3, FS_Interval
  <2>3. DOMAIN filled = DOMAIN orders /\ DOMAIN got = DOMAIN orders
    OBVIOUS
  <2> HIDE DEF filled
  <2>4. SumFunctionOnSet(filled, DOMAIN orders) <= SumFunctionOnSet(got, DOMAIN orders)
    BY <2>1, <2>2, SumIsMonotone
  <2>5. /\ SumFunctionOnSet(filled, DOMAIN orders) \in Int
        /\ SumFunctionOnSet(got, DOMAIN orders) \in Int
    BY <2>1, <2>2, SumIsInt
  <2> QED
    BY <1>1, <1>2, <2>3, <2>4, <2>5, SumNamed
<1>6. ASSUME NEW i \in OpenOn(pr.token), NEW j \in OpenOn(pr.token),
             \/ orders[i].created < orders[j].created
             \/ orders[i].created = orders[j].created /\ i < j,
             orders[i].side = orders[j].side, orders[i].price = orders[j].price,
             orders[j].remaining - orders'[j].remaining > 0
      PROVE  orders'[i].status = "filled"
  <2>1. i \in DOMAIN orders /\ j \in DOMAIN orders /\ i \in Earlier(pr.token)[j]
    BY <1>6 DEF OpenOn, Earlier
  <2>2. got[j] > 0 /\ got[i] = Claim(orders[i], pr)
    BY <1>1, <1>4, <1>6, <2>1
  <2>3. got[j] <= Claim(orders[j], pr)
    BY <1>1, <2>1, <2>2
  <2>4. orders[i].remaining > 0
    BY <1>3, <1>6, <2>1 DEF OpenOn, Good
  <2>5. Through(orders[j], pr.price) \/ (pr.price = orders[j].price /\ QueueModel)
    BY <1>3, <2>1, <2>2, <2>3 DEF Claim
  <2>6. Through(orders[i], pr.price) <=> Through(orders[j], pr.price)
    BY <1>6 DEF Through
  <2>7. Claim(orders[i], pr) > 0
    BY <1>3, <1>6, <2>1, <2>4, <2>5, <2>6 DEF Claim
  <2> QED
    BY <1>4, <2>1, <2>2, <2>7
<1> QED
  BY <1>5, <1>6

(***************************************************************************)
(* A print is shared out once and in time priority.                        *)
(***************************************************************************)
THEOREM SharedOut == Spec => PrintIsShared
<1> DEFINE Step ==
      \A pr \in Prints : OnTradePrint(pr) =>
        LET filled(i) == orders[i].remaining - orders'[i].remaining
        IN  /\ SumFunction([i \in DOMAIN orders |-> filled(i)]) <= pr.size
            /\ \A i, j \in OpenOn(pr.token) :
                 /\ \/ orders[i].created < orders[j].created
                    \/ orders[i].created = orders[j].created /\ i < j
                 /\ orders[i].side = orders[j].side /\ orders[i].price = orders[j].price
                 /\ filled(j) > 0
                 => orders'[i].status = "filled"
<1>1. Inv => Step
  BY PrintShares
<1>2. Inv /\ [Next]_vars => [Step]_vars
  BY <1>1
<1> QED
  BY <1>2, InvHolds, PTL DEF Spec, PrintIsShared

-----------------------------------------------------------------------------
(***************************************************************************)
(* How a taker walks the book.                                             *)
(***************************************************************************)

\* TakerWalksTheBook, for one submission.
Walks(r) ==
  LET o    == orders'[Len(orders')]
      was  == Opposite(o, books[r.token])
      is   == Opposite(o, books'[r.token])
      lost == [p \in Prices |-> was[p] - is[p]]
  IN  /\ SumFunction(lost) = tally'[Len(tally')].taken
      /\ \A p \in Prices : lost[p] > 0 =>
           /\ p = o.price \/ Through(o, p)
           /\ \A q \in Prices : Better(o, q, p) => is[q] = 0

LEMMA LastOnes ==
  ASSUME Inv, NEW f, NEW y, orders' = Append(orders, f), tally' = Append(tally, y)
  PROVE  orders'[Len(orders')] = f /\ tally'[Len(tally')] = y
BY DEF Inv, Types

LEMMA RefusedWalks ==
  ASSUME Inv, NEW r \in Requests, Refuse(r), books[r.token] # NoBook
  PROVE  Walks(r)
<1> DEFINE f == Close(NewOrder(r), "rejected")
           y == [taken |-> 0, made |-> 0, seen |-> 0]
           was == Opposite(f, books[r.token])
           lost == [p \in Prices |-> was[p] - was[p]]
<1>1. orders' = Append(orders, f) /\ tally' = Append(tally, y) /\ books' = books
  BY DEF Refuse
<1>2. orders'[Len(orders')] = f /\ tally'[Len(tally')] = y
  <2> HIDE DEF f, y
  <2> QED
    BY <1>1, LastOnes
<1>3. y.taken = 0
  OBVIOUS
<1>4. NewOrder(r) \in Order /\ NewOrder(r).token = r.token /\ r.token \in Tokens
  BY NewOrderFacts
<1>5. f \in Order
  BY <1>4, CloseFacts DEF Status
<1>6. books[r.token] \in Book
  BY <1>4 DEF Inv, Types
<1> HIDE DEF f
<1>7. was \in [Prices -> Nat]
  BY <1>5, <1>6, SidesOfBook DEF Side
<1> HIDE DEF was
<1>8. \A p \in Prices : lost[p] = 0
  BY <1>7
<1>9. SumFunction(lost) = 0
  <2>1. DOMAIN lost = Prices
    OBVIOUS
  <2> HIDE DEF lost
  <2>2. SumFunctionOnSet(lost, Prices) = SumFunctionOnSet(lost, {})
    BY <1>8, FinitePrices, SumWithoutZeros
  <2> QED
    BY <2>1, <2>2, SumNamed, SumOfNone
<1> HIDE DEF y
<1> QED
  BY <1>1, <1>2, <1>3, <1>8, <1>9 DEF Walks, was, lost

LEMMA AcceptedWalks ==
  ASSUME Inv, NEW r \in Requests, ~Refused(r), Accept(r), books[r.token] # NoBook
  PROVE  Walks(r)
<1> DEFINE o == NewOrder(r)
           b == books[r.token]
           prices == TakeablePrices(o)
<1>1. o \in Order /\ o.token = r.token /\ r.token \in Tokens /\ r.size \in Nat
  BY NewOrderFacts
<1>2. PICK take \in [Prices -> 0 .. r.size], taken \in 0 .. r.size, f \in Order :
        /\ taken = SumFunction(take)
        /\ \A p \in Prices \ prices : take[p] = 0
        /\ \A p \in prices : take[p] <= Opposite(o, b)[p]
        /\ \A p \in Prices : take[p] > 0 =>
             \A q \in prices : Better(o, q, p) => take[q] = Opposite(o, b)[q]
        /\ orders' = Append(orders, f) /\ SameTerms(o, f)
        /\ tally' = Append(tally, [taken |-> taken, made |-> 0, seen |-> 0])
        /\ books' = [books EXCEPT ![r.token] = Consumed(o, b, take)]
  BY AcceptFacts
<1> DEFINE y == [taken |-> taken, made |-> 0, seen |-> 0]
           was == Opposite(f, b)
           is == Opposite(f, books'[r.token])
           lost == [p \in Prices |-> was[p] - is[p]]
<1>3. y.taken = taken
  OBVIOUS
<1>4. orders'[Len(orders')] = f /\ tally'[Len(tally')] = y
  <2> HIDE DEF y
  <2> QED
    BY <1>2, LastOnes DEF y
<1>5. b \in Book /\ books'[r.token] = Consumed(o, b, take)
  BY <1>1, <1>2 DEF Inv, Types
<1>6. prices = Crossing(o, b) /\ prices \subseteq Prices
  BY <1>1 DEF TakeablePrices, Crossing
<1>7. /\ was = Opposite(o, b) /\ was \in [Prices -> Nat]
      /\ is = Opposite(o, Consumed(o, b, take))
      /\ f.price = o.price /\ \A p : Through(f, p) <=> Through(o, p)
      /\ \A p, q : Better(f, q, p) <=> Better(o, q, p)
  <2> HIDE DEF o, b
  <2>1. Opposite(o, b) \in [Prices -> Nat]
    BY <1>1, <1>5, SidesOfBook DEF Side
  <2> QED
    BY <1>2, <1>5, <2>1 DEF SameTerms, Opposite, Through, Better
<1> HIDE DEF o, b, was, is
<1>8. take \in [Prices -> Nat] /\ \A p \in Prices : take[p] <= was[p]
  <2>1. take \in [Prices -> Nat]
    BY <1>1, <1>2
  <2>2. ASSUME NEW p \in Prices
        PROVE  take[p] <= was[p]
    <3>1. CASE p \in prices
      BY <1>2, <1>7, <3>1 DEF o, b
    <3>2. CASE p \notin prices
      <4>1. take[p] = 0
        BY <1>2, <3>2
      <4> QED
        BY <1>7, <4>1
    <3> QED
      BY <3>1, <3>2
  <2> QED
    BY <2>1, <2>2
<1>9. \A p \in Prices : is[p] = was[p] - take[p]
  BY <1>1, <1>5, <1>7, <1>8, ConsumedFacts
<1>10. \A p \in Prices : lost[p] = take[p]
  BY <1>7, <1>8, <1>9
<1>11. SumFunction(lost) = taken
  <2>1. DOMAIN lost = Prices /\ DOMAIN take = Prices
    BY <1>8
  <2>2. lost = take
    BY <1>8, <1>10
  <2> QED
    BY <1>2, <2>2
<1>12. ASSUME NEW p \in Prices, lost[p] > 0
       PROVE  /\ p = f.price \/ Through(f, p)
              /\ \A q \in Prices : Better(f, q, p) => is[q] = 0
  <2>1. take[p] > 0
    BY <1>10, <1>12
  <2>2. p \in prices
    BY <1>2, <2>1
  <2>3. p = f.price \/ Through(f, p)
    BY <1>6, <1>7, <2>2 DEF Crossing
  <2>4. ASSUME NEW q \in Prices, Better(f, q, p)
        PROVE  is[q] = 0
    <3>1. CASE q \in prices
      <4>1. take[q] = was[q]
        BY <1>2, <1>7, <2>1, <2>4, <3>1 DEF o, b
      <4> QED
        BY <1>7, <1>9, <4>1
    <3>2. CASE q \notin prices
      <4>1. Through(f, q)
        BY <1>2, <2>3, <2>4, ExecutionAssumption, SMTT(60) DEF Through, Better, Prices, Order
      <4>2. ~(was[q] > 0)
        BY <1>6, <1>7, <3>2, <4>1 DEF Crossing
      <4>3. take[q] = 0 /\ was[q] \in Nat
        BY <1>2, <1>7, <3>2
      <4> QED
        BY <1>9, <4>2, <4>3
    <3> QED
      BY <3>1, <3>2
  <2> QED
    BY <2>3, <2>4
<1> HIDE DEF y
<1> QED
  BY <1>3, <1>4, <1>11, <1>12 DEF Walks, was, is, lost, b

(***************************************************************************)
(* A taker takes the best prices first, none beyond its limit, and takes   *)
(* out of the book exactly what it is filled for.                          *)
(***************************************************************************)
THEOREM BestPricesFirst == Spec => TakerWalksTheBook
<1> DEFINE Step ==
      \A r \in Requests : Submit(r) /\ books[r.token] # NoBook =>
        LET o    == orders'[Len(orders')]
            was  == Opposite(o, books[r.token])
            is   == Opposite(o, books'[r.token])
            lost == [p \in Prices |-> was[p] - is[p]]
        IN  /\ SumFunction(lost) = tally'[Len(tally')].taken
            /\ \A p \in Prices : lost[p] > 0 =>
                 /\ p = o.price \/ Through(o, p)
                 /\ \A q \in Prices : Better(o, q, p) => is[q] = 0
<1>1. ASSUME Inv, NEW r \in Requests, Submit(r), books[r.token] # NoBook
      PROVE  Walks(r)
  <2>1. CASE Refused(r)
    BY <1>1, <2>1, RefusedWalks DEF Submit
  <2>2. CASE ~Refused(r)
    BY <1>1, <2>2, AcceptedWalks DEF Submit
  <2> QED
    BY <2>1, <2>2
<1>2. Inv => Step
  BY <1>1 DEF Walks
<1>3. Inv /\ [Next]_vars => [Step]_vars
  BY <1>2
<1> QED
  BY <1>3, InvHolds, PTL DEF Spec, TakerWalksTheBook
=============================================================================
