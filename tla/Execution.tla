------------------------------ MODULE Execution ------------------------------
(***************************************************************************)
(* The paper executor (src/paperfill/execution.py, class PaperExecutor)    *)
(* over the local order books (book.py).  One action per public method;    *)
(* each action is the whole method, and methods run to completion because  *)
(* the executor is called by a single thread.                              *)
(*                                                                         *)
(* Prices are whole ticks of a market whose outcome pays One, so the valid *)
(* prices are 1 .. One - 1.  A book side maps each price to the size       *)
(* resting there, 0 standing for a price absent from the dict.             *)
(***************************************************************************)
EXTENDS Integers, Sequences, FiniteSets, Functions

CONSTANTS
  Tokens,           \* the outcome tokens of the market
  One,              \* the payout of a winning share, in ticks
  NoBook,           \* marks a token with no entry in PaperExecutor.books
  NoExpiry,         \* Order.expires_at = None
  QueueModel,       \* MarketParams.queue_model
  AssumedAhead,     \* MarketParams.assumed_queue_ahead
  InitialParams,    \* tick size and minimum order size at construction
  Snapshots,        \* the book snapshots that market data may show
  Changes,          \* the changes of one level that market data may show
  Prints,           \* the trades that market data may show
  Requests,         \* the arguments submit may be called with
  Times,            \* readings of the clock
  MaxOrders         \* bound on the orders of one behaviour

VARIABLES
  books,            \* PaperExecutor.books
  params,           \* the mutable part of PaperExecutor.params
  orders,           \* PaperExecutor.orders; the id of an order is its index
  now,              \* what self.clock() returns
  tally             \* history: how the fills of each order came about

vars == <<books, params, orders, now, tally>>

-----------------------------------------------------------------------------

Prices == 1 .. One - 1
Side   == [Prices -> Nat]
Params == [tick : Nat \ {0}, min : Nat]

\* A book may leave tick and minimum order size unsaid (0 stands for None).
Book   == [bids : Side, asks : Side, tick : Nat, min : Nat]
TradePrint == [token : Tokens, price : Prices, size : Nat]
Change   == [token : Tokens, side : {"BUY", "SELL"}, price : Prices, size : Nat]
Request  == [token : Tokens, side : {"BUY", "SELL"}, price : Nat, size : Nat \ {0},
             type : {"GTC", "GTD", "FOK", "FAK"}, postOnly : BOOLEAN,
             expires : Nat \cup {NoExpiry}]

Status == {"open", "filled", "cancelled", "rejected", "expired"}

Order == [token : Tokens, side : {"BUY", "SELL"}, price : Nat, size : Nat \ {0},
          type : {"GTC", "GTD", "FOK", "FAK"}, postOnly : BOOLEAN,
          expires : Nat \cup {NoExpiry}, created : Nat, remaining : Nat,
          status : Status, crossed : BOOLEAN, ahead : Nat]

ASSUME ExecutionAssumption ==
  /\ One \in Nat
  /\ NoBook \notin Book
  /\ NoExpiry \notin Nat
  /\ QueueModel \in BOOLEAN
  /\ AssumedAhead \in Nat
  /\ InitialParams \in Params
  /\ Snapshots \subseteq Book
  /\ Changes \subseteq Change
  /\ Prints \subseteq TradePrint
  /\ Requests \subseteq Request
  /\ Times \subseteq Nat
  /\ MaxOrders \in Nat

Least(a, b) == IF a <= b THEN a ELSE b

\* Bug: each claimant is offered the whole amount.
BugSharesEach(amount, want, before) ==
  {[i \in DOMAIN want |-> Least(want[i], amount)]}

(***************************************************************************)
(* What the loops of both matching routines compute: amount is handed out  *)
(* first come, first served, where before[i] are those who come before i.  *)
(* Nobody gets more than it wants, nobody gets anything while one before   *)
(* it lacks something, and amount is used up unless everyone is satisfied. *)
(***************************************************************************)
Shares(amount, want, before) ==
  {u \in [DOMAIN want -> 0 .. amount] :
     /\ \A i \in DOMAIN want : u[i] <= want[i]
     /\ \A i \in DOMAIN want : u[i] > 0 => \A j \in before[i] : u[j] = want[j]
     /\ SumFunction(u) <= amount
     /\ u # want => SumFunction(u) = amount}

-----------------------------------------------------------------------------
(* Books, as one order sees them. *)

Same(o, b)     == IF o.side = "BUY" THEN b.bids ELSE b.asks
Opposite(o, b) == IF o.side = "BUY" THEN b.asks ELSE b.bids

\* Price p is strictly better for the order's counterparty than its own.
Through(o, p) == IF o.side = "BUY" THEN p < o.price ELSE p > o.price

\* The better of two opposite prices for an order of this side.
Better(o, p, q) == IF o.side = "BUY" THEN p < q ELSE p > q

\* The prices at which a new order would trade at once.
Crossing(o, b) ==
  {p \in Prices : Opposite(o, b)[p] > 0 /\ (p = o.price \/ Through(o, p))}

\* The book's best opposite price sits strictly through the order's price.
Crosses(o, b) ==
  /\ b # NoBook
  /\ \E p \in Prices : Opposite(o, b)[p] > 0 /\ Through(o, p)

\* The size resting at the best opposite price of a book that has one.
BestSize(o, b) ==
  LET best == CHOOSE p \in Prices :
                /\ Opposite(o, b)[p] > 0
                /\ \A q \in Prices : Better(o, q, p) => Opposite(o, b)[q] = 0
  IN  Opposite(o, b)[best]

-----------------------------------------------------------------------------
(* Orders. *)

IsOpen(o) == o.status = "open"

OpenOn(t) == {i \in DOMAIN orders : orders[i].token = t /\ IsOpen(orders[i])}

\* The open orders served before order i: by creation time, then by id.
Earlier(t) ==
  [i \in DOMAIN orders |->
     {j \in OpenOn(t) : \/ orders[j].created < orders[i].created
                        \/ orders[j].created = orders[i].created /\ j < i}]

\* Bug: any fill fills the order.
BugFilledAtOnce(o, n) ==
  IF n = 0 THEN o ELSE [o EXCEPT !.remaining = 0, !.status = "filled"]

\* Order o after a fill of n shares (n = 0: no fill).
Filled(o, n) ==
  IF n < o.remaining THEN [o EXCEPT !.remaining = @ - n]
                     ELSE [o EXCEPT !.remaining = 0, !.status = "filled"]

Close(o, status) == [o EXCEPT !.status = status, !.remaining = 0]

\* Bug: the price is only held against the tick, which 0 and One are on too.
BugOnTick(o) ==
  /\ o.price % params.tick = 0
  /\ o.size >= params.min
  /\ ~(o.type = "GTD" /\ o.expires = NoExpiry)
  /\ ~(o.postOnly /\ o.type \in {"FOK", "FAK"})

Valid(o) ==
  /\ o.price \in Prices
  /\ o.price % params.tick = 0
  /\ o.size >= params.min
  /\ ~(o.type = "GTD" /\ o.expires = NoExpiry)
  /\ ~(o.postOnly /\ o.type \in {"FOK", "FAK"})

NewOrder(r) ==
  [token |-> r.token, side |-> r.side, price |-> r.price, size |-> r.size,
   type |-> r.type, postOnly |-> r.postOnly, expires |-> r.expires,
   created |-> now, remaining |-> r.size, status |-> "open",
   crossed |-> FALSE, ahead |-> 0]

-----------------------------------------------------------------------------
(***************************************************************************)
(* History.  For every order: the shares it took and the shares it made,   *)
(* and the market volume that reached its price while it was resting: the  *)
(* prints at or through its price and the best opposite level each time a  *)
(* book comes to sit through it.  seen saturates at the order's size.      *)
(***************************************************************************)
Tally == [taken : Nat, made : Nat, seen : Nat]

See(i, volume) == Least(tally[i].seen + volume, orders[i].size)

-----------------------------------------------------------------------------
(* Market data. *)

\* Market parameters a book carries replace those of the executor.
Adopt(b) ==
  [tick |-> IF b.tick = 0 THEN params.tick ELSE b.tick,
   min  |-> IF b.min  = 0 THEN params.min  ELSE b.min]

\* Bug: the queue ahead grows with the level, as if newcomers went in front.
BugGrown(o, b) == IF QueueModel THEN Same(o, b)[o.price] ELSE o.ahead

\* The queue ahead of o cannot exceed what the book shows at its price.
Shrunk(o, b) ==
  IF QueueModel THEN Least(o.ahead, Same(o, b)[o.price]) ELSE o.ahead

\* Bug: the crossed flag is not consulted.
BugRearmed(o, b) == Crosses(o, b)

StartsCrossing(o, b) == Crosses(o, b) /\ ~o.crossed

(***************************************************************************)
(* _match_resting_against_book, for one order: when the book begins to sit *)
(* through its price the best opposite level first serves the queue ahead  *)
(* and then the order; while it stays there, nothing more is filled.       *)
(***************************************************************************)
QueueServed(o, b) ==
  IF StartsCrossing(o, b) /\ QueueModel
  THEN Least(BestSize(o, b), Shrunk(o, b)) ELSE 0

BookFill(o, b) ==
  IF StartsCrossing(o, b)
  THEN Least(o.remaining, BestSize(o, b) - QueueServed(o, b)) ELSE 0

Matched(o, b) ==
  Filled([o EXCEPT !.ahead   = Shrunk(o, b) - QueueServed(o, b),
                   !.crossed = Crosses(o, b)],
         BookFill(o, b))

\* on_book: b becomes the book of t and resting orders are matched with it.
OnBook(t, b) ==
  /\ books'  = [books EXCEPT ![t] = b]
  /\ params' = Adopt(b)
  /\ orders' = [i \in DOMAIN orders |->
                  IF i \in OpenOn(t) THEN Matched(orders[i], b) ELSE orders[i]]
  /\ tally'  = [i \in DOMAIN orders |->
                  IF i \in OpenOn(t)
                  THEN [taken |-> tally[i].taken,
                        made  |-> tally[i].made + BookFill(orders[i], b),
                        seen  |-> IF Crosses(orders[i], b) /\ ~Crosses(orders[i], books[t])
                                  THEN See(i, BestSize(orders[i], b)) ELSE tally[i].seen]
                  ELSE tally[i]]
  /\ UNCHANGED now

\* apply_price_change: the size resting at one price of one side is set.
WithLevel(b, c) ==
  IF c.side = "BUY" THEN [b EXCEPT !.bids[c.price] = c.size]
                    ELSE [b EXCEPT !.asks[c.price] = c.size]

\* A change is applied to the book in place, and on_book is called on it.
OnPriceChange(c) ==
  /\ books[c.token] # NoBook
  /\ OnBook(c.token, WithLevel(books[c.token], c))

\* The executor's books are emptied (by the runner, after a gap).
DropBooks ==
  /\ books' = [t \in Tokens |-> NoBook]
  /\ UNCHANGED <<params, orders, now, tally>>

\* What print pr may hand to order o: everything it lacks when the trade was
\* through its price, its queue and then what it lacks when it was at it.
Claim(o, pr) ==
  IF Through(o, pr.price) THEN o.remaining
  ELSE IF pr.price = o.price /\ QueueModel THEN o.ahead + o.remaining ELSE 0

\* The part of n shares of print pr that goes to the queue ahead of order o.
ToQueue(o, pr, n) == IF Through(o, pr.price) THEN 0 ELSE Least(n, o.ahead)

\* Order o after its queue took its part: a trade through clears the level.
Dequeued(o, pr, n) ==
  [o EXCEPT !.ahead = IF Through(o, pr.price) THEN 0 ELSE @ - ToQueue(o, pr, n)]

(***************************************************************************)
(* on_trade_print: the volume of the print is handed to the open orders of *)
(* the token in the order of their creation.                               *)
(***************************************************************************)
OnTradePrint(pr) ==
  LET claims == [i \in DOMAIN orders |->
                   IF i \in OpenOn(pr.token) THEN Claim(orders[i], pr) ELSE 0]
  IN  /\ \E got \in Shares(pr.size, claims, Earlier(pr.token)) :
           LET fill == [i \in DOMAIN orders |-> got[i] - ToQueue(orders[i], pr, got[i])]
           IN  /\ orders' = [i \in DOMAIN orders |->
                               IF got[i] > 0
                               THEN Filled(Dequeued(orders[i], pr, got[i]), fill[i])
                               ELSE orders[i]]
               /\ tally'  = [i \in DOMAIN orders |->
                               IF claims[i] > 0
                               THEN [taken |-> tally[i].taken,
                                     made  |-> tally[i].made + fill[i],
                                     seen  |-> See(i, pr.size)]
                               ELSE tally[i]]
      /\ UNCHANGED <<books, params, now>>

-----------------------------------------------------------------------------
(* Orders: submission, cancellation, expiry. *)

\* submit of an order that is refused: it is recorded, and nothing trades.
Refuse(r) ==
  /\ orders' = Append(orders, Close(NewOrder(r), "rejected"))
  /\ tally'  = Append(tally, [taken |-> 0, made |-> 0, seen |-> 0])
  /\ UNCHANGED <<books, params, now>>

\* The prices at which order o trades at once, from the best to the limit.
TakeablePrices(o) == IF books[o.token] = NoBook THEN {} ELSE Crossing(o, books[o.token])

Depth(o) ==
  IF books[o.token] = NoBook THEN 0
  ELSE SumFunctionOnSet(Opposite(o, books[o.token]), TakeablePrices(o))

\* Bug: the book keeps showing what a taker took.
BugBookKept(o, b, take) == b

\* Book b after shares take[p] were taken from the side opposite to o.
Consumed(o, b, take) ==
  IF o.side = "BUY" THEN [b EXCEPT !.asks = [p \in Prices |-> @[p] - take[p]]]
                    ELSE [b EXCEPT !.bids = [p \in Prices |-> @[p] - take[p]]]

\* The queue a resting order joins: the size shown at its price.
QueueAhead(o) ==
  IF ~QueueModel THEN 0
  ELSE IF books[o.token] = NoBook THEN AssumedAhead
  ELSE Same(o, books[o.token])[o.price]

\* Bug: the remainder of a fill-and-kill order rests.
BugRemainderRests(o) == IF IsOpen(o) THEN [o EXCEPT !.ahead = QueueAhead(o)] ELSE o

\* A new order after its taker fills: rested, filled, or its rest cancelled.
Settled(o) ==
  IF IsOpen(o) THEN IF o.type \in {"FOK", "FAK"}
                    THEN Close(o, "cancelled")
                    ELSE [o EXCEPT !.ahead = QueueAhead(o)]
               ELSE o

\* submit of an order that is accepted: it takes what the book offers up to
\* its price, best price first, and rests or is cancelled with the rest.
Accept(r) ==
  LET o      == NewOrder(r)
      prices == TakeablePrices(o)
      offer  == [p \in Prices |-> IF p \in prices THEN Opposite(o, books[r.token])[p] ELSE 0]
      before == [p \in Prices |-> {q \in prices : Better(o, q, p)}]
  IN  \E take \in Shares(r.size, offer, before), taken \in 0 .. r.size :
        /\ taken = SumFunction(take)
        /\ orders' = Append(orders, Settled(Filled(o, taken)))
        /\ tally'  = Append(tally, [taken |-> taken, made |-> 0, seen |-> 0])
        /\ books'  = IF books[r.token] = NoBook THEN books
                     ELSE [books EXCEPT ![r.token] = Consumed(o, @, take)]
        /\ UNCHANGED <<params, now>>

\* An order is refused when it is malformed, when it would take although it
\* is post-only, or when it cannot be filled completely although it must be.
Refused(r) ==
  LET o == NewOrder(r)
  IN  \/ ~Valid(o)
      \/ o.postOnly /\ TakeablePrices(o) # {}
      \/ o.type = "FOK" /\ Depth(o) < o.size

Submit(r) ==
  /\ Len(orders) < MaxOrders
  /\ IF Refused(r) THEN Refuse(r) ELSE Accept(r)

\* Bug: cancel does not look at the status.
BugCancelClosed(i) ==
  /\ orders' = [orders EXCEPT ![i] = Close(@, "cancelled")]
  /\ UNCHANGED <<books, params, now, tally>>

\* cancel: an order that is no longer open is left as it is.
Cancel(i) ==
  /\ orders' = [orders EXCEPT ![i] = IF IsOpen(@) THEN Close(@, "cancelled") ELSE @]
  /\ UNCHANGED <<books, params, now, tally>>

CancelAll ==
  /\ orders' = [i \in DOMAIN orders |->
                  IF IsOpen(orders[i]) THEN Close(orders[i], "cancelled") ELSE orders[i]]
  /\ UNCHANGED <<books, params, now, tally>>

Due(o, t) == IsOpen(o) /\ o.expires # NoExpiry /\ o.expires <= t

\* expire: an expired order keeps its remainder on record.
Expire(t) ==
  /\ orders' = [i \in DOMAIN orders |->
                  IF Due(orders[i], t) THEN [orders[i] EXCEPT !.status = "expired"]
                                       ELSE orders[i]]
  /\ UNCHANGED <<books, params, now, tally>>

\* The clock is the caller's: it shows the time of the latest event, which
\* may be earlier than that of the event before.
SetClock(t) ==
  /\ now' = t
  /\ UNCHANGED <<books, params, orders, tally>>

-----------------------------------------------------------------------------

Init ==
  /\ books  = [t \in Tokens |-> NoBook]
  /\ params = InitialParams
  /\ orders = << >>
  /\ tally  = << >>
  /\ now \in Times

Next ==
  \/ \E t \in Tokens, b \in Snapshots : OnBook(t, b)
  \/ \E c \in Changes : OnPriceChange(c)
  \/ DropBooks
  \/ \E pr \in Prints : OnTradePrint(pr)
  \/ \E r \in Requests : Submit(r)
  \/ \E i \in DOMAIN orders : Cancel(i)
  \/ CancelAll
  \/ \E t \in Times : Expire(t)
  \/ \E t \in Times : SetClock(t)

Spec == Init /\ [][Next]_vars
-----------------------------------------------------------------------------
(* Properties. *)

Types ==
  /\ books \in [Tokens -> Book \cup {NoBook}]
  /\ params \in Params
  /\ orders \in Seq(Order)
  /\ now \in Times
  /\ tally \in Seq(Tally)
  /\ DOMAIN tally = DOMAIN orders

OpenOrdersAreValid ==
  \A i \in DOMAIN orders :
    IsOpen(orders[i]) => orders[i].price \in Prices /\ orders[i].remaining > 0

(***************************************************************************)
(* Types; and an order that is open passed the validation of submit and    *)
(* has something left to fill: none whose price or size was refused, and   *)
(* none that was filled, cancelled or expired, is ever open.               *)
(***************************************************************************)
TypeOK == Types /\ OpenOrdersAreValid

(***************************************************************************)
(* Every share of an order is accounted for once: as taken, as made, or as *)
(* still to be filled.  A fill never exceeds what remains (_fill), and     *)
(* what cancellation writes off is not counted as filled.                  *)
(***************************************************************************)
Accounted(o, y) ==
  LET done == y.taken + y.made
  IN  /\ o.status \in {"open", "expired"} => done + o.remaining = o.size
      /\ o.status = "filled"    => done = o.size
      /\ o.status = "cancelled" => done < o.size
      /\ o.status = "rejected"  => done = 0

SharesAccountedFor == \A i \in DOMAIN orders : Accounted(orders[i], tally[i])

(***************************************************************************)
(* A resting order is never filled by more than the market volume that     *)
(* reached its price while it rested, however often the same crossing book *)
(* is shown again (_match_resting_against_book, "once per crossing") and   *)
(* however prints and books alternate.                                     *)
(***************************************************************************)
MakerFillsAreBacked == \A i \in DOMAIN orders : tally[i].made <= tally[i].seen

(***************************************************************************)
(* The queue is served first: an order that received a maker fill, from a  *)
(* print or from a book, has nobody left ahead of it, then and ever after. *)
(***************************************************************************)
QueueServedFirst ==
  \A i \in DOMAIN orders : tally[i].made > 0 => orders[i].ahead = 0

(***************************************************************************)
(* A maker's fill is earned: by volume that came, and after the queue.     *)
(***************************************************************************)
FillsAreEarned == MakerFillsAreBacked /\ QueueServedFirst

(***************************************************************************)
(* The crossed flag of an open order is never stale on the unsafe side:    *)
(* while the known book sits through the order's price, the flag is set,   *)
(* whatever takers did to the book in between.                             *)
(***************************************************************************)
CrossedFlagInSync ==
  \A i \in DOMAIN orders :
    IsOpen(orders[i]) /\ Crosses(orders[i], books[orders[i].token]) => orders[i].crossed

(***************************************************************************)
(* Orders that must trade at once never rest: FAK and FOK orders are       *)
(* closed when submit returns, FOK ones filled entirely or not at all, and *)
(* a post-only order never pays the taker fee.                             *)
(***************************************************************************)
ImmediateOrPassive ==
  \A i \in DOMAIN orders :
    /\ orders[i].type \in {"FAK", "FOK"} => orders[i].status \in Status \ {"open", "expired"}
    /\ orders[i].type = "FOK" => tally[i].taken \in {0, orders[i].size}
    /\ orders[i].postOnly => tally[i].taken = 0

(***************************************************************************)
(* A fill is taken once per crossing: an order that the old book already   *)
(* sat through gets nothing from a new book, whether a snapshot or a       *)
(* change in place, that still does.                                       *)
(***************************************************************************)
OncePerCrossing ==
  [][\A t \in Tokens : books'[t] # NoBook /\ OnBook(t, books'[t]) =>
       \A i \in OpenOn(t) :
         Crosses(orders[i], books[t]) /\ Crosses(orders[i], books'[t]) =>
           orders'[i].remaining = orders[i].remaining]_vars

(***************************************************************************)
(* A print is shared out once and in time priority (execution.py:134-155): *)
(* its fills never exceed its volume, summed over all orders, and an order *)
(* is filled only when every older one of its side and price is done.      *)
(***************************************************************************)
PrintIsShared ==
  [][\A pr \in Prints : OnTradePrint(pr) =>
       LET filled(i) == orders[i].remaining - orders'[i].remaining
       IN  /\ SumFunction([i \in DOMAIN orders |-> filled(i)]) <= pr.size
           /\ \A i, j \in OpenOn(pr.token) :
                /\ \/ orders[i].created < orders[j].created
                   \/ orders[i].created = orders[j].created /\ i < j
                /\ orders[i].side = orders[j].side /\ orders[i].price = orders[j].price
                /\ filled(j) > 0
                => orders'[i].status = "filled"]_vars

(***************************************************************************)
(* A taker walks the book from its best price: it eats into a level only   *)
(* when the levels better than it are gone, it trades at no price beyond   *)
(* its limit, and the book loses exactly what the order took.              *)
(***************************************************************************)
TakerWalksTheBook ==
  [][\A r \in Requests : Submit(r) /\ books[r.token] # NoBook =>
       LET o    == orders'[Len(orders')]
           was  == Opposite(o, books[r.token])
           is   == Opposite(o, books'[r.token])
           lost == [p \in Prices |-> was[p] - is[p]]
       IN  /\ SumFunction(lost) = tally'[Len(tally')].taken
           /\ \A p \in Prices : lost[p] > 0 =>
                /\ p = o.price \/ Through(o, p)
                /\ \A q \in Prices : Better(o, q, p) => is[q] = 0]_vars

\* What the life of an order looks like from outside.
Ledger ==
  INSTANCE OrderLedger WITH
    ledger <- [i \in DOMAIN orders |-> [size      |-> orders[i].size,
                                        remaining |-> orders[i].remaining,
                                        status    |-> orders[i].status]]

(***************************************************************************)
(* The executor implements the order ledger: fills only shrink open        *)
(* orders, and a closed order is final, whatever is called afterwards.     *)
(***************************************************************************)
ImplementsLedger == Ledger!Spec

=============================================================================
