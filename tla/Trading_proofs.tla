---------------------------- MODULE Trading_proofs ----------------------------
(***************************************************************************)
(* Theorems about Trading, for every size of market, limits, tape and      *)
(* strategy.  They all follow from one inductive invariant, Inv.           *)
(***************************************************************************)
EXTENDS Trading, Sums, TLAPS

Alive == {"event", "fills", "lifecycle", "breakers", "tick", "failed"}

\* An open order that the next expiry would find due.
Due(o) == IsOpen(o) /\ o.expires # NoExpiry /\ o.expires <= now

\* Where the loop stands tells whether the run has halted.
PhaseTellsHalt ==
  /\ phase \in Alive => halted = "no" /\ mode # "halted"
  /\ phase = "closing" => halted # "no"
  /\ mode = "halted" => \A i \in DOMAIN orders : ~IsOpen(orders[i])

\* Once expiry has been looked at, no open order is due until the next event.
NoneDue ==
  phase \in {"event", "breakers", "tick"} => \A i \in DOMAIN orders : ~Due(orders[i])

\* The kill file is raised in the current event or was seen by a later one.
KillSeen ==
  /\ \A i \in DOMAIN orders : orders[i].event <= events
  /\ halted = "kill" => raised # Unknown
  /\ raised # Unknown =>
       /\ raised <= events
       /\ \A i \in DOMAIN orders : orders[i].event <= raised
       /\ phase \in {"event", "tick"} => raised = events
       /\ phase = "ended" /\ events > raised => halted # "no"

Inv == TypeOK /\ BooksBalance /\ PhaseTellsHalt /\ NoneDue /\ KillSeen /\ OutcomeCounts

-----------------------------------------------------------------------------
(* Orders. *)

LEMMA CloseFacts ==
  ASSUME NEW o \in Order
  PROVE  /\ Close(o) \in Order
         /\ ~IsOpen(Close(o))
         /\ Close(o).event = o.event
  BY DEF Close, Order, IsOpen, Status

LEMMA ExpiredFacts ==
  ASSUME NEW o \in Order
  PROVE  /\ Expired(o) \in Order
         /\ ~Due(Expired(o))
         /\ IsOpen(Expired(o)) => IsOpen(o)
         /\ Expired(o).event = o.event
  BY DEF Expired, Due, Order, IsOpen, Status

LEMMA FilledFacts ==
  ASSUME NEW o \in Order, IsOpen(o), NEW n \in 1 .. o.remaining
  PROVE  /\ Filled(o, n) \in Order
         /\ Filled(o, n).event = o.event
         /\ Filled(o, n).expires = o.expires
<1>1. o.remaining - n \in Nat
  BY DEF Order
<1> DEFINE status == IF n = o.remaining THEN "filled" ELSE "open"
<1>2. status \in Status
  BY DEF Status
<1>3. Filled(o, n) = [o EXCEPT !.remaining = o.remaining - n, !.status = status]
  BY DEF Filled
<1> HIDE DEF status
<1> QED
  BY <1>1, <1>2, <1>3 DEF Order

-----------------------------------------------------------------------------
(* Money. *)

Money == /\ cash \in Int /\ realized \in Int
         /\ position \in [Tokens -> [size : Nat, cost : Int]]

\* The part of the invariant that speaks of the portfolio only.
Balanced == Money /\ BooksBalance

LEMMA BoughtKeepsBalance ==
  ASSUME TradingAssumption, Balanced, NEW t \in Tokens, NEW n \in Nat, NEW price \in Nat,
         NEW fee \in Nat, Bought(t, n, price, fee)
  PROVE  Balanced'
<1> DEFINE paid == n * price + fee
<1>1. paid \in Int
  OBVIOUS
<1>2. \A s \in Tokens : position[s].size \in Nat /\ position[s].cost \in Int
  BY DEF Balanced, Money
<1>3. cash' = cash - paid /\ realized' = realized
  BY DEF Bought
<1>4. position' = [position EXCEPT ![t] = [size |-> position[t].size + n,
                                           cost |-> position[t].cost + n * price + fee]]
  BY DEF Bought
<1>5. position[t].cost + n * price + fee = position[t].cost + paid
  BY <1>2
<1> HIDE DEF paid
<1>6. position' \in [Tokens -> [size : Nat, cost : Int]]
  BY <1>1, <1>2, <1>4, <1>5 DEF Balanced, Money
<1>7. \A s \in Tokens : position'[s].cost = position[s].cost + IF s = t THEN paid ELSE 0
  BY <1>1, <1>2, <1>4, <1>5 DEF Balanced, Money
<1>8. Yes # No /\ Tokens = {Yes, No} /\ Capital \in Nat
  BY DEF TradingAssumption, Tokens
<1> QED
  BY <1>1, <1>2, <1>3, <1>6, <1>7, <1>8 DEF Balanced, Money, BooksBalance

LEMMA SoldKeepsBalance ==
  ASSUME TradingAssumption, Balanced, NEW t \in Tokens, NEW n \in Nat \ {0}, NEW price \in Nat,
         n <= position[t].size, Sold(t, n, price)
  PROVE  Balanced'
<1> DEFINE basis == Average(position[t]) * n
           got   == n * price
<1>1. \A s \in Tokens : position[s].size \in Nat /\ position[s].cost \in Int
  BY DEF Balanced, Money
<1>2. Average(position[t]) \in Int
  <2>1. 2 * position[t].size \in Nat \ {0} /\ 2 * position[t].cost + position[t].size \in Int
    BY <1>1
  <2>2. \A a \in Int, b \in Nat \ {0} : a \div b \in Int
    OBVIOUS
  <2> QED
    BY <2>1, <2>2 DEF Average
<1>3. basis \in Int /\ got \in Int
  BY <1>2
<1>4. /\ cash' = cash + got
      /\ realized' = realized + got - basis
      /\ position' = [position EXCEPT ![t] = [size |-> position[t].size - n,
                                              cost |-> position[t].cost - basis]]
  BY DEF Sold
<1> HIDE DEF basis, got
<1>5. position[t].size - n \in Nat
  BY <1>1
<1>6. position' \in [Tokens -> [size : Nat, cost : Int]]
  BY <1>1, <1>3, <1>4, <1>5 DEF Balanced, Money
<1>7. \A s \in Tokens : position'[s].cost = position[s].cost - IF s = t THEN basis ELSE 0
  BY <1>1, <1>3, <1>4 DEF Balanced, Money
<1>8. Yes # No /\ Tokens = {Yes, No} /\ Capital \in Nat
  BY DEF TradingAssumption, Tokens
<1> QED
  BY <1>1, <1>3, <1>4, <1>6, <1>7, <1>8 DEF Balanced, Money, BooksBalance

LEMMA SettleKeepsBalance ==
  ASSUME TradingAssumption, Balanced, Settle
  PROVE  Balanced' /\ \A t \in Tokens : position'[t].size = 0
<1>1. \A s \in Tokens : position[s].size \in Nat /\ position[s].cost \in Int
  BY DEF Balanced, Money
<1>2. Yes # No /\ Tokens = {Yes, No} /\ Capital \in Nat /\ One \in Nat
  BY DEF TradingAssumption, Tokens
<1>3. \A t \in Tokens : Value(t) \in Int /\ (position[t].size = 0 => Value(t) = 0)
  BY <1>1, <1>2 DEF Value
<1>4. \A t \in Tokens : Gain(t) = IF position[t].size = 0 THEN 0 ELSE Value(t) - position[t].cost
  BY DEF Gain
<1>5. \A t \in Tokens : position'[t] = IF position[t].size = 0 THEN position[t]
                                       ELSE [size |-> 0, cost |-> 0]
  BY DEF Settle
<1>6. position' \in [Tokens -> [size : Nat, cost : Int]]
  BY <1>1 DEF Settle, Balanced, Money
<1>7. \A t \in Tokens :
        /\ position'[t].size = 0
        /\ position'[t].cost = IF position[t].size = 0 THEN position[t].cost ELSE 0
  BY <1>5
<1>8. \A t \in Tokens : Gain(t) \in Int /\ Gain(t) = Value(t) + position'[t].cost - position[t].cost
  BY <1>1, <1>3, <1>4, <1>7
<1>9. /\ cash' = cash + Value(Yes) + Value(No)
      /\ realized' = realized + Gain(Yes) + Gain(No)
  BY DEF Settle
<1>10. Balanced'
  <2>1. /\ Value(Yes) \in Int /\ Value(No) \in Int /\ Gain(Yes) \in Int /\ Gain(No) \in Int
        /\ position'[Yes].cost \in Int /\ position'[No].cost \in Int
        /\ position[Yes].cost \in Int /\ position[No].cost \in Int
        /\ Gain(Yes) = Value(Yes) + position'[Yes].cost - position[Yes].cost
        /\ Gain(No) = Value(No) + position'[No].cost - position[No].cost
    BY <1>1, <1>2, <1>3, <1>6, <1>8
  <2> QED
    BY <1>2, <1>6, <1>9, <2>1 DEF Balanced, Money, BooksBalance
<1> QED
  BY <1>7, <1>10
-----------------------------------------------------------------------------
(* The initial state. *)

LEMMA InitInv ==
  ASSUME TradingAssumption, Init
  PROVE  Inv
<1>1. TypeOK
  <2>1. << >> \in Seq(Order)
    OBVIOUS
  <2> QED
    BY <2>1 DEF TradingAssumption, Init, TypeOK, Tokens, Mark
<1>2. orders = << >> /\ DOMAIN orders = {}
  BY DEF Init
<1>3. PhaseTellsHalt /\ NoneDue /\ KillSeen /\ OutcomeCounts
  BY <1>2 DEF Init, PhaseTellsHalt, Alive, NoneDue, KillSeen, OutcomeCounts
<1>4. BooksBalance
  BY DEF Init, BooksBalance, Tokens, TradingAssumption
<1> QED
  BY <1>1, <1>3, <1>4 DEF Inv

-----------------------------------------------------------------------------
(* Steps.  What an event, a fill or a tick leaves alone is collected first. *)

\* What the type invariant says about the variables that carry no money and
\* no orders.
Rest ==
  /\ phase \in {"event", "fills", "lifecycle", "breakers", "tick", "closing", "ended", "failed"}
  /\ touched \subseteq Tokens
  /\ mids \in [Tokens -> Mark] /\ prints \in [Tokens -> Mark]
  /\ lastMarks \in [Tokens -> Mark] /\ judged \in [Tokens -> Mark]
  /\ mode \in {"normal", "paused", "halted"}
  /\ halted \in {"no", "kill", "loss"}
  /\ startEquity \in Int \cup {Unknown} /\ dayEquity \in Int \cup {Unknown}
  /\ day \in Nat \cup {Unknown}
  /\ now \in Times
  /\ events \in 0 .. MaxEvents
  /\ raised \in (0 .. MaxEvents) \cup {Unknown}

LEMMA TypeOKParts == TypeOK <=> orders \in Seq(Order) /\ Money /\ Rest
  BY DEF TypeOK, Money, Rest

\* The parts make up the invariant of the next state.
LEMMA Together ==
  ASSUME orders' \in Seq(Order), Rest', Money', BooksBalance',
         PhaseTellsHalt', NoneDue', KillSeen', OutcomeCounts'
  PROVE  Inv'
<1>1. TypeOK'
  BY DEF TypeOK, Money, Rest
<1> QED
  BY <1>1 DEF Inv

LEMMA MarksAreMarks ==
  ASSUME Rest
  PROVE  CurrentMarks \in [Tokens -> Mark]
  BY DEF Rest, CurrentMarks, Marks

LEMMA EquityIsInt ==
  ASSUME TradingAssumption, Rest, Money, NEW m \in [Tokens -> Mark]
  PROVE  Equity(m) \in Int
<1>1. \A t \in Tokens : m[t] # Unknown => m[t] \in Int /\ position[t].size \in Int
  BY DEF Mark, Money
<1>2. \A a, b \in Int : a * b \in Int
  OBVIOUS
<1>3. \A t \in Tokens : Worth(m, t) \in Int
  BY <1>1, <1>2 DEF Worth
<1>4. Yes \in Tokens /\ No \in Tokens /\ cash \in Int
  BY DEF Tokens, Money
<1> QED
  BY <1>3, <1>4 DEF Equity, Exposure

\* Cancelling everything, and expiring what is due, keep the orders typed.
LEMMA AllClosed ==
  ASSUME orders \in Seq(Order), orders' = [i \in DOMAIN orders |-> Close(orders[i])]
  PROVE  /\ orders' \in Seq(Order)
         /\ DOMAIN orders' = DOMAIN orders
         /\ \A i \in DOMAIN orders :
              ~IsOpen(orders'[i]) /\ orders'[i].event = orders[i].event
<1>1. \A i \in DOMAIN orders : orders[i] \in Order
  OBVIOUS
<1>2. \A i \in DOMAIN orders : Close(orders[i]) \in Order /\ orders'[i] = Close(orders[i])
  BY <1>1, CloseFacts
<1>3. \A i \in DOMAIN orders :
        ~IsOpen(Close(orders[i])) /\ Close(orders[i]).event = orders[i].event
  BY <1>1, CloseFacts
<1> QED
  BY <1>2, <1>3

LEMMA AllExpired ==
  ASSUME orders \in Seq(Order), orders' = [i \in DOMAIN orders |-> Expired(orders[i])]
  PROVE  /\ orders' \in Seq(Order)
         /\ DOMAIN orders' = DOMAIN orders
         /\ \A i \in DOMAIN orders :
              /\ ~Due(orders'[i])
              /\ IsOpen(orders'[i]) => IsOpen(orders[i])
              /\ orders'[i].event = orders[i].event
<1>1. \A i \in DOMAIN orders : orders[i] \in Order
  OBVIOUS
<1>2. \A i \in DOMAIN orders : Expired(orders[i]) \in Order /\ orders'[i] = Expired(orders[i])
  BY <1>1, ExpiredFacts
<1>3. \A i \in DOMAIN orders :
        /\ ~Due(Expired(orders[i]))
        /\ IsOpen(Expired(orders[i])) => IsOpen(orders[i])
        /\ Expired(orders[i]).event = orders[i].event
  BY <1>1, ExpiredFacts
<1> QED
  BY <1>2, <1>3

LEMMA SamePortfolio ==
  ASSUME Money, BooksBalance, UNCHANGED portfolio
  PROVE  Money' /\ BooksBalance'
  BY DEF Money, BooksBalance, portfolio

\* What an order may become without disturbing the invariant: it stays of
\* its event and does not come back to life.
LEMMA FlowKept ==
  ASSUME TypeOK, PhaseTellsHalt, KillSeen, orders' \in Seq(Order),
         DOMAIN orders' = DOMAIN orders,
         \A i \in DOMAIN orders : /\ orders'[i].event = orders[i].event
                                  /\ IsOpen(orders'[i]) => IsOpen(orders[i]),
         phase \in Alive, phase' \in Alive, UNCHANGED <<mode, halted, raised>>,
         events <= events', events' \in Nat,
         phase' \in {"event", "tick"} => phase \in {"event", "tick"} /\ events' = events
  PROVE  PhaseTellsHalt' /\ KillSeen' /\ OutcomeCounts'
<1>1. halted = "no" /\ mode # "halted"
  BY DEF PhaseTellsHalt
<1>2. PhaseTellsHalt'
  BY <1>1 DEF PhaseTellsHalt, Alive
<1>3. OutcomeCounts'
  BY DEF OutcomeCounts, Alive
<1>4. \A i \in DOMAIN orders : orders[i].event \in Nat /\ orders[i].event <= events
  <2>1. \A i \in DOMAIN orders : orders[i] \in Order
    BY DEF TypeOK
  <2>2. \A o \in Order : o.event \in Nat
    BY DEF Order
  <2> QED
    BY <2>1, <2>2 DEF KillSeen
<1>5. events \in Nat /\ (raised # Unknown => raised \in Nat)
  BY DEF TypeOK
<1>6. \A i \in DOMAIN orders' : orders'[i].event = orders[i].event
  OBVIOUS
<1>7. \A i \in DOMAIN orders' : orders'[i].event <= events'
  BY <1>4, <1>5, <1>6
<1>8. raised' # Unknown =>
        /\ raised' <= events'
        /\ \A i \in DOMAIN orders' : orders'[i].event <= raised'
        /\ phase' \in {"event", "tick"} => raised' = events'
  BY <1>5, <1>6 DEF KillSeen
<1>9. phase' # "ended"
  BY DEF Alive
<1>10. halted' = "no"
  BY <1>1
<1>11. KillSeen'
  BY <1>7, <1>8, <1>9, <1>10 DEF KillSeen
<1> QED
  BY <1>2, <1>3, <1>11

-----------------------------------------------------------------------------
(* Events. *)

LEMMA OnPrintKeeps ==
  ASSUME TradingAssumption, Inv, NEW trade \in Trades, NEW ts \in Times, OnPrint(trade, ts)
  PROVE  Inv'
<1> USE DEF Inv
<1>1. orders \in Seq(Order) /\ Money /\ Rest
  BY TypeOKParts
<1>2. trade.token \in Tokens /\ trade.price \in Mark
  BY DEF TradingAssumption, Trade, Mark
<1>3. Rest'
  <2>1. events' \in 0 .. MaxEvents
    BY <1>1 DEF OnPrint, NextEvent, Rest, TradingAssumption
  <2>2. prints' \in [Tokens -> Mark] /\ touched' \subseteq Tokens /\ now' \in Times
    BY <1>1, <1>2 DEF OnPrint, Rest
  <2> QED
    BY <1>1, <2>1, <2>2 DEF OnPrint, NextEvent, Rest, breakers
<1>4. Money' /\ BooksBalance'
  BY <1>1, SamePortfolio DEF OnPrint, NextEvent
<1>5. NoneDue'
  BY DEF OnPrint, NextEvent, NoneDue
<1>6. PhaseTellsHalt' /\ KillSeen' /\ OutcomeCounts'
  <2>1. /\ phase = "event" /\ phase' = "fills" /\ events' = events + 1 /\ events \in Nat
        /\ UNCHANGED <<orders, mode, halted, raised>>
    BY <1>1 DEF OnPrint, NextEvent, Rest
  <2> QED
    BY <1>1, <2>1, FlowKept DEF Alive
<1>7. orders' \in Seq(Order)
  BY <1>1 DEF OnPrint
<1> QED
  BY <1>3, <1>4, <1>5, <1>6, <1>7, Together

LEMMA OnBooksKeeps ==
  ASSUME TradingAssumption, Inv, NEW shown \in Books, NEW ts \in Times, OnBooks(shown, ts)
  PROVE  Inv'
<1> USE DEF Inv
<1>1. orders \in Seq(Order) /\ Money /\ Rest
  BY TypeOKParts
<1>2. PICK S \in SUBSET Tokens : shown \in [S -> (0 .. One) \cup {Unknown}]
  BY DEF TradingAssumption
<1>3. Rest'
  <2>1. events' \in 0 .. MaxEvents
    BY <1>1 DEF OnBooks, NextEvent, Rest, TradingAssumption
  <2>2. touched' \subseteq Tokens /\ now' \in Times
    BY <1>1, <1>2 DEF OnBooks, Rest
  <2>3. \A t \in Tokens : t \in DOMAIN shown => shown[t] \in Mark
    BY <1>2 DEF Mark, TradingAssumption
  <2>4. mids' \in [Tokens -> Mark]
    BY <1>1, <2>3 DEF OnBooks, Rest
  <2> QED
    BY <1>1, <2>1, <2>2, <2>4 DEF OnBooks, NextEvent, Rest, breakers
<1>4. Money' /\ BooksBalance'
  BY <1>1, SamePortfolio DEF OnBooks, NextEvent
<1>5. NoneDue'
  BY DEF OnBooks, NextEvent, NoneDue
<1>6. PhaseTellsHalt' /\ KillSeen' /\ OutcomeCounts'
  <2>1. /\ phase = "event" /\ phase' = "fills" /\ events' = events + 1 /\ events \in Nat
        /\ UNCHANGED <<orders, mode, halted, raised>>
    BY <1>1 DEF OnBooks, NextEvent, Rest
  <2> QED
    BY <1>1, <2>1, FlowKept DEF Alive
<1>7. orders' \in Seq(Order)
  BY <1>1 DEF OnBooks
<1> QED
  BY <1>3, <1>4, <1>5, <1>6, <1>7, Together

LEMMA OnGapKeeps ==
  ASSUME TradingAssumption, Inv, NEW ts \in Times, OnGap(ts)
  PROVE  Inv'
<1> USE DEF Inv
<1>1. orders \in Seq(Order) /\ Money /\ Rest
  BY TypeOKParts
<1>2. Rest'
  <2>1. events' \in 0 .. MaxEvents
    <3>1. events \in 0 .. MaxEvents
      BY <1>1 DEF Rest
    <3>2. events < MaxEvents /\ events' = events + 1
      BY DEF OnGap, NextEvent
    <3>3. MaxEvents \in Nat
      BY DEF TradingAssumption
    <3> QED
      BY <3>1, <3>2, <3>3
  <2>2. mids' \in [Tokens -> Mark]
    BY DEF OnGap, Mark
  <2> QED
    BY <1>1, <2>1, <2>2 DEF OnGap, NextEvent, Rest, breakers
<1>3. Money' /\ BooksBalance'
  BY <1>1, SamePortfolio DEF OnGap, NextEvent
<1>4. /\ orders' \in Seq(Order)
      /\ DOMAIN orders' = DOMAIN orders
      /\ \A i \in DOMAIN orders : ~IsOpen(orders'[i]) /\ orders'[i].event = orders[i].event
  BY <1>1, AllClosed DEF OnGap
<1>5. NoneDue'
  BY <1>4 DEF NoneDue, Due
<1>6. PhaseTellsHalt' /\ KillSeen' /\ OutcomeCounts'
  <2>1. /\ phase = "event" /\ phase' = "lifecycle" /\ events' = events + 1 /\ events \in Nat
        /\ UNCHANGED <<mode, halted, raised>>
    BY <1>1 DEF OnGap, NextEvent, Rest
  <2> QED
    BY <1>1, <1>4, <2>1, FlowKept DEF Alive
<1> QED
  BY <1>2, <1>3, <1>4, <1>5, <1>6, Together

LEMMA OnPriceKeeps ==
  ASSUME TradingAssumption, Inv, NEW ts \in Times, OnPrice(ts)
  PROVE  Inv'
<1> USE DEF Inv
<1>1. orders \in Seq(Order) /\ Money /\ Rest
  BY TypeOKParts
<1>2. Rest'
  <2>1. events' \in 0 .. MaxEvents
    <3>1. events \in 0 .. MaxEvents
      BY <1>1 DEF Rest
    <3>2. events < MaxEvents /\ events' = events + 1
      BY DEF OnPrice, NextEvent
    <3>3. MaxEvents \in Nat
      BY DEF TradingAssumption
    <3> QED
      BY <3>1, <3>2, <3>3
  <2> QED
    BY <1>1, <2>1 DEF OnPrice, NextEvent, Rest, breakers, market
<1>3. Money' /\ BooksBalance'
  BY <1>1, SamePortfolio DEF OnPrice, NextEvent
<1>4. NoneDue'
  BY DEF OnPrice, NextEvent, NoneDue
<1>5. PhaseTellsHalt' /\ KillSeen' /\ OutcomeCounts'
  <2>1. /\ phase = "event" /\ phase' = "lifecycle" /\ events' = events + 1 /\ events \in Nat
        /\ UNCHANGED <<orders, mode, halted, raised>>
    BY <1>1 DEF OnPrice, NextEvent, Rest
  <2> QED
    BY <1>1, <2>1, FlowKept DEF Alive
<1>6. orders' \in Seq(Order)
  BY <1>1 DEF OnPrice
<1> QED
  BY <1>2, <1>3, <1>4, <1>5, <1>6, Together

-----------------------------------------------------------------------------
(* Fills and expiry. *)

\* Replacing one order by what it may become is a flow in the sense above.
LEMMA OneReplaced ==
  ASSUME orders \in Seq(Order), NEW i \in DOMAIN orders, NEW o \in Order,
         orders' = [orders EXCEPT ![i] = o],
         o.event = orders[i].event, IsOpen(o) => IsOpen(orders[i])
  PROVE  /\ orders' \in Seq(Order)
         /\ DOMAIN orders' = DOMAIN orders
         /\ \A j \in DOMAIN orders : /\ orders'[j].event = orders[j].event
                                     /\ IsOpen(orders'[j]) => IsOpen(orders[j])
<1>1. \A j \in DOMAIN orders : orders'[j] = IF j = i THEN o ELSE orders[j]
  OBVIOUS
<1> QED
  BY <1>1

LEMMA ExecutedKeeps ==
  ASSUME TradingAssumption, TypeOK, PhaseTellsHalt, KillSeen, NEW i \in Open,
         NEW n \in 1 .. orders[i].remaining, Executed(i, n), phase' \in {"fills", "failed"}
  PROVE  orders' \in Seq(Order) /\ PhaseTellsHalt' /\ NoneDue' /\ KillSeen' /\ OutcomeCounts'
<1>1. orders \in Seq(Order) /\ i \in DOMAIN orders /\ IsOpen(orders[i]) /\ orders[i] \in Order
  BY DEF TypeOK, Open
<1>2. /\ Filled(orders[i], n) \in Order
      /\ Filled(orders[i], n).event = orders[i].event
  BY <1>1, FilledFacts
<1>3. orders' = [orders EXCEPT ![i] = Filled(orders[i], n)]
  BY DEF Executed
<1>4. /\ orders' \in Seq(Order)
      /\ DOMAIN orders' = DOMAIN orders
      /\ \A j \in DOMAIN orders : /\ orders'[j].event = orders[j].event
                                  /\ IsOpen(orders'[j]) => IsOpen(orders[j])
  BY <1>1, <1>2, <1>3, OneReplaced
<1>5. NoneDue'
  BY DEF NoneDue
<1>6. /\ phase \in Alive /\ phase' \in Alive /\ events' = events /\ events \in Nat
      /\ UNCHANGED <<mode, halted, raised>> /\ phase' \notin {"event", "tick"}
  BY SMTT(60) DEF Executed, Alive, TypeOK
<1> QED
  BY <1>4, <1>5, <1>6, FlowKept

LEMMA OnFillKeeps ==
  ASSUME TradingAssumption, Inv, NEW i \in Open, NEW n \in 1 .. orders[i].remaining,
         OnFill(i, n)
  PROVE  Inv'
<1>1. orders \in Seq(Order) /\ Money /\ Rest
  BY TypeOKParts DEF Inv
<1>2. Executed(i, n) /\ ~Oversold(i, n) /\ phase = "fills" /\ phase' = "fills"
  BY DEF OnFill, Executed
<1>3. orders' \in Seq(Order) /\ PhaseTellsHalt' /\ NoneDue' /\ KillSeen' /\ OutcomeCounts'
  BY <1>2, ExecutedKeeps DEF Inv
<1>4. Rest'
  BY <1>1, <1>2, MarksAreMarks DEF OnFill, Executed, Rest, breakers, market
<1>5. /\ orders[i].token \in Tokens /\ orders[i].price \in Nat /\ orders[i].remaining \in Nat
      /\ orders[i].side \in {"BUY", "SELL"} /\ n \in Nat \ {0}
  <2>1. orders[i] \in Order
    BY <1>1 DEF Open
  <2>2. One \in Nat
    BY DEF TradingAssumption
  <2> QED
    BY <2>1, <2>2 DEF Order
<1>6. Balanced'
  <2>1. Balanced
    BY <1>1 DEF Balanced, Inv
  <2>2. CASE orders[i].side = "BUY"
    <3>1. Bought(orders[i].token, n, orders[i].price, 0)
      BY <2>2 DEF OnFill
    <3>2. 0 \in Nat
      OBVIOUS
    <3> QED
      BY <1>5, <2>1, <3>1, <3>2, BoughtKeepsBalance
  <2>3. CASE orders[i].side = "SELL"
    <3>1. Sold(orders[i].token, n, orders[i].price)
      BY <2>3 DEF OnFill
    <3>2. n <= position[orders[i].token].size
      BY <1>1, <1>2, <1>5, <2>3, SMTT(60) DEF Oversold, Money
    <3> QED
      BY <1>5, <2>1, <3>1, <3>2, SoldKeepsBalance
  <2> QED
    BY <1>5, <2>2, <2>3
<1> QED
  BY <1>3, <1>4, <1>6, Together DEF Balanced

LEMMA OnOversoldKeeps ==
  ASSUME TradingAssumption, Inv, NEW i \in Open, NEW n \in 1 .. orders[i].remaining,
         OnOversold(i, n)
  PROVE  Inv'
<1>1. Money /\ Rest
  BY TypeOKParts DEF Inv
<1>2. Executed(i, n) /\ phase' = "failed"
  BY DEF OnOversold
<1>3. orders' \in Seq(Order) /\ PhaseTellsHalt' /\ NoneDue' /\ KillSeen' /\ OutcomeCounts'
  BY <1>2, ExecutedKeeps DEF Inv
<1>4. Rest'
  BY <1>1, <1>2 DEF OnOversold, Executed, Rest, breakers, market
<1>5. Money' /\ BooksBalance'
  BY <1>1, SamePortfolio DEF OnOversold, Inv
<1> QED
  BY <1>3, <1>4, <1>5, Together

LEMMA FillsDoneKeeps ==
  ASSUME Inv, FillsDone
  PROVE  Inv'
<1>1. orders \in Seq(Order) /\ Money /\ Rest
  BY TypeOKParts DEF Inv
<1>2. Rest'
  BY <1>1 DEF FillsDone, Rest, breakers, market
<1>3. Money' /\ BooksBalance'
  BY <1>1, SamePortfolio DEF FillsDone, Inv
<1>4. NoneDue'
  BY DEF FillsDone, NoneDue
<1>5. PhaseTellsHalt' /\ KillSeen' /\ OutcomeCounts'
  <2>1. /\ phase = "fills" /\ phase' = "lifecycle" /\ events' = events /\ events \in Nat
        /\ UNCHANGED <<orders, mode, halted, raised>>
    BY <1>1 DEF FillsDone, Rest
  <2> QED
    BY <1>1, <2>1, FlowKept DEF Alive, Inv
<1>6. orders' \in Seq(Order)
  BY <1>1 DEF FillsDone
<1> QED
  BY <1>2, <1>3, <1>4, <1>5, <1>6, Together

LEMMA ExpireDueKeeps ==
  ASSUME Inv, ExpireDue
  PROVE  Inv'
<1>1. orders \in Seq(Order) /\ Money /\ Rest
  BY TypeOKParts DEF Inv
<1>2. Rest'
  BY <1>1 DEF ExpireDue, Rest, breakers, market
<1>3. Money' /\ BooksBalance'
  BY <1>1, SamePortfolio DEF ExpireDue, Inv
<1>4. /\ orders' \in Seq(Order)
      /\ DOMAIN orders' = DOMAIN orders
      /\ \A i \in DOMAIN orders : /\ ~Due(orders'[i])
                                  /\ IsOpen(orders'[i]) => IsOpen(orders[i])
                                  /\ orders'[i].event = orders[i].event
  BY <1>1, AllExpired DEF ExpireDue
<1>5. NoneDue'
  BY <1>4 DEF NoneDue, Due, ExpireDue
<1>6. PhaseTellsHalt' /\ KillSeen' /\ OutcomeCounts'
  <2>1. /\ phase = "lifecycle" /\ phase' = "breakers" /\ events' = events /\ events \in Nat
        /\ UNCHANGED <<mode, halted, raised>>
    BY <1>1 DEF ExpireDue, Rest
  <2> QED
    BY <1>4, <2>1, FlowKept DEF Alive, Inv
<1> QED
  BY <1>2, <1>3, <1>4, <1>5, <1>6, Together

-----------------------------------------------------------------------------
(* Breakers. *)

LEMMA BaselinesTyped ==
  ASSUME TradingAssumption, Rest, NEW equity \in Int, SetBaselines(equity)
  PROVE  /\ startEquity' \in Int \cup {Unknown} /\ dayEquity' \in Int \cup {Unknown}
         /\ day' \in Nat \cup {Unknown}
<1>1. Today \in Nat
  <2>1. now \in Nat /\ DayLength \in Nat \ {0}
    BY DEF Rest, TradingAssumption
  <2> QED
    BY <2>1 DEF Today
<1>2. DayBase(equity) \in Int \cup {Unknown}
  BY DEF DayBase, Rest
<1> QED
  BY <1>1, <1>2 DEF SetBaselines, Rest, breakers

LEMMA EvaluateKeeps ==
  ASSUME TradingAssumption, Inv, Evaluate
  PROVE  Inv'
<1> DEFINE equity == Equity(CurrentMarks)
<1>1. orders \in Seq(Order) /\ Money /\ Rest
  BY TypeOKParts DEF Inv
<1>2. CurrentMarks \in [Tokens -> Mark] /\ equity \in Int
  BY <1>1, MarksAreMarks, EquityIsInt
<1>3. SetBaselines(equity)
  BY DEF Evaluate
<1>4. /\ startEquity' \in Int \cup {Unknown} /\ dayEquity' \in Int \cup {Unknown}
      /\ day' \in Nat \cup {Unknown}
  <2> HIDE DEF equity
  <2> QED
    BY <1>1, <1>2, <1>3, BaselinesTyped
<1>5. Money' /\ BooksBalance'
  BY <1>1, SamePortfolio DEF Evaluate, Inv
<1>6. /\ phase = "breakers" /\ halted = "no" /\ mode # "halted"
      /\ UNCHANGED <<touched, market, now, events, raised>> /\ lastMarks' = CurrentMarks
  BY DEF Evaluate, Inv, PhaseTellsHalt, Alive
<1>7. /\ Verdict(equity) \in {"no", "kill", "loss"}
      /\ Verdict(equity) = "no" => raised = Unknown
      /\ Verdict(equity) = "kill" => raised # Unknown
  BY DEF Verdict
<1>8. CASE Verdict(equity) = "no"
  <2>1. /\ UNCHANGED <<orders, mode, halted>> /\ phase' \in {"tick", "event"}
        /\ judged' \in {judged, CurrentMarks}
    BY <1>8 DEF Evaluate, Proceed
  <2>2. Rest'
    BY <1>1, <1>2, <1>4, <1>6, <2>1 DEF Rest, market
  <2>3. PhaseTellsHalt' /\ OutcomeCounts'
    BY <1>6, <2>1 DEF PhaseTellsHalt, OutcomeCounts, Alive
  <2>4. NoneDue'
    BY <1>6, <2>1 DEF NoneDue, Due, Inv
  <2>5. KillSeen'
    BY <1>6, <1>7, <1>8, <2>1 DEF KillSeen, Inv
  <2>6. orders' \in Seq(Order)
    BY <1>1, <2>1
  <2> QED
    BY <1>5, <2>2, <2>3, <2>4, <2>5, <2>6, Together
<1>9. CASE Verdict(equity) # "no"
  <2>1. /\ halted' = Verdict(equity) /\ mode' = "halted" /\ phase' = "closing"
        /\ orders' = [i \in DOMAIN orders |-> Close(orders[i])]
        /\ UNCHANGED judged
    BY <1>9 DEF Evaluate, Halt
  <2>2. Rest'
    BY <1>1, <1>2, <1>4, <1>6, <1>7, <2>1 DEF Rest, market
  <2>3. /\ orders' \in Seq(Order)
        /\ DOMAIN orders' = DOMAIN orders
        /\ \A i \in DOMAIN orders : ~IsOpen(orders'[i]) /\ orders'[i].event = orders[i].event
    BY <1>1, <2>1, AllClosed
  <2>4. PhaseTellsHalt' /\ OutcomeCounts' /\ NoneDue'
    BY <1>9, <2>1, <2>3 DEF PhaseTellsHalt, OutcomeCounts, NoneDue, Alive
  <2>5. KillSeen'
    <3>1. \A i \in DOMAIN orders' :
            /\ orders'[i].event <= events'
            /\ raised' # Unknown => orders'[i].event <= raised'
      BY <1>6, <2>3 DEF KillSeen, Inv
    <3>2. raised' # Unknown => raised' <= events'
      BY <1>6 DEF KillSeen, Inv
    <3>3. halted' = "kill" => raised' # Unknown
      BY <1>6, <1>7, <2>1
    <3>4. phase' = "closing"
      BY <2>1
    <3> QED
      BY <3>1, <3>2, <3>3, <3>4 DEF KillSeen
  <2> QED
    BY <1>5, <2>2, <2>3, <2>4, <2>5, Together
<1> QED
  BY <1>8, <1>9

-----------------------------------------------------------------------------
(* The strategy's turn. *)

LEMMA SubmittedKeeps ==
  ASSUME TradingAssumption, TypeOK, PhaseTellsHalt, NoneDue, KillSeen,
         NEW t \in Tokens, NEW side \in {"BUY", "SELL"}, NEW price \in 1 .. One - 1,
         NEW size \in Nat \ {0}, NEW expires \in Nat \cup {NoExpiry}, NEW remaining \in Nat,
         NEW status \in Status,
         status = "open" /\ expires # NoExpiry => expires > now,
         Submitted(t, side, price, size, expires, remaining, status)
  PROVE  orders' \in Seq(Order) /\ PhaseTellsHalt' /\ NoneDue' /\ KillSeen' /\ OutcomeCounts'
<1> DEFINE new == [token |-> t, side |-> side, price |-> price, size |-> size,
                   remaining |-> remaining, status |-> status,
                   expires |-> expires, event |-> events]
<1>1. events \in Nat /\ now \in Nat /\ orders \in Seq(Order)
  BY DEF TypeOK, TradingAssumption
<1>2. /\ new \in Order /\ new.event = events
      /\ IsOpen(new) /\ new.expires # NoExpiry => ~(new.expires <= now)
  BY <1>1, SMTT(60) DEF Order, IsOpen, TradingAssumption
<1>3. /\ orders' = Append(orders, new) /\ phase = "tick" /\ mode = "normal"
      /\ UNCHANGED <<phase, mode, halted, now, events, raised>>
  BY DEF Submitted, Allowed
<1> HIDE DEF new
<1>4. orders' \in Seq(Order)
  BY <1>1, <1>2, <1>3
<1>5. \A i \in DOMAIN orders' : orders'[i] = new \/ (i \in DOMAIN orders /\ orders'[i] = orders[i])
  BY <1>1, <1>3, SMTT(60)
<1>6. PhaseTellsHalt' /\ OutcomeCounts'
  BY <1>3 DEF PhaseTellsHalt, OutcomeCounts, Alive
<1>7. NoneDue'
  <2>1. ~Due(new)
    BY <1>2 DEF Due
  <2>2. \A i \in DOMAIN orders : ~Due(orders[i])
    BY <1>3 DEF NoneDue
  <2>3. \A i \in DOMAIN orders' : ~Due(orders'[i])
    BY <1>5, <2>1, <2>2
  <2> QED
    BY <1>3, <2>3 DEF NoneDue, Due
<1>8. KillSeen'
  <2>1. raised # Unknown => raised = events
    BY <1>3 DEF KillSeen
  <2>2. \A i \in DOMAIN orders' : orders'[i].event <= events
    BY <1>1, <1>2, <1>5 DEF KillSeen
  <2> QED
    BY <1>1, <1>3, <2>1, <2>2 DEF KillSeen
<1> QED
  BY <1>4, <1>6, <1>7, <1>8

LEMMA OnQuoteKeeps ==
  ASSUME TradingAssumption, Inv, NEW q \in Quotes, OnQuote(q)
  PROVE  Inv'
<1> DEFINE expires == IF q.ttl = NoExpiry THEN NoExpiry ELSE now + q.ttl
<1>1. Money /\ Rest
  BY TypeOKParts DEF Inv
<1>2. /\ q.token \in Tokens /\ q.side \in {"BUY", "SELL"} /\ q.price \in 1 .. One - 1
      /\ q.size \in Nat \ {0} /\ q.ttl \in (Nat \ {0}) \cup {NoExpiry}
  BY DEF TradingAssumption, Quote
<1>3. now \in Nat
  BY <1>1 DEF Rest, TradingAssumption
<1>4. expires \in Nat \cup {NoExpiry} /\ (expires # NoExpiry => expires > now)
  BY <1>2, <1>3
<1>5. PICK remaining \in Nat, status \in Status :
        Submitted(q.token, q.side, q.price, q.size, expires, remaining, status)
  <2>1. 0 \in Nat /\ q.size \in Nat /\ "open" \in Status /\ "rejected" \in Status
    BY <1>2 DEF Status
  <2> QED
    BY <2>1 DEF OnQuote
<1> HIDE DEF expires
<1>6. orders' \in Seq(Order) /\ PhaseTellsHalt' /\ NoneDue' /\ KillSeen' /\ OutcomeCounts'
  BY <1>2, <1>4, <1>5, SubmittedKeeps DEF Inv
<1>7. Rest'
  BY <1>1, <1>5 DEF OnQuote, Submitted, Rest, breakers
<1>8. Money' /\ BooksBalance'
  BY <1>1, SamePortfolio DEF OnQuote, Inv
<1> QED
  BY <1>6, <1>7, <1>8, Together

LEMMA OnTakeKeeps ==
  ASSUME TradingAssumption, Inv, NEW k \in Takes, OnTake(k)
  PROVE  Inv'
<1>1. Money /\ Rest /\ Balanced
  BY TypeOKParts DEF Inv, Balanced
<1>2. k.token \in Tokens /\ k.limit \in 1 .. One - 1 /\ k.size \in Nat \ {0}
  BY DEF TradingAssumption, Take
<1>3. PICK status \in Status \ {"open"} :
        Submitted(k.token, "BUY", k.limit, k.size, NoExpiry, 0, status)
  <2>1. {"rejected", "cancelled", "filled"} \subseteq Status \ {"open"}
    BY DEF Status
  <2> QED
    BY <2>1 DEF OnTake
<1>4. orders' \in Seq(Order) /\ PhaseTellsHalt' /\ NoneDue' /\ KillSeen' /\ OutcomeCounts'
  <2>1. NoExpiry \in Nat \cup {NoExpiry} /\ 0 \in Nat /\ "BUY" \in {"BUY", "SELL"}
    OBVIOUS
  <2> QED
    BY <1>2, <1>3, <2>1, SubmittedKeeps DEF Inv
<1>5. mids' \in [Tokens -> Mark] /\ lastMarks' \in [Tokens -> Mark]
  <2>1. CASE UNCHANGED <<mids, lastMarks>>
    BY <1>1, <2>1 DEF Rest
  <2>2. CASE \E mid \in MidsAfterTake(k.token) :
               mids' = [mids EXCEPT ![k.token] = mid] /\ lastMarks' = Marks(mids')
    <3>1. MidsAfterTake(k.token) \subseteq Mark
      <4>1. mids[k.token] \in Mark /\ One \in Nat
        BY <1>1, <1>2 DEF Rest, TradingAssumption
      <4> QED
        BY <4>1 DEF MidsAfterTake, Mark
    <3>2. mids' \in [Tokens -> Mark]
      BY <1>1, <2>2, <3>1 DEF Rest
    <3>3. lastMarks' = [t \in Tokens |-> IF mids'[t] # Unknown THEN mids'[t]
                                        ELSE IF prints[t] # Unknown THEN prints[t]
                                        ELSE lastMarks[t]]
      BY <2>2 DEF Marks
    <3> QED
      BY <1>1, <3>2, <3>3 DEF Rest
  <2> QED
    BY <2>1, <2>2 DEF OnTake
<1>6. Rest'
  BY <1>1, <1>3, <1>5 DEF Submitted, Rest, breakers
<1>7. Money' /\ BooksBalance'
  <2>1. CASE UNCHANGED portfolio
    BY <1>1, <2>1, SamePortfolio DEF Inv
  <2>2. CASE \E n \in 1 .. k.size, price \in 1 .. k.limit :
               Bought(k.token, n, price, TakerFee(n, price))
    <3>1. PICK n \in 1 .. k.size, price \in 1 .. k.limit :
            Bought(k.token, n, price, TakerFee(n, price))
      BY <2>2
    <3>2. TakerFee(n, price) \in Nat
      BY DEF TradingAssumption
    <3>3. n \in Nat /\ price \in Nat
      BY <1>2
    <3> QED
      BY <1>1, <1>2, <3>1, <3>2, <3>3, BoughtKeepsBalance DEF Balanced
  <2> QED
    BY <2>1, <2>2 DEF OnTake
<1> QED
  BY <1>4, <1>6, <1>7, Together

LEMMA OnCancelKeeps ==
  ASSUME Inv, NEW i \in DOMAIN orders, OnCancel(i)
  PROVE  Inv'
<1>1. orders \in Seq(Order) /\ Money /\ Rest /\ orders[i] \in Order
  BY TypeOKParts DEF Inv
<1>2. Rest'
  BY <1>1 DEF OnCancel, Rest, breakers, market
<1>3. Money' /\ BooksBalance'
  BY <1>1, SamePortfolio DEF OnCancel, Inv
<1>4. /\ Close(orders[i]) \in Order /\ ~IsOpen(Close(orders[i]))
      /\ Close(orders[i]).event = orders[i].event
  BY <1>1, CloseFacts
<1>5. orders' = [orders EXCEPT ![i] = Close(orders[i])]
  BY DEF OnCancel
<1>6. /\ orders' \in Seq(Order)
      /\ DOMAIN orders' = DOMAIN orders
      /\ \A j \in DOMAIN orders : /\ orders'[j].event = orders[j].event
                                  /\ IsOpen(orders'[j]) => IsOpen(orders[j])
  BY <1>1, <1>4, <1>5, OneReplaced
<1>7. NoneDue'
  <2>1. phase = "tick" /\ now' = now /\ \A j \in DOMAIN orders : ~Due(orders[j])
    BY DEF OnCancel, NoneDue, Inv
  <2>2. \A j \in DOMAIN orders' : orders'[j] = orders[j] \/ ~IsOpen(orders'[j])
    BY <1>1, <1>4, <1>5
  <2> QED
    BY <1>6, <2>1, <2>2 DEF NoneDue, Due
<1>8. PhaseTellsHalt' /\ KillSeen' /\ OutcomeCounts'
  <2>1. /\ phase = "tick" /\ phase' = "tick" /\ events' = events /\ events \in Nat
        /\ UNCHANGED <<mode, halted, raised>>
    BY <1>1 DEF OnCancel, Rest
  <2> QED
    BY <1>6, <2>1, FlowKept DEF Alive, Inv
<1> QED
  BY <1>2, <1>3, <1>6, <1>7, <1>8, Together

LEMMA TickDoneKeeps ==
  ASSUME Inv, TickDone
  PROVE  Inv'
<1>1. orders \in Seq(Order) /\ Money /\ Rest
  BY TypeOKParts DEF Inv
<1>2. Rest'
  BY <1>1 DEF TickDone, Rest, breakers, market
<1>3. Money' /\ BooksBalance'
  BY <1>1, SamePortfolio DEF TickDone, Inv
<1>4. NoneDue'
  BY DEF TickDone, NoneDue, Due, Inv
<1>5. PhaseTellsHalt' /\ KillSeen' /\ OutcomeCounts'
  <2>1. /\ phase = "tick" /\ phase' = "event" /\ events' = events /\ events \in Nat
        /\ UNCHANGED <<orders, mode, halted, raised>>
    BY <1>1 DEF TickDone, Rest
  <2> QED
    BY <1>1, <2>1, FlowKept DEF Alive, Inv
<1>6. orders' \in Seq(Order)
  BY <1>1 DEF TickDone
<1> QED
  BY <1>2, <1>3, <1>4, <1>5, <1>6, Together

-----------------------------------------------------------------------------
(* The end of the run, and what comes from outside. *)

LEMMA FinishKeeps ==
  ASSUME TradingAssumption, Inv, Finish
  PROVE  Inv'
<1>1. orders \in Seq(Order) /\ Money /\ Rest /\ Balanced
  BY TypeOKParts DEF Inv, Balanced
<1>2. /\ phase \in {"closing", "event"} /\ phase' = "ended"
      /\ UNCHANGED <<mode, halted, events, raised>>
  BY DEF Finish
<1>3. Rest'
  BY <1>1, MarksAreMarks DEF Finish, Rest, breakers, market
<1>4. /\ orders' \in Seq(Order)
      /\ DOMAIN orders' = DOMAIN orders
      /\ \A i \in DOMAIN orders : ~IsOpen(orders'[i]) /\ orders'[i].event = orders[i].event
  BY <1>1, AllClosed DEF Finish
<1>5. /\ Money' /\ BooksBalance'
      /\ Settles => \A t \in Tokens : position'[t].size = 0
  <2>1. CASE Settles
    BY <1>1, <2>1, SettleKeepsBalance DEF Finish, Balanced
  <2>2. CASE ~Settles
    BY <1>1, <2>2, SamePortfolio DEF Finish, Inv
  <2> QED
    BY <2>1, <2>2
<1>6. NoneDue' /\ PhaseTellsHalt'
  BY <1>2, <1>4 DEF NoneDue, PhaseTellsHalt, Alive
<1>7. OutcomeCounts'
  <2>1. CASE Settles
    BY <1>5, <2>1 DEF OutcomeCounts
  <2>2. CASE ~Settles
    BY <1>2, <2>2 DEF OutcomeCounts, Settles, KillSeen, Inv
  <2> QED
    BY <2>1, <2>2
<1>8. KillSeen'
  <2>1. halted # "no" \/ (raised # Unknown => raised = events)
    BY <1>2 DEF KillSeen, PhaseTellsHalt, Alive, Inv
  <2>2. raised # Unknown /\ raised = events => ~(events > raised)
    BY <1>1 DEF Rest
  <2> QED
    BY <1>2, <1>4, <2>1, <2>2 DEF KillSeen, Inv
<1> QED
  BY <1>3, <1>4, <1>5, <1>6, <1>7, <1>8, Together

LEMMA RaiseKillKeeps ==
  ASSUME TradingAssumption, Inv, RaiseKill
  PROVE  Inv'
<1>1. orders \in Seq(Order) /\ Money /\ Rest
  BY TypeOKParts DEF Inv
<1>2. /\ UNCHANGED <<phase, orders, portfolio, mode, halted, now, events>>
      /\ raised = Unknown /\ raised' = events
  BY DEF RaiseKill
<1>3. events \in Nat /\ Unknown \notin Int
  BY <1>1 DEF Rest, TradingAssumption
<1>4. Rest'
  BY <1>1 DEF RaiseKill, Rest, breakers, market
<1>5. Money' /\ BooksBalance'
  BY <1>1, <1>2, SamePortfolio DEF Inv
<1>6. PhaseTellsHalt' /\ NoneDue'
  BY <1>2 DEF PhaseTellsHalt, NoneDue, Due, Inv
<1>7. OutcomeCounts'
  BY <1>2 DEF OutcomeCounts, KillSeen, Inv, portfolio
<1>8. KillSeen'
  BY <1>2, <1>3 DEF KillSeen, Inv
<1>9. orders' \in Seq(Order)
  BY <1>1, <1>2
<1> QED
  BY <1>4, <1>5, <1>6, <1>7, <1>8, <1>9, Together

LEMMA PauseOrResumeKeeps ==
  ASSUME Inv, Pause \/ Resume
  PROVE  Inv'
<1>1. orders \in Seq(Order) /\ Money /\ Rest
  BY TypeOKParts DEF Inv
<1>2. /\ UNCHANGED <<phase, orders, portfolio, halted, now, events, raised>>
      /\ mode' \in {"normal", "paused"}
  BY DEF Pause, Resume
<1>3. Rest'
  BY <1>1 DEF Pause, Resume, Rest, breakers, market
<1>4. Money' /\ BooksBalance'
  BY <1>1, <1>2, SamePortfolio DEF Inv
<1>5. PhaseTellsHalt' /\ NoneDue' /\ OutcomeCounts'
  BY <1>2 DEF PhaseTellsHalt, NoneDue, Due, OutcomeCounts, Inv, portfolio
<1>6. KillSeen'
  BY <1>2 DEF KillSeen, Inv
<1>7. orders' \in Seq(Order)
  BY <1>1, <1>2
<1> QED
  BY <1>3, <1>4, <1>5, <1>6, <1>7, Together

LEMMA StutterKeeps ==
  ASSUME Inv, UNCHANGED vars
  PROVE  Inv'
<1>1. orders \in Seq(Order) /\ Money /\ Rest
  BY TypeOKParts DEF Inv
<1>2. Rest'
  BY <1>1 DEF vars, Rest, breakers, market
<1>3. Money' /\ BooksBalance'
  BY <1>1, SamePortfolio DEF vars, Inv
<1>4. PhaseTellsHalt' /\ NoneDue' /\ OutcomeCounts' /\ KillSeen'
  BY DEF vars, PhaseTellsHalt, NoneDue, Due, OutcomeCounts, KillSeen, Inv, portfolio
<1>5. orders' \in Seq(Order)
  BY <1>1 DEF vars
<1> QED
  BY <1>2, <1>3, <1>4, <1>5, Together

-----------------------------------------------------------------------------
(* The theorems. *)

LEMMA NextKeeps ==
  ASSUME TradingAssumption, Inv, [Next]_vars
  PROVE  Inv'
<1>1. CASE OnEvent
  BY <1>1, OnPrintKeeps, OnBooksKeeps, OnGapKeeps, OnPriceKeeps DEF OnEvent
<1>2. CASE Fills
  BY <1>2, OnFillKeeps, OnOversoldKeeps, FillsDoneKeeps DEF Fills
<1>3. CASE ExpireDue
  BY <1>3, ExpireDueKeeps
<1>4. CASE Evaluate
  BY <1>4, EvaluateKeeps
<1>5. CASE Tick
  BY <1>5, OnQuoteKeeps, OnTakeKeeps, OnCancelKeeps, TickDoneKeeps DEF Tick
<1>6. CASE Finish
  BY <1>6, FinishKeeps
<1>7. CASE RaiseKill
  BY <1>7, RaiseKillKeeps
<1>8. CASE Pause \/ Resume
  BY <1>8, PauseOrResumeKeeps
<1>9. CASE UNCHANGED vars
  BY <1>9, StutterKeeps
<1> QED
  BY <1>1, <1>2, <1>3, <1>4, <1>5, <1>6, <1>7, <1>8, <1>9 DEF Next, Loop

(***************************************************************************)
(* The inductive invariant holds in every state of every run.              *)
(***************************************************************************)
THEOREM InvHolds == Spec => []Inv
<1>1. Init => Inv
  BY TradingAssumption, InitInv
<1>2. Inv /\ [Next]_vars => Inv'
  BY TradingAssumption, NextKeeps
<1> QED
  BY <1>1, <1>2, PTL DEF Spec

\* Every variable keeps its type.
THEOREM TypeCorrect == Spec => []TypeOK
<1>1. Inv => TypeOK
  BY DEF Inv
<1> QED
  BY <1>1, InvHolds, PTL

\* Cash, cost basis and realised profit balance over fills, fees, rounding
\* of the average cost, and settlement.
THEOREM Balance == Spec => []BooksBalance
<1>1. Inv => BooksBalance
  BY DEF Inv
<1> QED
  BY <1>1, InvHolds, PTL

\* A halted engine has no order on the book, whatever halted it and when.
THEOREM HaltIsFlat == Spec => []HaltedIsFlat
<1>1. Inv => HaltedIsFlat
  BY DEF Inv, PhaseTellsHalt, HaltedIsFlat, Open
<1> QED
  BY <1>1, InvHolds, PTL

\* The kill file stops the loop at the next event, however its appearance
\* interleaves with the steps of the loop.
THEOREM KillWorks == Spec => []KillObeyed
<1>1. Inv => KillObeyed
  BY DEF Inv, KillSeen, KillObeyed
<1> QED
  BY <1>1, InvHolds, PTL

\* No order is left past its expiry when the next event is read.
THEOREM ExpiryInTime == Spec => []NothingOverdue
<1>1. Inv => NothingOverdue
  <2> SUFFICES ASSUME Inv, phase = "event", NEW i \in Open, orders[i].expires # NoExpiry
               PROVE  orders[i].expires > now
    BY DEF NothingOverdue
  <2>1. orders[i] \in Order /\ IsOpen(orders[i]) /\ ~Due(orders[i]) /\ now \in Times
    BY DEF Inv, TypeOK, NoneDue, Open
  <2>2. orders[i].expires \in Nat /\ now \in Nat
    BY <2>1, TradingAssumption DEF Order
  <2> QED
    BY <2>1, <2>2 DEF Due
<1> QED
  BY <1>1, InvHolds, PTL

\* A known outcome is counted at the end unless the kill switch was used.
THEOREM OutcomeIsCounted == Spec => []OutcomeCounts
<1>1. Inv => OutcomeCounts
  BY DEF Inv
<1> QED
  BY <1>1, InvHolds, PTL

\* What stops a run stops all of it: nothing stays open, nothing is traded
\* after the kill file was seen, and a known outcome is counted.
THEOREM StopWorks == Spec => []StopObeyed
<1>1. HaltedIsFlat /\ KillObeyed /\ OutcomeCounts => StopObeyed
  BY DEF StopObeyed
<1> QED
  BY <1>1, HaltIsFlat, KillWorks, OutcomeIsCounted, PTL

-----------------------------------------------------------------------------
(* The limits.  What they need beyond themselves: no order has more left   *)
(* than it asked for, a cost basis is negative only by what rounding took  *)
(* from it, and the bound on the cost holds although a negative basis      *)
(* counts for nothing: a sale may bring it back to zero.                   *)

WithinSize == \A i \in DOMAIN orders : orders[i].remaining <= orders[i].size

SharesBound == \A t \in Tokens : position[t].size + SharesOf(Bids({t})) <= MaxPositionShares

RoundingBound == \A t \in Tokens : 0 <= 2 * position[t].cost + Shed(t)

Positive(x) == IF x < 0 THEN 0 ELSE x

CostBound ==
  \E fee \in Fees :
    2 * (Positive(position[Yes].cost) + Positive(position[No].cost) + NotionalOf(Bids(Tokens)))
      <= 2 * (MaxMarketNotional + fee) + Shed(Yes) + Shed(No)

Limits == WithinSize /\ SharesBound /\ RoundingBound /\ CostBound

\* The sell orders of a token, and the terms of the three sums.
Offers(t) == {i \in DOMAIN orders : orders[i].side = "SELL" /\ orders[i].token = t}

Left == [i \in DOMAIN orders |-> orders[i].remaining]
Asked == [i \in DOMAIN orders |-> orders[i].price * orders[i].remaining]
Gone == [i \in DOMAIN orders |-> orders[i].size - orders[i].remaining]

LEMMA SumsNamed ==
  /\ \A T : /\ SharesOf(Bids(T)) = SumFunctionOnSet(Left, Bids(T))
            /\ NotionalOf(Bids(T)) = SumFunctionOnSet(Asked, Bids(T))
            /\ SharesOf(Bids(T))' = SumFunctionOnSet(Left', Bids(T)')
            /\ NotionalOf(Bids(T))' = SumFunctionOnSet(Asked', Bids(T)')
  /\ \A t : /\ Shed(t) = SumFunctionOnSet(Gone, Offers(t))
            /\ Shed(t)' = SumFunctionOnSet(Gone', Offers(t)')
  BY DEF SharesOf, NotionalOf, Shed, Left, Asked, Gone, Offers

LEMMA TermsTyped ==
  ASSUME TradingAssumption, orders \in Seq(Order), WithinSize
  PROVE  \A i \in DOMAIN orders :
           /\ Left[i] \in Nat /\ Asked[i] \in Nat /\ Gone[i] \in Nat
           /\ orders[i].price \in Nat /\ orders[i].remaining \in Nat /\ orders[i].size \in Nat
<1> SUFFICES ASSUME NEW i \in DOMAIN orders
             PROVE  /\ Left[i] \in Nat /\ Asked[i] \in Nat /\ Gone[i] \in Nat
                    /\ orders[i].price \in Nat /\ orders[i].remaining \in Nat
                    /\ orders[i].size \in Nat
  OBVIOUS
<1>1. orders[i] \in Order /\ One \in Nat
  BY DEF TradingAssumption
<1>2. orders[i].price \in Nat /\ orders[i].remaining \in Nat /\ orders[i].size \in Nat
  BY <1>1 DEF Order
<1>3. orders[i].remaining <= orders[i].size
  BY DEF WithinSize
<1>4. \A a, b \in Nat : a * b \in Nat
  OBVIOUS
<1>5. /\ Left[i] = orders[i].remaining
      /\ Asked[i] = orders[i].price * orders[i].remaining
      /\ Gone[i] = orders[i].size - orders[i].remaining
  BY DEF Left, Asked, Gone
<1>6. Asked[i] \in Nat
  BY <1>2, <1>4, <1>5
<1>7. Gone[i] \in Nat
  BY <1>2, <1>3, <1>5
<1> QED
  BY <1>2, <1>5, <1>6, <1>7

LEMMA OrdersFinite ==
  ASSUME orders \in Seq(Order)
  PROVE  /\ IsFiniteSet(DOMAIN orders)
         /\ \A T : IsFiniteSet(Bids(T)) /\ Bids(T) \subseteq DOMAIN orders
         /\ \A t : IsFiniteSet(Offers(t)) /\ Offers(t) \subseteq DOMAIN orders
<1>1. IsFiniteSet(1 .. Len(orders)) /\ DOMAIN orders = 1 .. Len(orders)
  <2>1. Len(orders) \in Nat
    OBVIOUS
  <2> QED
    BY <2>1, FS_Interval
<1>2. \A T : Bids(T) \subseteq DOMAIN orders
  BY DEF Bids, Open
<1>3. \A t : Offers(t) \subseteq DOMAIN orders
  BY DEF Offers
<1> QED
  BY <1>1, <1>2, <1>3, FS_Subset

LEMMA SumsTyped ==
  ASSUME TradingAssumption, orders \in Seq(Order), WithinSize
  PROVE  /\ \A T : SharesOf(Bids(T)) \in Nat /\ NotionalOf(Bids(T)) \in Nat
         /\ \A t : Shed(t) \in Nat
<1>1. \A T : \A i \in Bids(T) : Left[i] \in Nat /\ Asked[i] \in Nat
  BY TermsTyped, OrdersFinite
<1>2. \A t : \A i \in Offers(t) : Gone[i] \in Nat
  BY TermsTyped, OrdersFinite
<1>3. \A T : SumFunctionOnSet(Left, Bids(T)) \in Nat /\ SumFunctionOnSet(Asked, Bids(T)) \in Nat
  BY <1>1, OrdersFinite, SumIsNat
<1>4. \A t : SumFunctionOnSet(Gone, Offers(t)) \in Nat
  BY <1>2, OrdersFinite, SumIsNat
<1> QED
  BY <1>3, <1>4, SumsNamed

LEMMA SumsTypedNext ==
  ASSUME TradingAssumption, orders' \in Seq(Order), WithinSize'
  PROVE  /\ \A T : SharesOf(Bids(T))' \in Nat /\ NotionalOf(Bids(T))' \in Nat
         /\ \A t : Shed(t)' \in Nat
<1>1. (TradingAssumption /\ orders \in Seq(Order) /\ WithinSize
         => /\ \A T : SharesOf(Bids(T)) \in Nat /\ NotionalOf(Bids(T)) \in Nat
            /\ \A t : Shed(t) \in Nat)'
  BY SumsTyped, PTL
<1> QED
  BY <1>1

\* What becomes of an order that is filled, cancelled or expired.
Shrunk(o, p) ==
  /\ p.token = o.token /\ p.side = o.side /\ p.price = o.price /\ p.size = o.size
  /\ p.remaining <= o.remaining
  /\ IsOpen(p) => IsOpen(o)

Shrinking ==
  /\ orders \in Seq(Order) /\ orders' \in Seq(Order)
  /\ DOMAIN orders' = DOMAIN orders
  /\ \A i \in DOMAIN orders : Shrunk(orders[i], orders'[i])

LEMMA ShrinkingTerms ==
  ASSUME TradingAssumption, WithinSize, Shrinking
  PROVE  /\ WithinSize'
         /\ \A T : Bids(T)' \subseteq Bids(T)
         /\ \A t : Offers(t)' = Offers(t)
         /\ \A i \in DOMAIN orders :
              /\ Left[i] \in Nat /\ Asked[i] \in Nat /\ Gone[i] \in Nat
              /\ Left'[i] \in Nat /\ Asked'[i] \in Nat /\ Gone'[i] \in Nat
              /\ Left'[i] <= Left[i] /\ Asked'[i] <= Asked[i] /\ Gone[i] <= Gone'[i]
<1>1. \A i \in DOMAIN orders :
        orders[i].remaining \in Nat /\ orders[i].size \in Nat /\ orders[i].price \in Nat
  BY TermsTyped DEF Shrinking
<1>2. \A i \in DOMAIN orders : orders'[i].remaining \in Nat
  <2>1. \A i \in DOMAIN orders : orders'[i] \in Order
    BY DEF Shrinking
  <2> QED
    BY <2>1 DEF Order
<1>3. WithinSize'
  BY <1>1, <1>2, SMTT(60) DEF WithinSize, Shrinking, Shrunk
<1>4. \A T : Bids(T)' \subseteq Bids(T)
  BY DEF Bids, Open, Shrinking, Shrunk
<1>5. \A t : Offers(t)' = Offers(t)
  BY DEF Offers, Shrinking, Shrunk
<1>6. \A i \in DOMAIN orders :
        /\ Left[i] \in Nat /\ Asked[i] \in Nat /\ Gone[i] \in Nat
        /\ Left'[i] \in Nat /\ Asked'[i] \in Nat /\ Gone'[i] \in Nat
  <2>1. \A i \in DOMAIN orders : Left[i] \in Nat /\ Asked[i] \in Nat /\ Gone[i] \in Nat
    BY TermsTyped DEF Shrinking
  <2>2. \A a, b \in Nat : a * b \in Nat
    OBVIOUS
  <2>3. \A i \in DOMAIN orders :
          orders'[i].price \in Nat /\ orders'[i].size \in Nat
          /\ orders'[i].remaining <= orders'[i].size
    BY <1>1, <1>3 DEF Shrinking, Shrunk, WithinSize
  <2>4. \A i \in DOMAIN orders : Left'[i] \in Nat /\ Asked'[i] \in Nat /\ Gone'[i] \in Nat
    BY <1>2, <2>2, <2>3, SMTT(60) DEF Shrinking, Left, Asked, Gone
  <2> QED
    BY <2>1, <2>4
<1>7. \A i \in DOMAIN orders : Left'[i] <= Left[i] /\ Asked'[i] <= Asked[i] /\ Gone[i] <= Gone'[i]
  <2>1. \A a, b, c \in Nat : b <= c => a * b <= a * c
    OBVIOUS
  <2> QED
    BY <1>1, <1>2, <2>1, SMTT(60) DEF Shrinking, Shrunk, Left, Asked, Gone
<1> QED
  BY <1>3, <1>4, <1>5, <1>6, <1>7

LEMMA ShrinkingSums ==
  ASSUME TradingAssumption, WithinSize, Shrinking
  PROVE  /\ \A T : /\ SharesOf(Bids(T))' <= SharesOf(Bids(T))
                   /\ NotionalOf(Bids(T))' <= NotionalOf(Bids(T))
         /\ \A t : Shed(t) <= Shed(t)'
<1>1. orders \in Seq(Order) /\ DOMAIN orders' = DOMAIN orders
  BY DEF Shrinking
<1>2. \A T : IsFiniteSet(Bids(T)) /\ Bids(T) \subseteq DOMAIN orders /\ Bids(T)' \subseteq Bids(T)
  BY <1>1, OrdersFinite, ShrinkingTerms
<1>3. \A t : /\ IsFiniteSet(Offers(t)) /\ Offers(t) \subseteq DOMAIN orders
             /\ Offers(t)' = Offers(t)
  BY <1>1, OrdersFinite, ShrinkingTerms
<1>4. ASSUME NEW T
      PROVE  /\ SumFunctionOnSet(Left', Bids(T)') <= SumFunctionOnSet(Left, Bids(T))
             /\ SumFunctionOnSet(Asked', Bids(T)') <= SumFunctionOnSet(Asked, Bids(T))
  BY <1>2, ShrinkingTerms, SumShrinks
<1>5. ASSUME NEW t
      PROVE  SumFunctionOnSet(Gone, Offers(t)) <= SumFunctionOnSet(Gone', Offers(t)')
  BY <1>3, ShrinkingTerms, SumShrinks
<1> QED
  BY <1>4, <1>5, SumsNamed

\* A fill takes its shares out of one sum.
LEMMA FilledShrinks ==
  ASSUME TradingAssumption, orders \in Seq(Order), NEW i \in Open,
         NEW n \in 1 .. orders[i].remaining, orders' = [orders EXCEPT ![i] = Filled(@, n)]
  PROVE  /\ Shrinking
         /\ n \in Nat /\ orders'[i].remaining + n = orders[i].remaining
<1>1. i \in DOMAIN orders /\ orders[i] \in Order /\ IsOpen(orders[i])
  BY DEF Open
<1>2. Filled(orders[i], n) \in Order
  BY <1>1, FilledFacts
<1>3. /\ orders' \in Seq(Order) /\ DOMAIN orders' = DOMAIN orders
      /\ \A j \in DOMAIN orders : orders'[j] = IF j = i THEN Filled(orders[i], n) ELSE orders[j]
  BY <1>1, <1>2, SMTT(60)
<1>4. /\ n \in Nat /\ orders[i].remaining \in Nat
      /\ Filled(orders[i], n).remaining = orders[i].remaining - n
  BY <1>1, SMTT(60) DEF Filled, Order
<1>5. Shrunk(orders[i], Filled(orders[i], n))
  <2>1. /\ Filled(orders[i], n).token = orders[i].token
        /\ Filled(orders[i], n).side = orders[i].side
        /\ Filled(orders[i], n).price = orders[i].price
        /\ Filled(orders[i], n).size = orders[i].size
    BY <1>1 DEF Filled, Order
  <2> QED
    BY <1>1, <1>4, <2>1, SMTT(60) DEF Shrunk
<1>6. \A j \in DOMAIN orders : Shrunk(orders[j], orders[j])
  <2>1. \A j \in DOMAIN orders : orders[j] \in Order
    OBVIOUS
  <2> QED
    BY <2>1 DEF Shrunk, Order
<1>7. Shrinking
  BY <1>3, <1>5, <1>6 DEF Shrinking
<1>8. orders'[i].remaining = orders[i].remaining - n
  BY <1>1, <1>3, <1>4
<1>9. orders'[i].remaining + n = orders[i].remaining
  BY <1>4, <1>8
<1> QED
  BY <1>4, <1>7, <1>9

LEMMA FilledSums ==
  ASSUME TradingAssumption, orders \in Seq(Order), WithinSize, NEW i \in Open,
         NEW n \in 1 .. orders[i].remaining, orders' = [orders EXCEPT ![i] = Filled(@, n)],
         NEW t \in Tokens, orders[i].token = t, NEW p, orders[i].price = p
  PROVE  /\ orders[i].side = "BUY" =>
              /\ SharesOf(Bids({t}))' + n <= SharesOf(Bids({t}))
              /\ NotionalOf(Bids(Tokens))' + n * p <= NotionalOf(Bids(Tokens))
         /\ orders[i].side = "SELL" => Shed(t) + n <= Shed(t)'
<1>1. /\ Shrinking /\ n \in Nat /\ i \in DOMAIN orders
      /\ orders'[i].remaining + n = orders[i].remaining
  BY FilledShrinks DEF Open
<1>2. orders[i].price \in Nat /\ orders[i].remaining \in Nat /\ orders[i].size \in Nat
  BY <1>1, TermsTyped
<1>3. DOMAIN orders' = DOMAIN orders /\ Shrunk(orders[i], orders'[i]) /\ orders'[i] \in Order
  BY <1>1 DEF Shrinking
<1>4. orders'[i].remaining \in Nat
  BY <1>3 DEF Order
<1>5. /\ Left'[i] + n <= Left[i]
      /\ Asked'[i] + n * p <= Asked[i]
      /\ Gone[i] + n <= Gone'[i]
  <2>1. Asked'[i] = p * orders'[i].remaining /\ Asked[i] = p * orders[i].remaining
    BY <1>1, <1>3 DEF Asked, Shrunk
  <2>2. \A a, b, c \in Nat : a * b + c * a = a * (b + c) /\ a * b \in Nat
    OBVIOUS
  <2>3. p * orders'[i].remaining + n * p = p * (orders'[i].remaining + n)
    <3> DEFINE q == orders'[i].remaining
    <3>1. p \in Nat /\ q \in Nat /\ n \in Nat
      BY <1>1, <1>2, <1>4
    <3> HIDE DEF q
    <3>2. p * q + n * p = p * (q + n)
      BY <3>1
    <3> QED
      BY <3>2 DEF q
  <2>4. Asked'[i] + n * p = Asked[i] /\ Asked[i] \in Nat
    <3>1. Asked[i] \in Nat
      BY <1>2, <2>1, <2>2
    <3>2. Asked'[i] + n * p = p * (orders'[i].remaining + n)
      BY <2>1, <2>3
    <3> QED
      BY <1>1, <2>1, <3>1, <3>2
  <2>5. /\ Left[i] = orders[i].remaining /\ Left'[i] = orders'[i].remaining
        /\ Gone[i] = orders[i].size - orders[i].remaining
        /\ Gone'[i] = orders[i].size - orders'[i].remaining
    BY <1>1, <1>3 DEF Left, Gone, Shrunk
  <2>6. Left'[i] + n <= Left[i] /\ Gone[i] + n <= Gone'[i]
    <3> DEFINE q == orders'[i].remaining
               z == orders[i].size
    <3>1. q \in Nat /\ z \in Nat /\ n \in Nat /\ orders[i].remaining = q + n
      BY <1>1, <1>2, <1>4
    <3>2. Left[i] = q + n /\ Left'[i] = q /\ Gone[i] = z - (q + n) /\ Gone'[i] = z - q
      BY <2>5, <3>1
    <3> HIDE DEF q, z
    <3> QED
      BY <3>1, <3>2, SMTT(60)
  <2> QED
    BY <2>4, <2>6
<1>6. n * p \in Nat
  BY <1>1, <1>2, SMTT(60)
<1>7. /\ \A T : IsFiniteSet(Bids(T)) /\ Bids(T) \subseteq DOMAIN orders /\ Bids(T)' \subseteq Bids(T)
      /\ \A s : /\ IsFiniteSet(Offers(s)) /\ Offers(s) \subseteq DOMAIN orders
                /\ Offers(s)' = Offers(s)
  BY <1>1, OrdersFinite, ShrinkingTerms
<1>8. ASSUME NEW T, i \in Bids(T)
      PROVE  /\ SumFunctionOnSet(Left', Bids(T)') + n <= SumFunctionOnSet(Left, Bids(T))
             /\ SumFunctionOnSet(Asked', Bids(T)') + n * p <= SumFunctionOnSet(Asked, Bids(T))
  BY <1>1, <1>5, <1>6, <1>7, <1>8, ShrinkingTerms, SumDrops
<1>9. ASSUME NEW s, i \in Offers(s)
      PROVE  SumFunctionOnSet(Gone, Offers(s)) + n <= SumFunctionOnSet(Gone', Offers(s)')
  BY <1>1, <1>5, <1>7, <1>9, ShrinkingTerms, SumDrops
<1>10. orders[i].side = "BUY" => i \in Bids({t}) /\ i \in Bids(Tokens)
  <2>1. orders[i] \in Order
    BY <1>1
  <2> QED
    BY <2>1 DEF Bids, Order
<1>11. orders[i].side = "SELL" => i \in Offers(t)
  BY <1>1 DEF Offers
<1>12. ASSUME NEW T, i \in Bids(T)
       PROVE  /\ SharesOf(Bids(T))' + n <= SharesOf(Bids(T))
              /\ NotionalOf(Bids(T))' + n * p <= NotionalOf(Bids(T))
  BY <1>8, <1>12, SumsNamed
<1>13. ASSUME NEW s, i \in Offers(s)
       PROVE  Shed(s) + n <= Shed(s)'
  BY <1>9, <1>13, SumsNamed
<1> QED
  BY <1>10, <1>11, <1>12, <1>13

-----------------------------------------------------------------------------
(* Rounding. *)

LEMMA DivisionRounds ==
  ASSUME NEW a \in Int, NEW b \in Nat \ {0}
  PROVE  a \div b \in Int /\ b * (a \div b) <= a /\ a < b * (a \div b) + b
  OBVIOUS

\* What a sale of n of s shares that cost c leaves of their cost, when it
\* takes the average a of each: half a unit per share sold is all that
\* rounding does to it.
LEMMA SaleRounds ==
  ASSUME NEW c \in Int, NEW s \in Nat \ {0}, NEW n \in Nat \ {0}, n <= s,
         NEW a \in Int, 2 * s * a <= 2 * c + s, 2 * c + s < 2 * s * a + 2 * s
  PROVE  /\ c >= 0 => c - a * n <= c /\ 0 <= 2 * (c - a * n) + n
         /\ c < 0  => 2 * (c - a * n) <= n /\ 2 * c <= 2 * (c - a * n) + n
<1> DEFINE r == 2 * c + s - 2 * (s * a)    \* twice what rounding leaves, up by s
           k == s - n
<1>1. r \in Int /\ 0 <= r /\ r < 2 * s /\ k \in Nat /\ s = n + k
  <2>1. 2 * s * a = 2 * (s * a) /\ s * a \in Int
    OBVIOUS
  <2> QED
    BY <2>1
<1> DEFINE d == 2 * (c - a * n)
<1>2. d \in Int /\ s * d = 2 * (c * k) + n * r - n * s
  <2>1. a * n \in Int /\ s * (a * n) = (s * a) * n
    OBVIOUS
  <2>2. s * (c - a * n) = s * c - s * (a * n)
    BY <2>1
  <2>3. s * d = 2 * (s * (c - a * n))
    BY <2>1
  <2>4. n * r = 2 * (n * c) + n * s - 2 * ((s * a) * n)
    <3>1. s * a \in Int
      OBVIOUS
    <3> DEFINE m == s * a
    <3> HIDE DEF m
    <3>2. m \in Int => n * (2 * c + s - 2 * m) = 2 * (n * c) + n * s - 2 * (m * n)
      OBVIOUS
    <3> QED
      BY <3>1, <3>2 DEF m
  <2>5. s * c = n * c + c * k
    BY <1>1
  <2>6. /\ n * c \in Int /\ c * k \in Int /\ n * s \in Int /\ (s * a) * n \in Int
        /\ n * r \in Int /\ s * d \in Int /\ d \in Int
    BY <1>1
  <2> HIDE DEF r, d, k
  <2> QED
    BY <2>1, <2>2, <2>3, <2>4, <2>5, <2>6
<1>3. ASSUME NEW x \in Int, 0 <= s * x PROVE 0 <= x
  BY <1>3
<1>4. ASSUME c >= 0 PROVE c - a * n <= c /\ 0 <= d + n
  <2>1. 0 <= a
    <3> SUFFICES ASSUME a <= 0 - 1 PROVE FALSE
      OBVIOUS
    <3>1. s * a <= s * (0 - 1)
      OBVIOUS
    <3> QED
      BY <1>4, <3>1
  <2>2. 0 <= a * n /\ a * n \in Int
    BY <2>1
  <2>3. 0 <= c * k /\ 0 <= n * r /\ c * k \in Int /\ n * r \in Int
    BY <1>1, <1>4
  <2>4. s * (d + n) = 2 * (c * k) + n * r
    <3> HIDE DEF r, d, k
    <3>1. s * (d + n) = s * d + n * s /\ n * s \in Int
      BY <1>2
    <3> DEFINE ck == c * k
               nr == n * r
               ns == n * s
    <3>2. s * d = 2 * ck + nr - ns /\ ck \in Int /\ nr \in Int /\ ns \in Int
      BY <1>2, <2>3, <3>1
    <3>3. s * (d + n) = s * d + ns
      BY <3>1
    <3> HIDE DEF ck, nr, ns
    <3>4. s * (d + n) = 2 * ck + nr
      BY <3>2, <3>3
    <3> QED
      BY <3>4 DEF ck, nr
  <2>5. 0 <= d + n
    <3> HIDE DEF r, d, k
    <3> QED
      BY <1>2, <1>3, <2>3, <2>4
  <2> QED
    BY <2>2, <2>5
<1>5. ASSUME c < 0 PROVE d <= n /\ 2 * c <= d + n
  <2>1. c * k <= 0 /\ n * r <= 2 * (n * s) /\ 0 <= n * r /\ c * n <= 0
    <3>1. r <= 2 * s /\ n * (2 * s) = 2 * (n * s)
      BY <1>1
    <3>2. n * r <= n * (2 * s)
      <4> HIDE DEF r
      <4> QED
        BY <1>1, <3>1
    <3> QED
      BY <1>1, <1>5, <3>1, <3>2
  <2>2. /\ c * k \in Int /\ n * r \in Int /\ n * s \in Int /\ c * n \in Int /\ s * c \in Int
        /\ s * c = c * n + c * k
    BY <1>1
  <2> HIDE DEF r, d, k
  <2>3. s * (n - d) = 2 * (n * s) - 2 * (c * k) - n * r
    <3>1. s * (n - d) = n * s - s * d
      BY <1>2
    <3> QED
      BY <1>2, <2>2, <3>1
  <2>4. s * (d + n - 2 * c) = n * r - 2 * (c * n)
    <3>1. s * (d + n - 2 * c) = s * d + n * s - 2 * (s * c)
      BY <1>2
    <3> QED
      BY <1>2, <2>2, <3>1
  <2>5. 0 <= n - d /\ 0 <= d + n - 2 * c
    <3>1. n - d \in Int /\ d + n - 2 * c \in Int
      BY <1>2
    <3> QED
      BY <1>3, <2>1, <2>2, <2>3, <2>4, <3>1
  <2> QED
    BY <1>2, <2>5
<1> QED
  BY <1>4, <1>5

-----------------------------------------------------------------------------
(* Steps that let orders shrink and add nothing to the portfolio. *)

LEMMA FeesTyped ==
  ASSUME TradingAssumption
  PROVE  Fees \subseteq Nat /\ 0 \in Fees
  BY DEF Fees, TradingAssumption

LEMMA PositiveFacts ==
  ASSUME NEW c \in Int
  PROVE  /\ Positive(c) \in Nat /\ c <= Positive(c)
         /\ \A x \in Nat : Positive(c + x) <= Positive(c) + x
         /\ \A s \in Nat : 0 <= 2 * c + s => 2 * Positive(c) <= 2 * c + s
  BY DEF Positive

LEMMA LimitsShrink ==
  ASSUME TradingAssumption, Money, Money', Limits, Shrinking,
         \A t \in Tokens : /\ position'[t].size <= position[t].size
                           /\ position'[t].cost \in {position[t].cost, 0}
  PROVE  Limits'
<1>1. \A t \in Tokens :
        /\ position[t].size \in Nat /\ position'[t].size \in Nat
        /\ position[t].cost \in Int /\ position'[t].cost \in Int
  BY DEF Money
<1>2. WithinSize'
  BY ShrinkingTerms DEF Limits
<1>3. /\ \A T : SharesOf(Bids(T)) \in Nat /\ NotionalOf(Bids(T)) \in Nat
      /\ \A t : Shed(t) \in Nat
  BY SumsTyped DEF Limits, Shrinking
<1>4. /\ \A T : SharesOf(Bids(T))' \in Nat /\ NotionalOf(Bids(T))' \in Nat
      /\ \A t : Shed(t)' \in Nat
  BY <1>2, SumsTypedNext DEF Shrinking
<1>5. /\ \A T : /\ SharesOf(Bids(T))' <= SharesOf(Bids(T))
                /\ NotionalOf(Bids(T))' <= NotionalOf(Bids(T))
      /\ \A t : Shed(t) <= Shed(t)'
  BY ShrinkingSums DEF Limits
<1>6. SharesBound'
  <2> SUFFICES ASSUME NEW t \in Tokens
               PROVE  position'[t].size + SharesOf(Bids({t}))' <= MaxPositionShares
    BY DEF SharesBound
  <2>1. position[t].size + SharesOf(Bids({t})) <= MaxPositionShares /\ MaxPositionShares \in Nat
    BY DEF Limits, SharesBound, TradingAssumption
  <2>2. position'[t].size <= position[t].size
    OBVIOUS
  <2> QED
    BY <1>1, <1>3, <1>4, <1>5, <2>1, <2>2
<1>7. RoundingBound'
  <2> SUFFICES ASSUME NEW t \in Tokens
               PROVE  0 <= 2 * position'[t].cost + Shed(t)'
    BY DEF RoundingBound
  <2>1. 0 <= 2 * position[t].cost + Shed(t)
    BY DEF Limits, RoundingBound
  <2>2. position'[t].cost = position[t].cost \/ position'[t].cost = 0
    OBVIOUS
  <2>3. Shed(t) \in Nat /\ Shed(t)' \in Nat /\ Shed(t) <= Shed(t)'
    BY <1>3, <1>4, <1>5
  <2> QED
    BY <1>1, <2>1, <2>2, <2>3
<1>8. CostBound'
  <2>1. PICK fee \in Fees :
          2 * (Positive(position[Yes].cost) + Positive(position[No].cost) + NotionalOf(Bids(Tokens)))
            <= 2 * (MaxMarketNotional + fee) + Shed(Yes) + Shed(No)
    BY DEF Limits, CostBound
  <2>2. \A t \in Tokens : /\ Positive(position'[t].cost) <= Positive(position[t].cost)
                          /\ Positive(position'[t].cost) \in Nat
                          /\ Positive(position[t].cost) \in Nat
    BY <1>1 DEF Positive
  <2>3. Yes \in Tokens /\ No \in Tokens /\ fee \in Nat /\ MaxMarketNotional \in Nat
    BY FeesTyped DEF Tokens, TradingAssumption
  <2>4. 2 * (Positive(position'[Yes].cost) + Positive(position'[No].cost) + NotionalOf(Bids(Tokens))')
          <= 2 * (MaxMarketNotional + fee) + Shed(Yes)' + Shed(No)'
    BY <1>3, <1>4, <1>5, <2>1, <2>2, <2>3
  <2> QED
    BY <2>4 DEF CostBound
<1> QED
  BY <1>2, <1>6, <1>7, <1>8 DEF Limits

-----------------------------------------------------------------------------
(* Fills. *)

LEMMA BuyLimits ==
  ASSUME TradingAssumption, TypeOK, TypeOK', Limits, NEW i \in Open,
         NEW n \in 1 .. orders[i].remaining, orders' = [orders EXCEPT ![i] = Filled(@, n)],
         orders[i].side = "BUY", Bought(orders[i].token, n, orders[i].price, 0)
  PROVE  Limits'
<1>1. orders \in Seq(Order) /\ WithinSize /\ Money /\ Money'
  BY DEF TypeOK, Money, Limits
<1>2. Shrinking /\ n \in Nat
  BY <1>1, FilledShrinks
<1>3. orders[i] \in Order /\ One \in Nat
  BY <1>1 DEF Open, TradingAssumption
<1>4. PICK t \in Tokens, p \in Nat : orders[i].token = t /\ orders[i].price = p
  BY <1>3 DEF Order
<1>5. /\ SharesOf(Bids({t}))' + n <= SharesOf(Bids({t}))
      /\ NotionalOf(Bids(Tokens))' + n * p <= NotionalOf(Bids(Tokens))
  BY <1>1, <1>4, FilledSums
<1>6. /\ WithinSize'
      /\ \A T : /\ SharesOf(Bids(T))' <= SharesOf(Bids(T))
                /\ NotionalOf(Bids(T))' <= NotionalOf(Bids(T))
      /\ \A s : Shed(s) <= Shed(s)'
  BY <1>1, <1>2, ShrinkingSums, ShrinkingTerms
<1>7. /\ \A T : SharesOf(Bids(T)) \in Nat /\ NotionalOf(Bids(T)) \in Nat
      /\ \A s : Shed(s) \in Nat
  BY <1>1, SumsTyped
<1>8. /\ \A T : SharesOf(Bids(T))' \in Nat /\ NotionalOf(Bids(T))' \in Nat
      /\ \A s : Shed(s)' \in Nat
  BY <1>2, <1>6, SumsTypedNext DEF Shrinking
<1> DEFINE x == n * p
<1>9. x \in Nat
  BY <1>2, <1>4
<1>10. /\ \A s \in Tokens : position[s].size \in Nat /\ position[s].cost \in Int
       /\ position' = [position EXCEPT ![t] = [size |-> position[t].size + n,
                                               cost |-> position[t].cost + x]]
  <2>1. \A s \in Tokens : position[s].size \in Nat /\ position[s].cost \in Int
    BY <1>1 DEF Money
  <2>2. position' = [position EXCEPT ![t] = [size |-> position[t].size + n,
                                             cost |-> position[t].cost + n * p + 0]]
    BY <1>4 DEF Bought
  <2>3. position[t].cost + n * p + 0 = position[t].cost + x
    BY <1>9, <2>1
  <2> QED
    BY <2>1, <2>2, <2>3
<1> HIDE DEF x
<1>11. \A s \in Tokens : /\ position'[s].size = position[s].size + IF s = t THEN n ELSE 0
                         /\ position'[s].cost = position[s].cost + IF s = t THEN x ELSE 0
  <2>1. position \in [Tokens -> [size : Nat, cost : Int]]
    BY <1>1 DEF Money
  <2>2. /\ position'[t].size = position[t].size + n /\ position'[t].cost = position[t].cost + x
        /\ \A s \in Tokens : s # t => position'[s] = position[s]
    BY <1>4, <1>10, <2>1
  <2> QED
    BY <1>10, <2>2
<1>12. SharesBound'
  <2> SUFFICES ASSUME NEW s \in Tokens
               PROVE  position'[s].size + SharesOf(Bids({s}))' <= MaxPositionShares
    BY DEF SharesBound
  <2>1. position[s].size + SharesOf(Bids({s})) <= MaxPositionShares /\ MaxPositionShares \in Nat
    BY DEF Limits, SharesBound, TradingAssumption
  <2>2. CASE s = t
    <3>1. SharesOf(Bids({s}))' + n <= SharesOf(Bids({s})) /\ position'[s].size = position[s].size + n
      BY <1>5, <1>11, <2>2
    <3> QED
      BY <1>2, <1>7, <1>8, <1>10, <2>1, <3>1
  <2>3. CASE s # t
    BY <1>6, <1>7, <1>8, <1>10, <1>11, <2>1, <2>3
  <2> QED
    BY <2>2, <2>3
<1>13. RoundingBound'
  <2> SUFFICES ASSUME NEW s \in Tokens
               PROVE  0 <= 2 * position'[s].cost + Shed(s)'
    BY DEF RoundingBound
  <2>1. 0 <= 2 * position[s].cost + Shed(s)
    BY DEF Limits, RoundingBound
  <2> QED
    BY <1>6, <1>7, <1>8, <1>9, <1>10, <1>11, <2>1
<1>14. CostBound'
  <2>1. PICK fee \in Fees :
          2 * (Positive(position[Yes].cost) + Positive(position[No].cost) + NotionalOf(Bids(Tokens)))
            <= 2 * (MaxMarketNotional + fee) + Shed(Yes) + Shed(No)
    BY DEF Limits, CostBound
  <2>2. \A s \in Tokens :
          /\ Positive(position[s].cost) \in Nat /\ Positive(position'[s].cost) \in Nat
          /\ Positive(position'[s].cost) <= Positive(position[s].cost) + IF s = t THEN x ELSE 0
    BY <1>9, <1>10, <1>11 DEF Positive
  <2>3. /\ Yes \in Tokens /\ No \in Tokens /\ fee \in Nat /\ MaxMarketNotional \in Nat
        /\ Yes # No /\ (t = Yes \/ t = No)
    BY FeesTyped DEF Tokens, TradingAssumption
  <2>4. Positive(position'[Yes].cost) + Positive(position'[No].cost)
          <= Positive(position[Yes].cost) + Positive(position[No].cost) + x
    BY <1>9, <2>2, <2>3
  <2>5. NotionalOf(Bids(Tokens))' + x <= NotionalOf(Bids(Tokens))
    BY <1>5 DEF x
  <2>6. 2 * (Positive(position'[Yes].cost) + Positive(position'[No].cost) + NotionalOf(Bids(Tokens))')
          <= 2 * (MaxMarketNotional + fee) + Shed(Yes)' + Shed(No)'
    BY <1>6, <1>7, <1>8, <1>9, <2>1, <2>2, <2>3, <2>4, <2>5
  <2> QED
    BY <2>6 DEF CostBound
<1> QED
  BY <1>6, <1>12, <1>13, <1>14 DEF Limits

LEMMA SaleLimits ==
  ASSUME TradingAssumption, TypeOK, TypeOK', Limits, NEW i \in Open,
         NEW n \in 1 .. orders[i].remaining, orders' = [orders EXCEPT ![i] = Filled(@, n)],
         orders[i].side = "SELL", ~Oversold(i, n), Sold(orders[i].token, n, orders[i].price)
  PROVE  Limits'
<1>1. orders \in Seq(Order) /\ WithinSize /\ Money /\ Money'
  BY DEF TypeOK, Money, Limits
<1>2. Shrinking /\ n \in Nat \ {0} /\ orders[i] \in Order
  <2>1. orders[i] \in Order
    BY <1>1 DEF Open
  <2>2. orders[i].remaining \in Nat
    BY <2>1 DEF Order
  <2>3. n \in Nat \ {0}
    BY <2>2
  <2> QED
    BY <1>1, <2>1, <2>3, FilledShrinks
<1>3. PICK t \in Tokens : orders[i].token = t
  BY <1>2 DEF Order
<1>4. Shed(t) + n <= Shed(t)'
  BY <1>1, <1>3, FilledSums
<1>5. /\ WithinSize'
      /\ \A T : /\ SharesOf(Bids(T))' <= SharesOf(Bids(T))
                /\ NotionalOf(Bids(T))' <= NotionalOf(Bids(T))
      /\ \A s : Shed(s) <= Shed(s)'
  BY <1>1, <1>2, ShrinkingSums, ShrinkingTerms
<1>6. /\ \A T : SharesOf(Bids(T)) \in Nat /\ NotionalOf(Bids(T)) \in Nat
      /\ \A s : Shed(s) \in Nat
  BY <1>1, SumsTyped
<1>7. /\ \A T : SharesOf(Bids(T))' \in Nat /\ NotionalOf(Bids(T))' \in Nat
      /\ \A s : Shed(s)' \in Nat
  BY <1>2, <1>5, SumsTypedNext DEF Shrinking
<1> DEFINE a == Average(position[t])
           c == position[t].cost
           z == position[t].size
<1>8. c \in Int /\ z \in Nat \ {0} /\ n <= z
  <2>1. c \in Int /\ z \in Nat
    BY <1>1 DEF Money
  <2>2. ~(n > z)
    BY <1>3 DEF Oversold
  <2> QED
    BY <1>2, <2>1, <2>2
<1>9. a \in Int /\ 2 * z * a <= 2 * c + z /\ 2 * c + z < 2 * z * a + 2 * z
  <2>1. a = (2 * c + z) \div (2 * z)
    BY DEF Average
  <2>2. 2 * z \in Nat \ {0} /\ 2 * c + z \in Int
    BY <1>8
  <2> HIDE DEF a, c, z
  <2> QED
    BY <2>1, <2>2, DivisionRounds
<1>10. position' = [position EXCEPT ![t] = [size |-> z - n, cost |-> c - a * n]]
  BY <1>3 DEF Sold
<1>11. /\ position'[t].size = z - n /\ position'[t].cost = c - a * n
       /\ \A s \in Tokens : s # t => position'[s] = position[s]
  BY <1>1, <1>10 DEF Money
<1>12. /\ c >= 0 => c - a * n <= c /\ 0 <= 2 * (c - a * n) + n
       /\ c < 0  => 2 * (c - a * n) <= n /\ 2 * c <= 2 * (c - a * n) + n
  <2> HIDE DEF a, c, z
  <2> QED
    BY <1>2, <1>8, <1>9, SaleRounds
<1> DEFINE new == c - a * n
<1>13. new \in Int
  BY <1>2, <1>8, <1>9
<1>14. SharesBound'
  <2> SUFFICES ASSUME NEW s \in Tokens
               PROVE  position'[s].size + SharesOf(Bids({s}))' <= MaxPositionShares
    BY DEF SharesBound
  <2>1. position[s].size + SharesOf(Bids({s})) <= MaxPositionShares /\ MaxPositionShares \in Nat
    BY DEF Limits, SharesBound, TradingAssumption
  <2>2. position'[s].size \in Nat /\ position[s].size \in Nat /\ position'[s].size <= position[s].size
    <3>1. position'[s].size \in Nat /\ position[s].size \in Nat
      BY <1>1 DEF Money
    <3>2. position'[s].size = position[s].size \/ (s = t /\ position'[s].size = z - n)
      BY <1>11
    <3> QED
      BY <1>2, <1>8, <3>1, <3>2
  <2> QED
    BY <1>5, <1>6, <1>7, <2>1, <2>2
<1>15. RoundingBound'
  <2> SUFFICES ASSUME NEW s \in Tokens
               PROVE  0 <= 2 * position'[s].cost + Shed(s)'
    BY DEF RoundingBound
  <2>1. 0 <= 2 * position[s].cost + Shed(s)
    BY DEF Limits, RoundingBound
  <2>2. CASE s = t
    <3>1. 0 <= 2 * c + Shed(t) /\ position'[s].cost = new
      BY <1>11, <2>1, <2>2
    <3>2. 0 <= 2 * new + n \/ 2 * c <= 2 * new + n
      BY <1>8, <1>12
    <3>3. Shed(t) \in Nat /\ Shed(t)' \in Nat /\ Shed(t) + n <= Shed(t)'
      BY <1>4, <1>6, <1>7
    <3>4. 0 <= 2 * new + Shed(t)'
      <4> HIDE DEF c, new
      <4> QED
        BY <1>2, <1>8, <1>13, <3>1, <3>2, <3>3
    <3> QED
      BY <2>2, <3>1, <3>4
  <2>3. CASE s # t
    <3>1. position'[s].cost = position[s].cost /\ position[s].cost \in Int
      BY <1>1, <1>11, <2>3 DEF Money
    <3> QED
      BY <1>5, <1>6, <1>7, <2>1, <3>1
  <2> QED
    BY <2>2, <2>3
<1>16. CostBound'
  <2>1. PICK fee \in Fees :
          2 * (Positive(position[Yes].cost) + Positive(position[No].cost) + NotionalOf(Bids(Tokens)))
            <= 2 * (MaxMarketNotional + fee) + Shed(Yes) + Shed(No)
    BY DEF Limits, CostBound
  <2>2. Positive(new) \in Nat /\ Positive(c) \in Nat /\ 2 * Positive(new) <= 2 * Positive(c) + n
    <3>1. (c >= 0 /\ new <= c) \/ (c < 0 /\ 2 * new <= n)
      BY <1>8, <1>12
    <3> HIDE DEF c, new
    <3> QED
      BY <1>2, <1>8, <1>13, <3>1 DEF Positive
  <2>3. /\ Yes \in Tokens /\ No \in Tokens /\ fee \in Nat /\ MaxMarketNotional \in Nat
        /\ Yes # No /\ (t = Yes \/ t = No)
    BY FeesTyped DEF Tokens, TradingAssumption
  <2>4. \A s \in Tokens : Positive(position[s].cost) \in Nat /\ Positive(position'[s].cost) \in Nat
    BY <1>1, PositiveFacts DEF Money
  <2>5. \A s \in Tokens : 2 * Positive(position'[s].cost) - Shed(s)' <= 2 * Positive(position[s].cost) - Shed(s)
    <3> SUFFICES ASSUME NEW s \in Tokens
                 PROVE  2 * Positive(position'[s].cost) - Shed(s)' <= 2 * Positive(position[s].cost) - Shed(s)
      OBVIOUS
    <3>1. CASE s = t
      <4>1. Positive(position'[t].cost) = Positive(new) /\ Positive(position[t].cost) = Positive(c)
        BY <1>11
      <4>2. 2 * Positive(new) - Shed(t)' <= 2 * Positive(c) - Shed(t)
        <5> HIDE DEF new, c
        <5> QED
          BY <1>2, <1>4, <1>6, <1>7, <2>2
      <4> QED
        BY <3>1, <4>1, <4>2
    <3>2. CASE s # t
      <4>1. Positive(position'[s].cost) = Positive(position[s].cost)
        BY <1>11, <3>2
      <4> QED
        BY <1>5, <1>6, <1>7, <2>4, <4>1
    <3> QED
      BY <3>1, <3>2
  <2>6. 2 * (Positive(position'[Yes].cost) + Positive(position'[No].cost) + NotionalOf(Bids(Tokens))')
          <= 2 * (MaxMarketNotional + fee) + Shed(Yes)' + Shed(No)'
    BY <1>5, <1>6, <1>7, <2>1, <2>3, <2>4, <2>5
  <2> QED
    BY <2>6 DEF CostBound
<1> QED
  BY <1>5, <1>14, <1>15, <1>16 DEF Limits

-----------------------------------------------------------------------------
(* New orders. *)

LEMMA AppendedSums ==
  ASSUME TradingAssumption, orders \in Seq(Order), WithinSize,
         NEW new \in Order, new.remaining <= new.size, orders' = Append(orders, new)
  PROVE  /\ orders' \in Seq(Order) /\ WithinSize'
         /\ \A T : IF IsOpen(new) /\ new.side = "BUY" /\ new.token \in T
                   THEN /\ SharesOf(Bids(T))' = SharesOf(Bids(T)) + new.remaining
                        /\ NotionalOf(Bids(T))' = NotionalOf(Bids(T)) + new.price * new.remaining
                   ELSE /\ SharesOf(Bids(T))' = SharesOf(Bids(T))
                        /\ NotionalOf(Bids(T))' = NotionalOf(Bids(T))
         /\ \A t : Shed(t) <= Shed(t)'
<1> DEFINE last == Len(orders) + 1
<1>1. /\ orders' \in Seq(Order) /\ Len(orders) \in Nat
      /\ DOMAIN orders = 1 .. Len(orders) /\ DOMAIN orders' = DOMAIN orders \cup {last}
      /\ last \notin DOMAIN orders /\ orders'[last] = new
      /\ \A i \in DOMAIN orders : orders'[i] = orders[i]
  OBVIOUS
<1> HIDE DEF last
<1>2. WithinSize'
  BY <1>1 DEF WithinSize
<1>3. /\ \A i \in DOMAIN orders : Left[i] \in Nat /\ Asked[i] \in Nat /\ Gone[i] \in Nat
      /\ \A i \in DOMAIN orders : Left'[i] = Left[i] /\ Asked'[i] = Asked[i] /\ Gone'[i] = Gone[i]
  <2>1. \A i \in DOMAIN orders : Left'[i] = Left[i] /\ Asked'[i] = Asked[i] /\ Gone'[i] = Gone[i]
    BY <1>1 DEF Left, Asked, Gone
  <2> QED
    BY <2>1, TermsTyped
<1>4. /\ Left'[last] = new.remaining /\ Asked'[last] = new.price * new.remaining
      /\ Gone'[last] = new.size - new.remaining
  BY <1>1 DEF Left, Asked, Gone
<1>5. Left'[last] \in Nat /\ Asked'[last] \in Nat /\ Gone'[last] \in Nat
  <2>1. new.remaining \in Nat /\ new.size \in Nat /\ new.price \in Nat
    BY DEF Order, TradingAssumption
  <2>2. \A a, b \in Nat : a * b \in Nat
    OBVIOUS
  <2> QED
    BY <1>4, <2>1, <2>2, SMTT(60)
<1>6. ASSUME NEW S, S \subseteq DOMAIN orders, IsFiniteSet(S)
      PROVE  /\ SumFunctionOnSet(Left', S) = SumFunctionOnSet(Left, S)
             /\ SumFunctionOnSet(Asked', S) = SumFunctionOnSet(Asked, S)
             /\ SumFunctionOnSet(Gone', S) = SumFunctionOnSet(Gone, S)
             /\ SumFunctionOnSet(Left', S \cup {last}) = Left'[last] + SumFunctionOnSet(Left', S)
             /\ SumFunctionOnSet(Asked', S \cup {last}) = Asked'[last] + SumFunctionOnSet(Asked', S)
             /\ SumFunctionOnSet(Gone', S \cup {last}) = Gone'[last] + SumFunctionOnSet(Gone', S)
             /\ SumFunctionOnSet(Gone', S) \in Nat
  <2>1. \A i \in S : /\ Left[i] \in Int /\ Asked[i] \in Int /\ Gone[i] \in Nat
                     /\ Left'[i] = Left[i] /\ Asked'[i] = Asked[i] /\ Gone'[i] = Gone[i]
    BY <1>3, <1>6
  <2>2. \A i \in S \cup {last} : Left'[i] \in Int /\ Asked'[i] \in Int /\ Gone'[i] \in Int
    BY <1>5, <2>1, SMTT(60)
  <2>3. last \notin S
    BY <1>1, <1>6
  <2>4. SumFunctionOnSet(Gone', S) \in Nat
    BY <1>6, <2>1, SumIsNat
  <2>5. /\ SumFunctionOnSet(Left', S) = SumFunctionOnSet(Left, S)
        /\ SumFunctionOnSet(Asked', S) = SumFunctionOnSet(Asked, S)
        /\ SumFunctionOnSet(Gone', S) = SumFunctionOnSet(Gone, S)
    <3>1. \A i \in S : Left'[i] \in Int /\ Asked'[i] \in Int /\ Gone'[i] \in Int
      BY <2>2
    <3>2. SumFunctionOnSet(Left', S) = SumFunctionOnSet(Left, S)
      BY <1>6, <2>1, <3>1, SumOfEqual
    <3>3. SumFunctionOnSet(Asked', S) = SumFunctionOnSet(Asked, S)
      BY <1>6, <2>1, <3>1, SumOfEqual
    <3>4. SumFunctionOnSet(Gone', S) = SumFunctionOnSet(Gone, S)
      BY <1>6, <2>1, <3>1, SumOfEqual
    <3> QED
      BY <3>2, <3>3, <3>4
  <2> QED
    BY <1>6, <2>2, <2>3, <2>4, <2>5, SumWith
<1>7. ASSUME NEW T
      PROVE  /\ IsFiniteSet(Bids(T)) /\ Bids(T) \subseteq DOMAIN orders
             /\ Bids(T)' = IF IsOpen(new) /\ new.side = "BUY" /\ new.token \in T
                           THEN Bids(T) \cup {last} ELSE Bids(T)
  <2>1. IsFiniteSet(Bids(T)) /\ Bids(T) \subseteq DOMAIN orders
    BY OrdersFinite
  <2>2. Bids(T)' = {i \in DOMAIN orders' : IsOpen(orders'[i]) /\ orders'[i].side = "BUY"
                                           /\ orders'[i].token \in T}
    BY DEF Bids, Open
  <2>3. Bids(T) = {i \in DOMAIN orders : IsOpen(orders[i]) /\ orders[i].side = "BUY"
                                         /\ orders[i].token \in T}
    BY DEF Bids, Open
  <2> QED
    BY <1>1, <2>1, <2>2, <2>3
<1>8. ASSUME NEW T
      PROVE  IF IsOpen(new) /\ new.side = "BUY" /\ new.token \in T
             THEN /\ SharesOf(Bids(T))' = SharesOf(Bids(T)) + new.remaining
                  /\ NotionalOf(Bids(T))' = NotionalOf(Bids(T)) + new.price * new.remaining
             ELSE /\ SharesOf(Bids(T))' = SharesOf(Bids(T))
                  /\ NotionalOf(Bids(T))' = NotionalOf(Bids(T))
  <2>1. SharesOf(Bids(T)) \in Nat /\ NotionalOf(Bids(T)) \in Nat
    BY SumsTyped
  <2>2. CASE IsOpen(new) /\ new.side = "BUY" /\ new.token \in T
    <3>1. /\ SharesOf(Bids(T))' = new.remaining + SharesOf(Bids(T))
          /\ NotionalOf(Bids(T))' = new.price * new.remaining + NotionalOf(Bids(T))
      <4>1. /\ IsFiniteSet(Bids(T)) /\ Bids(T) \subseteq DOMAIN orders
            /\ Bids(T)' = Bids(T) \cup {last}
        BY <1>7, <2>2
      <4>2. /\ SumFunctionOnSet(Left', Bids(T)') = Left'[last] + SumFunctionOnSet(Left, Bids(T))
            /\ SumFunctionOnSet(Asked', Bids(T)') = Asked'[last] + SumFunctionOnSet(Asked, Bids(T))
        BY <1>6, <4>1
      <4> QED
        BY <1>4, <4>2, SumsNamed
    <3>2. new.remaining \in Nat /\ new.price * new.remaining \in Nat
      BY <1>4, <1>5
    <3> QED
      BY <2>1, <2>2, <3>1, <3>2
  <2>3. CASE ~(IsOpen(new) /\ new.side = "BUY" /\ new.token \in T)
    <3>1. /\ IsFiniteSet(Bids(T)) /\ Bids(T) \subseteq DOMAIN orders /\ Bids(T)' = Bids(T)
      BY <1>7, <2>3
    <3>2. /\ SumFunctionOnSet(Left', Bids(T)') = SumFunctionOnSet(Left, Bids(T))
          /\ SumFunctionOnSet(Asked', Bids(T)') = SumFunctionOnSet(Asked, Bids(T))
      BY <1>6, <3>1
    <3> QED
      BY <2>3, <3>2, SumsNamed
  <2> QED
    BY <2>2, <2>3
<1>9. ASSUME NEW t
      PROVE  Shed(t) <= Shed(t)'
  <2>1. IsFiniteSet(Offers(t)) /\ Offers(t) \subseteq DOMAIN orders
    BY OrdersFinite
  <2>2. Offers(t)' = Offers(t) \/ Offers(t)' = Offers(t) \cup {last}
    BY <1>1 DEF Offers
  <2> QED
    <3>1. /\ SumFunctionOnSet(Gone', Offers(t)) = SumFunctionOnSet(Gone, Offers(t))
          /\ SumFunctionOnSet(Gone', Offers(t) \cup {last})
               = Gone'[last] + SumFunctionOnSet(Gone', Offers(t))
          /\ SumFunctionOnSet(Gone', Offers(t)) \in Nat
      BY <1>6, <2>1
    <3>2. SumFunctionOnSet(Gone, Offers(t)) <= SumFunctionOnSet(Gone', Offers(t)')
      <4> DEFINE was == SumFunctionOnSet(Gone, Offers(t))
      <4>1. was \in Nat /\ Gone'[last] \in Nat
        BY <1>5, <3>1
      <4>2. CASE Offers(t)' = Offers(t)
        BY <3>1, <4>1, <4>2
      <4>3. CASE Offers(t)' = Offers(t) \cup {last}
        <5>1. SumFunctionOnSet(Gone', Offers(t)') = Gone'[last] + was
          BY <3>1, <4>3
        <5> HIDE DEF was
        <5>2. was <= SumFunctionOnSet(Gone', Offers(t)')
          BY <4>1, <5>1
        <5> QED
          BY <5>2 DEF was
      <4> QED
        BY <2>2, <4>2, <4>3
    <3> QED
      BY <3>2, SumsNamed
<1> QED
  BY <1>1, <1>2, <1>8, <1>9

\* What a new order puts on the book, if it stays there.
LEMMA SubmittedSums ==
  ASSUME TradingAssumption, TypeOK, WithinSize, NEW t \in Tokens, NEW side \in {"BUY", "SELL"},
         NEW price \in 1 .. One - 1, NEW size \in Nat \ {0},
         NEW expires \in Nat \cup {NoExpiry}, NEW remaining \in 0 .. size, NEW status \in Status,
         Submitted(t, side, price, size, expires, remaining, status)
  PROVE  /\ orders' \in Seq(Order) /\ WithinSize'
         /\ \A T : IF status = "open" /\ side = "BUY" /\ t \in T
                   THEN /\ SharesOf(Bids(T))' = SharesOf(Bids(T)) + remaining
                        /\ NotionalOf(Bids(T))' = NotionalOf(Bids(T)) + price * remaining
                   ELSE /\ SharesOf(Bids(T))' = SharesOf(Bids(T))
                        /\ NotionalOf(Bids(T))' = NotionalOf(Bids(T))
         /\ \A s : Shed(s) <= Shed(s)'
<1>1. PICK new : new = [token |-> t, side |-> side, price |-> price, size |-> size,
                        remaining |-> remaining, status |-> status,
                        expires |-> expires, event |-> events]
  OBVIOUS
<1>2. orders \in Seq(Order) /\ events \in Nat
  BY DEF TypeOK, TradingAssumption
<1>3. new \in Order /\ new.remaining <= new.size
  BY <1>1, <1>2 DEF Order
<1>4. orders' = Append(orders, new)
  BY <1>1 DEF Submitted
<1>5. /\ new.token = t /\ new.side = side /\ new.price = price /\ new.remaining = remaining
      /\ IsOpen(new) <=> status = "open"
  BY <1>1 DEF IsOpen
<1> QED
  BY <1>2, <1>3, <1>4, <1>5, AppendedSums

LEMMA QuoteLimits ==
  ASSUME TradingAssumption, TypeOK, Limits, NEW q \in Quotes, OnQuote(q)
  PROVE  Limits'
<1>1. /\ q.token \in Tokens /\ q.side \in {"BUY", "SELL"} /\ q.price \in 1 .. One - 1
      /\ q.size \in Nat \ {0} /\ q.ttl \in (Nat \ {0}) \cup {NoExpiry}
  BY DEF TradingAssumption, Quote
<1>2. PICK expires \in Nat \cup {NoExpiry}, remaining \in 0 .. q.size, status \in Status :
        /\ Submitted(q.token, q.side, q.price, q.size, expires, remaining, status)
        /\ status = "open" => remaining = q.size
  <2>1. 0 \in 0 .. q.size /\ q.size \in 0 .. q.size /\ "open" \in Status /\ "rejected" \in Status
    BY <1>1 DEF Status
  <2>2. now \in Nat
    BY DEF TypeOK, TradingAssumption
  <2>3. (IF q.ttl = NoExpiry THEN NoExpiry ELSE now + q.ttl) \in Nat \cup {NoExpiry}
    BY <1>1, <2>2
  <2> QED
    BY <2>1, <2>3, ZenonT(60) DEF OnQuote
<1>3. position' = position
  BY DEF OnQuote, portfolio
<1>4. /\ orders' \in Seq(Order) /\ WithinSize'
      /\ \A T : IF status = "open" /\ q.side = "BUY" /\ q.token \in T
                THEN /\ SharesOf(Bids(T))' = SharesOf(Bids(T)) + remaining
                     /\ NotionalOf(Bids(T))' = NotionalOf(Bids(T)) + q.price * remaining
                ELSE /\ SharesOf(Bids(T))' = SharesOf(Bids(T))
                     /\ NotionalOf(Bids(T))' = NotionalOf(Bids(T))
      /\ \A s : Shed(s) <= Shed(s)'
  BY <1>1, <1>2, SubmittedSums DEF Limits
<1>5. /\ \A s \in Tokens : position[s].size \in Nat /\ position[s].cost \in Int
      /\ \A T : SharesOf(Bids(T)) \in Nat /\ NotionalOf(Bids(T)) \in Nat
      /\ \A s : Shed(s) \in Nat
  <2>1. \A s \in Tokens : position[s].size \in Nat /\ position[s].cost \in Int
    BY DEF TypeOK
  <2> QED
    BY <2>1, SumsTyped DEF TypeOK, Limits
<1>6. \A s : Shed(s)' \in Nat
  BY <1>4, SumsTypedNext
<1>7. RoundingBound'
  <2> SUFFICES ASSUME NEW s \in Tokens
               PROVE  0 <= 2 * position'[s].cost + Shed(s)'
    BY DEF RoundingBound
  <2>1. 0 <= 2 * position[s].cost + Shed(s)
    BY DEF RoundingBound, Limits
  <2>2. position'[s].cost = position[s].cost /\ position[s].cost \in Int
    BY <1>3, <1>5
  <2>3. Shed(s) \in Nat /\ Shed(s)' \in Nat /\ Shed(s) <= Shed(s)'
    BY <1>4, <1>5, <1>6
  <2> QED
    BY <2>1, <2>2, <2>3
<1>8. CASE status = "open" /\ q.side = "BUY"
  <2>1. WithinPosition(q.token, q.size) /\ WithinMarket(q.token, q.price * q.size)
    BY <1>2, <1>8 DEF Submitted, Allowed
  <2>2. SharesBound'
    <3> SUFFICES ASSUME NEW s \in Tokens
                 PROVE  position[s].size + SharesOf(Bids({s}))' <= MaxPositionShares
      BY <1>3 DEF SharesBound
    <3>1. CASE s = q.token
      <4>1. SharesOf(Bids({s}))' = SharesOf(Bids({s})) + q.size
        BY <1>2, <1>4, <1>8, <3>1
      <4>2. position[s].size + SharesOf(Bids({s})) + q.size <= MaxPositionShares
        BY <2>1, <3>1 DEF WithinPosition
      <4> QED
        BY <1>1, <1>5, <4>1, <4>2
    <3>2. CASE s # q.token
      BY <1>4, <3>2 DEF Limits, SharesBound
    <3> QED
      BY <3>1, <3>2
  <2>3. CostBound'
    <3> DEFINE x == q.price * q.size
    <3>1. x \in Nat
      BY <1>1, TradingAssumption DEF TradingAssumption
    <3>2. NotionalOf(Bids(Tokens))' = NotionalOf(Bids(Tokens)) + x
      BY <1>1, <1>2, <1>4, <1>8
    <3>3. position[Yes].cost + position[No].cost + NotionalOf(Bids(Tokens)) + x <= MaxMarketNotional
      BY <2>1 DEF WithinMarket
    <3>4. Yes \in Tokens /\ No \in Tokens /\ MaxMarketNotional \in Nat /\ 0 \in Fees
      BY FeesTyped DEF Tokens, TradingAssumption
    <3>5. \A s \in Tokens : /\ 2 * Positive(position[s].cost) <= 2 * position[s].cost + Shed(s)
                            /\ Positive(position[s].cost) \in Nat
      BY <1>5, PositiveFacts DEF Limits, RoundingBound
    <3>8. /\ position[Yes].cost \in Int /\ position[No].cost \in Int
          /\ Shed(Yes) \in Nat /\ Shed(No) \in Nat /\ NotionalOf(Bids(Tokens)) \in Nat
          /\ Shed(Yes)' \in Nat /\ Shed(No)' \in Nat
          /\ Shed(Yes) <= Shed(Yes)' /\ Shed(No) <= Shed(No)'
      BY <1>4, <1>5, <1>6, <3>4
    <3>9. /\ 2 * Positive(position[Yes].cost) <= 2 * position[Yes].cost + Shed(Yes)
          /\ 2 * Positive(position[No].cost) <= 2 * position[No].cost + Shed(No)
          /\ Positive(position[Yes].cost) \in Nat /\ Positive(position[No].cost) \in Nat
      BY <3>4, <3>5
    <3> HIDE DEF x
    <3>6. 2 * (Positive(position[Yes].cost) + Positive(position[No].cost) + NotionalOf(Bids(Tokens))')
            <= 2 * (MaxMarketNotional + 0) + Shed(Yes)' + Shed(No)'
      BY <3>1, <3>2, <3>3, <3>4, <3>8, <3>9
    <3> QED
      BY <1>3, <3>4, <3>6 DEF CostBound
  <2> QED
    BY <1>4, <1>7, <2>2, <2>3 DEF Limits
<1>9. CASE ~(status = "open" /\ q.side = "BUY")
  <2>1. \A T : SharesOf(Bids(T))' = SharesOf(Bids(T)) /\ NotionalOf(Bids(T))' = NotionalOf(Bids(T))
    BY <1>4, <1>9
  <2>2. SharesBound'
    BY <1>3, <2>1 DEF SharesBound, Limits
  <2>3. CostBound'
    <3>1. PICK fee \in Fees :
            2 * (Positive(position[Yes].cost) + Positive(position[No].cost) + NotionalOf(Bids(Tokens)))
              <= 2 * (MaxMarketNotional + fee) + Shed(Yes) + Shed(No)
      BY DEF Limits, CostBound
    <3>2. fee \in Nat /\ MaxMarketNotional \in Nat /\ Yes \in Tokens /\ No \in Tokens
      BY FeesTyped DEF TradingAssumption, Tokens
    <3>3. Positive(position[Yes].cost) \in Nat /\ Positive(position[No].cost) \in Nat
      BY <1>5, <3>2, PositiveFacts
    <3>4. 2 * (Positive(position[Yes].cost) + Positive(position[No].cost) + NotionalOf(Bids(Tokens))')
            <= 2 * (MaxMarketNotional + fee) + Shed(Yes)' + Shed(No)'
      <4>1. /\ Shed(Yes) \in Nat /\ Shed(No) \in Nat /\ NotionalOf(Bids(Tokens)) \in Nat
            /\ Shed(Yes)' \in Nat /\ Shed(No)' \in Nat
            /\ Shed(Yes) <= Shed(Yes)' /\ Shed(No) <= Shed(No)'
            /\ NotionalOf(Bids(Tokens))' = NotionalOf(Bids(Tokens))
        BY <1>4, <1>5, <1>6, <2>1
      <4> QED
        BY <3>1, <3>2, <3>3, <4>1
    <3> QED
      BY <1>3, <3>4 DEF CostBound
  <2> QED
    BY <1>4, <1>7, <2>2, <2>3 DEF Limits
<1> QED
  BY <1>8, <1>9

LEMMA TakeLimits ==
  ASSUME TradingAssumption, TypeOK, TypeOK', Limits, NEW k \in Takes, OnTake(k)
  PROVE  Limits'
<1>1. k.token \in Tokens /\ k.limit \in 1 .. One - 1 /\ k.size \in Nat \ {0} /\ One \in Nat
  BY DEF TradingAssumption, Take
<1>2. PICK t \in Tokens : k.token = t
  BY <1>1
<1>3. PICK status \in Status \ {"open"} :
        Submitted(t, "BUY", k.limit, k.size, NoExpiry, 0, status)
  <2>1. {"rejected", "cancelled", "filled"} \subseteq Status \ {"open"}
    BY DEF Status
  <2> QED
    BY <1>2, <2>1 DEF OnTake
<1>4. /\ orders' \in Seq(Order) /\ WithinSize'
      /\ \A T : /\ SharesOf(Bids(T))' = SharesOf(Bids(T))
                /\ NotionalOf(Bids(T))' = NotionalOf(Bids(T))
      /\ \A s : Shed(s) <= Shed(s)'
  <2>1. NoExpiry \in Nat \cup {NoExpiry} /\ 0 \in 0 .. k.size /\ "BUY" \in {"BUY", "SELL"}
    BY <1>1
  <2>2. /\ orders' \in Seq(Order) /\ WithinSize'
        /\ \A T : IF status = "open" /\ "BUY" = "BUY" /\ t \in T
                  THEN /\ SharesOf(Bids(T))' = SharesOf(Bids(T)) + 0
                       /\ NotionalOf(Bids(T))' = NotionalOf(Bids(T)) + k.limit * 0
                  ELSE /\ SharesOf(Bids(T))' = SharesOf(Bids(T))
                       /\ NotionalOf(Bids(T))' = NotionalOf(Bids(T))
        /\ \A s : Shed(s) <= Shed(s)'
    <3>1. WithinSize /\ status \in Status
      BY DEF Limits
    <3> HIDE DEF Limits
    <3> QED
      BY <1>1, <1>3, <2>1, <3>1, SubmittedSums
  <2>3. status # "open"
    OBVIOUS
  <2> QED
    BY <2>2, <2>3
<1>5. WithinPosition(t, k.size) /\ WithinMarket(t, k.limit * k.size)
  BY <1>3 DEF Submitted, Allowed
<1>6. /\ position \in [Tokens -> [size : Nat, cost : Int]]
      /\ \A s \in Tokens : position[s].size \in Nat /\ position[s].cost \in Int
      /\ \A T : SharesOf(Bids(T)) \in Nat /\ NotionalOf(Bids(T)) \in Nat
      /\ \A s : Shed(s) \in Nat
  <2>1. /\ position \in [Tokens -> [size : Nat, cost : Int]]
        /\ \A s \in Tokens : position[s].size \in Nat /\ position[s].cost \in Int
    BY DEF TypeOK
  <2> QED
    BY <2>1, SumsTyped DEF TypeOK, Limits
<1>7. \A s : Shed(s)' \in Nat
  BY <1>4, SumsTypedNext
<1>8. /\ Yes \in Tokens /\ No \in Tokens /\ Yes # No /\ (t = Yes \/ t = No)
      /\ MaxMarketNotional \in Nat /\ MaxPositionShares \in Nat
  BY DEF Tokens, TradingAssumption
\* What the take brings: bought shares, at most size, for at most the limit
\* of each, and a fee; or nothing.
<1>9. PICK n \in 0 .. k.size, x \in Nat, fee \in Fees :
        /\ position'[t].size = position[t].size + n
        /\ position'[t].cost = position[t].cost + x
        /\ x <= k.limit * k.size + fee
        /\ \A s \in Tokens : s # t => position'[s] = position[s]
  <2>1. CASE UNCHANGED portfolio
    <3>1. position' = position /\ 0 \in Fees /\ 0 \in 0 .. k.size /\ 0 \in Nat
      BY <1>1, <2>1, FeesTyped DEF portfolio
    <3>2. k.limit * k.size \in Nat
      BY <1>1
    <3>3. position[t].size = position[t].size + 0 /\ position[t].cost = position[t].cost + 0
      BY <1>6
    <3>4. 0 <= k.limit * k.size + 0
      BY <3>2
    <3> QED
      BY <3>1, <3>3, <3>4
  <2>2. CASE \E n \in 1 .. k.size, price \in 1 .. k.limit :
               Bought(k.token, n, price, TakerFee(n, price))
    <3>1. PICK n \in 1 .. k.size, price \in 1 .. k.limit :
            Bought(t, n, price, TakerFee(n, price))
      BY <1>2, <2>2
    <3>2. TakerFee(n, price) \in Nat /\ TakerFee(n, price) \in Fees
      BY DEF TradingAssumption, Fees
    <3> DEFINE fee == TakerFee(n, price)
               paid == n * price
    <3>3. n \in 0 .. k.size /\ n \in Nat /\ price \in Nat /\ n <= k.size /\ price <= k.limit
      BY <1>1
    <3>4. paid \in Nat /\ paid <= k.limit * k.size /\ k.limit * k.size \in Nat
      <4>1. \A a, b, c, d \in Nat : a <= c /\ b <= d => a * b <= d * c /\ a * b \in Nat
        <5>1. ASSUME NEW a \in Nat, NEW b \in Nat, NEW c \in Nat, NEW d \in Nat, a <= c, b <= d
              PROVE  a * b <= d * c /\ a * b \in Nat
          <6>1. a * b <= a * d
            BY <5>1
          <6>2. a * d <= c * d
            BY <5>1
          <6>3. a * b \in Nat /\ a * d \in Nat /\ c * d \in Nat /\ d * c = c * d
            OBVIOUS
          <6> QED
            BY <6>1, <6>2, <6>3
        <5> QED
          BY <5>1
      <4> QED
        BY <1>1, <3>3, <4>1
    <3>5. position' = [position EXCEPT ![t] = [size |-> position[t].size + n,
                                               cost |-> position[t].cost + paid + fee]]
      BY <3>1 DEF Bought
    <3> HIDE DEF fee, paid
    <3>6. /\ position'[t].size = position[t].size + n
          /\ position'[t].cost = position[t].cost + paid + fee
          /\ \A s \in Tokens : s # t => position'[s] = position[s]
      BY <1>6, <3>5
    <3>7. fee \in Nat /\ fee \in Fees
      BY <3>2 DEF fee
    <3>8. /\ paid + fee \in Nat /\ paid + fee <= k.limit * k.size + fee
          /\ position[t].cost + paid + fee = position[t].cost + (paid + fee)
      BY <1>6, <3>4, <3>7
    <3> QED
      BY <3>3, <3>6, <3>7, <3>8
  <2> QED
    BY <2>1, <2>2 DEF OnTake
<1>10. n \in Nat /\ n <= k.size /\ fee \in Nat
  BY <1>1, FeesTyped
<1>11. SharesBound'
  <2> SUFFICES ASSUME NEW s \in Tokens
               PROVE  position'[s].size + SharesOf(Bids({s}))' <= MaxPositionShares
    BY DEF SharesBound
  <2>1. CASE s = t
    <3>1. position[t].size + SharesOf(Bids({t})) + k.size <= MaxPositionShares
      BY <1>5 DEF WithinPosition
    <3>2. SharesOf(Bids({s}))' = SharesOf(Bids({t})) /\ position'[s].size = position[t].size + n
      BY <1>4, <1>9, <2>1
    <3>3. SharesOf(Bids({t})) \in Nat /\ position[t].size \in Nat
      BY <1>6
    <3> QED
      BY <1>1, <1>8, <1>10, <3>1, <3>2, <3>3
  <2>2. CASE s # t
    BY <1>4, <1>9, <2>2 DEF Limits, SharesBound
  <2> QED
    BY <2>1, <2>2
<1>12. RoundingBound'
  <2> SUFFICES ASSUME NEW s \in Tokens
               PROVE  0 <= 2 * position'[s].cost + Shed(s)'
    BY DEF RoundingBound
  <2>1. 0 <= 2 * position[s].cost + Shed(s)
    BY DEF Limits, RoundingBound
  <2>2. Shed(s) \in Nat /\ Shed(s)' \in Nat /\ Shed(s) <= Shed(s)' /\ position[s].cost \in Int
    BY <1>4, <1>6, <1>7
  <2>3. position'[s].cost = position[s].cost \/ position'[s].cost = position[s].cost + x
    BY <1>9
  <2> QED
    BY <2>1, <2>2, <2>3
<1>13. CostBound'
  <2> DEFINE limit == k.limit * k.size
  <2>1. limit \in Nat
    BY <1>1
  <2>2. position[Yes].cost + position[No].cost + NotionalOf(Bids(Tokens)) + limit <= MaxMarketNotional
    BY <1>5 DEF WithinMarket
  <2>3. x <= limit + fee
    BY <1>9
  <2> HIDE DEF limit
  <2>4. \A s \in Tokens :
          /\ 2 * Positive(position[s].cost) <= 2 * position[s].cost + Shed(s)
          /\ Positive(position[s].cost) \in Nat
          /\ Positive(position[s].cost + x) <= Positive(position[s].cost) + x
          /\ Positive(position[s].cost + x) \in Nat
    <3> SUFFICES ASSUME NEW s \in Tokens
                 PROVE  /\ 2 * Positive(position[s].cost) <= 2 * position[s].cost + Shed(s)
                        /\ Positive(position[s].cost) \in Nat
                        /\ Positive(position[s].cost + x) <= Positive(position[s].cost) + x
                        /\ Positive(position[s].cost + x) \in Nat
      OBVIOUS
    <3>1. position[s].cost \in Int /\ position[s].cost + x \in Int /\ Shed(s) \in Nat
      BY <1>6
    <3>2. 0 <= 2 * position[s].cost + Shed(s)
      BY DEF Limits, RoundingBound
    <3> QED
      BY <3>1, <3>2, PositiveFacts
  <2>5. Positive(position'[Yes].cost) + Positive(position'[No].cost)
          <= Positive(position[Yes].cost) + Positive(position[No].cost) + x
    <3>1. position'[t].cost = position[t].cost + x /\ \A s \in Tokens : s # t => position'[s] = position[s]
      BY <1>9
    <3>2. CASE t = Yes
      <4>1. position'[Yes].cost = position[Yes].cost + x /\ position'[No].cost = position[No].cost
        BY <1>8, <3>1, <3>2
      <4> QED
        BY <1>8, <2>4, <4>1
    <3>3. CASE t = No
      <4>1. position'[No].cost = position[No].cost + x /\ position'[Yes].cost = position[Yes].cost
        BY <1>8, <3>1, <3>3
      <4> QED
        BY <1>8, <2>4, <4>1
    <3> QED
      BY <1>8, <3>2, <3>3
  <2>6. /\ Positive(position'[Yes].cost) \in Nat /\ Positive(position'[No].cost) \in Nat
        /\ position[Yes].cost \in Int /\ position[No].cost \in Int
    <3>1. \A s \in Tokens : position'[s].cost \in Int
      BY DEF TypeOK
    <3> QED
      BY <1>6, <1>8, <3>1, PositiveFacts
  <2>7. /\ Shed(Yes) \in Nat /\ Shed(No) \in Nat /\ NotionalOf(Bids(Tokens)) \in Nat
        /\ Shed(Yes)' \in Nat /\ Shed(No)' \in Nat
        /\ Shed(Yes) <= Shed(Yes)' /\ Shed(No) <= Shed(No)'
        /\ NotionalOf(Bids(Tokens))' = NotionalOf(Bids(Tokens))
    BY <1>4, <1>6, <1>7
  <2>8. /\ 2 * Positive(position[Yes].cost) <= 2 * position[Yes].cost + Shed(Yes)
        /\ 2 * Positive(position[No].cost) <= 2 * position[No].cost + Shed(No)
        /\ Positive(position[Yes].cost) \in Nat /\ Positive(position[No].cost) \in Nat
    BY <1>8, <2>4
  <2>9. 2 * (Positive(position'[Yes].cost) + Positive(position'[No].cost) + NotionalOf(Bids(Tokens))')
          <= 2 * (MaxMarketNotional + fee) + Shed(Yes)' + Shed(No)'
    BY <1>8, <1>10, <2>1, <2>2, <2>3, <2>5, <2>6, <2>7, <2>8
  <2> QED
    BY <2>9 DEF CostBound
<1> QED
  BY <1>4, <1>11, <1>12, <1>13 DEF Limits

-----------------------------------------------------------------------------
(* The limits in every step. *)

\* Steps that leave the portfolio alone and close orders or none.
LEMMA QuietLimits ==
  ASSUME TradingAssumption, TypeOK, TypeOK', Limits, UNCHANGED portfolio, Shrinking
  PROVE  Limits'
<1>1. Money /\ Money' /\ position' = position
  BY DEF TypeOK, Money, portfolio
<1>2. \A t \in Tokens : /\ position'[t].size <= position[t].size
                        /\ position'[t].cost \in {position[t].cost, 0}
  BY <1>1 DEF Money
<1> QED
  BY <1>1, <1>2, LimitsShrink

LEMMA OrdersStay ==
  ASSUME TypeOK, UNCHANGED orders
  PROVE  Shrinking
<1>1. \A i \in DOMAIN orders : orders[i] \in Order
  BY DEF TypeOK
<1>2. \A i \in DOMAIN orders : orders[i].remaining <= orders[i].remaining
  BY <1>1 DEF Order
<1> QED
  BY <1>2 DEF TypeOK, Shrinking, Shrunk

\* Closing and expiring shrink an order.
LEMMA CloseShrinks ==
  ASSUME NEW o \in Order
  PROVE  Shrunk(o, Close(o)) /\ Shrunk(o, Expired(o)) /\ Shrunk(o, o)
<1>1. o.remaining \in Nat /\ 0 <= o.remaining /\ o.remaining <= o.remaining
  BY DEF Order
<1>2. Shrunk(o, Close(o))
  BY <1>1 DEF Shrunk, Close, Order, IsOpen
<1>3. Shrunk(o, Expired(o))
  BY <1>1 DEF Shrunk, Expired, Order, IsOpen
<1> QED
  BY <1>1, <1>2, <1>3 DEF Shrunk

LEMMA OrdersClose ==
  ASSUME TypeOK, TypeOK',
         \/ orders' = [i \in DOMAIN orders |-> Close(orders[i])]
         \/ orders' = [i \in DOMAIN orders |-> Expired(orders[i])]
         \/ \E i \in DOMAIN orders : orders' = [orders EXCEPT ![i] = Close(@)]
  PROVE  Shrinking
<1>1. \A i \in DOMAIN orders : orders[i] \in Order
  BY DEF TypeOK
<1>2. DOMAIN orders' = DOMAIN orders
  OBVIOUS
<1>3. \A i \in DOMAIN orders : orders'[i] \in {orders[i], Close(orders[i]), Expired(orders[i])}
  OBVIOUS
<1>4. \A i \in DOMAIN orders : Shrunk(orders[i], orders'[i])
  BY <1>1, <1>3, CloseShrinks
<1> QED
  BY <1>2, <1>4 DEF TypeOK, Shrinking

LEMMA LimitsStep ==
  ASSUME TradingAssumption, TypeOK, TypeOK', Limits, [Next]_vars
  PROVE  Limits'
<1>1. ASSUME UNCHANGED <<orders, portfolio>> PROVE Limits'
  BY <1>1, OrdersStay, QuietLimits
<1>2. ASSUME UNCHANGED portfolio,
             \/ orders' = [i \in DOMAIN orders |-> Close(orders[i])]
             \/ orders' = [i \in DOMAIN orders |-> Expired(orders[i])]
             \/ \E i \in DOMAIN orders : orders' = [orders EXCEPT ![i] = Close(@)]
      PROVE  Limits'
  BY <1>2, OrdersClose, QuietLimits
<1>3. CASE OnEvent
  BY <1>1, <1>2, <1>3 DEF OnEvent, OnPrint, OnBooks, OnGap, OnPrice, NextEvent
<1>4. CASE Fills
  <2>1. ASSUME NEW i \in Open, NEW n \in 1 .. orders[i].remaining, OnFill(i, n)
        PROVE  Limits'
    <3>1. orders' = [orders EXCEPT ![i] = Filled(@, n)] /\ ~Oversold(i, n)
      BY <2>1 DEF OnFill, Executed
    <3>2. orders[i].side = "BUY" \/ orders[i].side = "SELL"
      <4>1. orders[i] \in Order
        BY DEF Open, TypeOK
      <4> QED
        BY <4>1 DEF Order
    <3>3. CASE orders[i].side = "BUY"
      BY <2>1, <3>1, <3>3, BuyLimits DEF OnFill
    <3>4. CASE orders[i].side = "SELL"
      BY <2>1, <3>1, <3>4, SaleLimits DEF OnFill
    <3> QED
      BY <3>2, <3>3, <3>4
  <2>2. ASSUME NEW i \in Open, NEW n \in 1 .. orders[i].remaining, OnOversold(i, n)
        PROVE  Limits'
    <3>1. orders' = [orders EXCEPT ![i] = Filled(@, n)] /\ UNCHANGED portfolio
      BY <2>2 DEF OnOversold, Executed
    <3>2. Shrinking
      BY <3>1, FilledShrinks DEF TypeOK
    <3> QED
      BY <3>1, <3>2, QuietLimits
  <2>3. CASE FillsDone
    BY <1>1, <2>3 DEF FillsDone
  <2> QED
    BY <1>4, <2>1, <2>2, <2>3 DEF Fills
<1>5. CASE ExpireDue
  BY <1>2, <1>5 DEF ExpireDue
<1>6. CASE Evaluate
  BY <1>1, <1>2, <1>6 DEF Evaluate, Proceed, Halt
<1>7. CASE Tick
  <2>1. ASSUME NEW i \in DOMAIN orders, OnCancel(i) PROVE Limits'
    BY <1>2, <2>1 DEF OnCancel
  <2>2. CASE TickDone
    BY <1>1, <2>2 DEF TickDone
  <2> QED
    BY <1>7, <2>1, <2>2, QuoteLimits, TakeLimits DEF Tick
<1>8. CASE Finish
  <2>1. Shrinking
    BY <1>8, OrdersClose DEF Finish
  <2>2. CASE Settles
    <3>1. position' = [t \in Tokens |-> IF position[t].size = 0 THEN position[t]
                                        ELSE [size |-> 0, cost |-> 0]]
      BY <1>8, <2>2 DEF Finish, Settle
    <3>2. Money /\ Money'
      BY DEF TypeOK, Money
    <3>3. \A t \in Tokens : /\ position'[t].size <= position[t].size
                            /\ position'[t].cost \in {position[t].cost, 0}
      <4> SUFFICES ASSUME NEW t \in Tokens
                   PROVE  /\ position'[t].size <= position[t].size
                          /\ position'[t].cost \in {position[t].cost, 0}
        OBVIOUS
      <4>1. position[t].size \in Nat
        BY <3>2 DEF Money
      <4>2. position'[t] = position[t] \/ position'[t] = [size |-> 0, cost |-> 0]
        BY <3>1
      <4> QED
        BY <4>1, <4>2
    <3> QED
      BY <2>1, <3>2, <3>3, LimitsShrink
  <2>3. CASE ~Settles
    BY <1>8, <2>1, <2>3, QuietLimits DEF Finish
  <2> QED
    BY <2>2, <2>3
<1>9. CASE RaiseKill \/ Pause \/ Resume \/ UNCHANGED vars
  BY <1>1, <1>9 DEF RaiseKill, Pause, Resume, vars
<1> QED
  BY <1>3, <1>4, <1>5, <1>6, <1>7, <1>8, <1>9 DEF Next, Loop

LEMMA LimitsInit ==
  ASSUME TradingAssumption, Init
  PROVE  Limits
<1>1. /\ orders = << >> /\ orders \in Seq(Order) /\ DOMAIN orders = {}
      /\ \A t \in Tokens : position[t].size = 0 /\ position[t].cost = 0
  BY DEF Init
<1>2. WithinSize
  BY <1>1 DEF WithinSize
<1>3. (\A T : Bids(T) = {}) /\ (\A t : Offers(t) = {})
  BY <1>1 DEF Bids, Open, Offers
<1>4. /\ \A T : SharesOf(Bids(T)) = 0 /\ NotionalOf(Bids(T)) = 0
      /\ \A t : Shed(t) = 0
  BY <1>3, SumOfNone, SumsNamed
<1>5. /\ Yes \in Tokens /\ No \in Tokens /\ 0 \in Fees
      /\ MaxMarketNotional \in Nat /\ MaxPositionShares \in Nat
  BY FeesTyped DEF Tokens, TradingAssumption
<1>6. SharesBound /\ RoundingBound
  BY <1>1, <1>4, <1>5 DEF SharesBound, RoundingBound
<1>7. 2 * (Positive(position[Yes].cost) + Positive(position[No].cost) + NotionalOf(Bids(Tokens)))
        <= 2 * (MaxMarketNotional + 0) + Shed(Yes) + Shed(No)
  BY <1>1, <1>4, <1>5 DEF Positive
<1> QED
  BY <1>2, <1>5, <1>6, <1>7 DEF CostBound, Limits

\* The position limit holds with everything that may still be filled, and
\* the notional limit but for one fee and the rounding of average costs.
THEOREM LimitsHold == Spec => []LimitsBind
<1>1. Init => Limits
  BY TradingAssumption, LimitsInit
<1>2. TypeOK /\ TypeOK' /\ Limits /\ [Next]_vars => Limits'
  BY TradingAssumption, LimitsStep
<1>3. TypeOK /\ Limits => LimitsBind
  <2> SUFFICES ASSUME TypeOK, Limits PROVE LimitsBind
    OBVIOUS
  <2>1. PICK fee \in Fees :
          2 * (Positive(position[Yes].cost) + Positive(position[No].cost) + NotionalOf(Bids(Tokens)))
            <= 2 * (MaxMarketNotional + fee) + Shed(Yes) + Shed(No)
    BY DEF Limits, CostBound
  <2>2. /\ position[Yes].cost \in Int /\ position[No].cost \in Int
        /\ MaxMarketNotional \in Nat /\ fee \in Nat
    BY TradingAssumption, FeesTyped DEF TypeOK, Tokens, TradingAssumption
  <2>3. /\ Positive(position[Yes].cost) \in Nat /\ position[Yes].cost <= Positive(position[Yes].cost)
        /\ Positive(position[No].cost) \in Nat /\ position[No].cost <= Positive(position[No].cost)
    BY <2>2, PositiveFacts
  <2>4. NotionalOf(Bids(Tokens)) \in Nat /\ Shed(Yes) \in Nat /\ Shed(No) \in Nat
    BY TradingAssumption, SumsTyped DEF TypeOK, Limits
  <2>5. 2 * (position[Yes].cost + position[No].cost + NotionalOf(Bids(Tokens)))
          <= 2 * (MaxMarketNotional + fee) + Shed(Yes) + Shed(No)
    BY <2>1, <2>2, <2>3, <2>4
  <2> QED
    BY <2>5 DEF LimitsBind, Limits, SharesBound
<1> QED
  BY <1>1, <1>2, <1>3, TypeCorrect, PTL DEF Spec

-----------------------------------------------------------------------------
(***************************************************************************)
(* The loop implements the order ledger.                                   *)
(***************************************************************************)

\* What the ledger shows of order o.
Shown(o) == [size |-> o.size, remaining |-> o.remaining, status |-> o.status]

View == [i \in DOMAIN orders |-> Shown(orders[i])]

LEMMA ShownFacts ==
  ASSUME NEW o \in Order
  PROVE  /\ Shown(o) \in Ledger!Entry
         /\ Shown(o).size = o.size /\ Shown(o).size \in Nat
         /\ Shown(o).remaining = o.remaining /\ Shown(o).remaining \in Nat
         /\ Shown(o).status = o.status
BY DEF Shown, Order, Status, Ledger!Entry, Ledger!Closed

LEMMA ViewFacts ==
  orders \in Seq(Order) =>
    /\ Len(orders) \in Nat /\ DOMAIN orders = 1 .. Len(orders)
    /\ View \in Seq(Ledger!Entry) /\ Len(View) = Len(orders) /\ DOMAIN View = DOMAIN orders
    /\ \A i \in DOMAIN orders : orders[i] \in Order /\ View[i] = Shown(orders[i])
<1> SUFFICES ASSUME orders \in Seq(Order)
             PROVE  /\ Len(orders) \in Nat /\ DOMAIN orders = 1 .. Len(orders)
                    /\ View \in Seq(Ledger!Entry) /\ Len(View) = Len(orders)
                    /\ DOMAIN View = DOMAIN orders
                    /\ \A i \in DOMAIN orders : /\ orders[i] \in Order
                                                /\ View[i] = Shown(orders[i])
  OBVIOUS
<1>1. /\ Len(orders) \in Nat /\ DOMAIN orders = 1 .. Len(orders)
      /\ \A i \in DOMAIN orders : orders[i] \in Order
  OBVIOUS
<1>2. View \in [1 .. Len(orders) -> Ledger!Entry] /\ DOMAIN View = DOMAIN orders
      /\ \A i \in DOMAIN orders : View[i] = Shown(orders[i])
  BY <1>1, ShownFacts DEF View
<1>3. View \in Seq(Ledger!Entry) /\ Len(View) = Len(orders)
  <2> HIDE DEF View
  <2> QED
    BY <1>1, <1>2
<1> QED
  BY <1>1, <1>2, <1>3

LEMMA ViewStep ==
  ASSUME orders \in Seq(Order), orders' \in Seq(Order), DOMAIN orders' = DOMAIN orders
  PROVE  /\ View' \in Seq(Ledger!Entry) /\ Len(View') = Len(View)
         /\ \A i \in DOMAIN View : /\ i \in DOMAIN orders
                                   /\ orders[i] \in Order /\ orders'[i] \in Order
                                   /\ View[i] = Shown(orders[i])
                                   /\ View'[i] = Shown(orders'[i])
<1>1. /\ Len(orders) \in Nat /\ DOMAIN orders = 1 .. Len(orders)
      /\ Len(View) = Len(orders) /\ DOMAIN View = DOMAIN orders
      /\ \A i \in DOMAIN orders : orders[i] \in Order /\ View[i] = Shown(orders[i])
  BY ViewFacts
<1>2. (orders \in Seq(Order) =>
         /\ Len(orders) \in Nat /\ DOMAIN orders = 1 .. Len(orders)
         /\ View \in Seq(Ledger!Entry) /\ Len(View) = Len(orders) /\ DOMAIN View = DOMAIN orders
         /\ \A i \in DOMAIN orders : orders[i] \in Order /\ View[i] = Shown(orders[i]))'
  BY ViewFacts, PTL
<1>3. /\ Len(orders') \in Nat /\ DOMAIN orders' = 1 .. Len(orders')
      /\ View' \in Seq(Ledger!Entry) /\ Len(View') = Len(orders')
      /\ \A i \in DOMAIN orders' : orders'[i] \in Order /\ View'[i] = Shown(orders'[i])
  BY <1>2
<1> QED
  BY <1>1, <1>3

\* What the loop does to an order, as the ledger shows it.
LEMMA ShownChanges ==
  ASSUME NEW o \in Order
  PROVE  /\ \A n \in 1 .. o.remaining :
              IsOpen(o) => Ledger!Worked(Shown(o), Shown(Filled(o, n)))
         /\ Shown(Close(o)) = Shown(o) \/ Ledger!Cancelled(Shown(o), Shown(Close(o)))
         /\ Shown(Expired(o)) = Shown(o) \/ Ledger!Lapsed(Shown(o), Shown(Expired(o)))
<1>1. ASSUME NEW n \in 1 .. o.remaining, IsOpen(o)
      PROVE  Ledger!Worked(Shown(o), Shown(Filled(o, n)))
  <2> DEFINE f == Filled(o, n)
  <2>1. /\ o.remaining \in Nat /\ f.size = o.size /\ f.remaining = o.remaining - n
        /\ f.status = IF n = o.remaining THEN "filled" ELSE "open"
    BY DEF Filled, Order
  <2> HIDE DEF f
  <2>2. f.remaining \in 0 .. o.remaining - 1 /\ (f.remaining = 0 <=> n = o.remaining)
    BY <2>1
  <2>3. Ledger!Worked(Shown(o), Shown(f))
    BY <1>1, <2>1, <2>2 DEF Ledger!Worked, Shown, IsOpen
  <2> QED
    BY <2>3 DEF f
<1>2. ASSUME IsOpen(o)
      PROVE  Ledger!Cancelled(Shown(o), Shown(Close(o)))
  <2> DEFINE e == Shown(o)
             g == Shown(Close(o))
  <2>1. /\ e \in Ledger!Entry /\ g \in Ledger!Entry /\ e.status = "open"
        /\ g.status = "cancelled" /\ g.remaining = 0 /\ g.size = e.size
    <3>1. /\ Close(o) \in Order
          /\ Close(o).status = "cancelled" /\ Close(o).remaining = 0 /\ Close(o).size = o.size
      BY <1>2, CloseFacts DEF Close, Order
    <3> QED
      BY <1>2, <3>1, ShownFacts DEF IsOpen
  <2> HIDE DEF e, g
  <2>2. g = [e EXCEPT !.status = "cancelled", !.remaining = 0]
    BY <2>1 DEF Ledger!Entry
  <2> QED
    BY <2>1, <2>2 DEF Ledger!Cancelled, e, g
<1>3. ~IsOpen(o) => Shown(Close(o)) = Shown(o)
  BY DEF Close
<1>4. Shown(Expired(o)) = Shown(o) \/ Ledger!Lapsed(Shown(o), Shown(Expired(o)))
  <2>1. CASE Expired(o) = o
    BY <2>1
  <2>2. CASE Expired(o) # o
    <3>1. IsOpen(o) /\ Expired(o) = [o EXCEPT !.status = "expired"]
      BY <2>2 DEF Expired
    <3> QED
      BY <3>1 DEF Ledger!Lapsed, Shown, IsOpen, Order
  <2> QED
    BY <2>1, <2>2
<1> QED
  BY <1>1, <1>2, <1>3, <1>4

LEMMA FillIsLedgers ==
  ASSUME orders \in Seq(Order), orders' \in Seq(Order),
         NEW i \in Open, NEW n \in 1 .. orders[i].remaining, Executed(i, n)
  PROVE  Ledger!Fill
<1>1. orders' = [orders EXCEPT ![i] = Filled(@, n)] /\ i \in DOMAIN orders /\ IsOpen(orders[i])
  BY DEF Executed, Open
<1>2. DOMAIN orders' = DOMAIN orders
  BY <1>1
<1>3. \A j \in DOMAIN View : View'[j] = View[j] \/ Ledger!Worked(View[j], View'[j])
  BY <1>1, <1>2, ViewStep, ShownChanges
<1>4. View' \in Seq(Ledger!Entry) /\ Len(View') = Len(View)
  BY <1>2, ViewStep
<1> QED
  BY <1>3, <1>4 DEF Ledger!Fill, Ledger!Each, View, Shown

LEMMA ClosingIsLedgers ==
  ASSUME orders \in Seq(Order), orders' \in Seq(Order),
         \/ orders' = [i \in DOMAIN orders |-> Close(orders[i])]
         \/ \E i \in DOMAIN orders : orders' = [orders EXCEPT ![i] = Close(@)]
  PROVE  Ledger!Cancel
<1>1. DOMAIN orders' = DOMAIN orders
  OBVIOUS
<1>2. \A j \in DOMAIN orders : orders'[j] \in {orders[j], Close(orders[j])}
  OBVIOUS
<1>3. \A j \in DOMAIN View : View'[j] = View[j] \/ Ledger!Cancelled(View[j], View'[j])
  BY <1>1, <1>2, ViewStep, ShownChanges
<1>4. View' \in Seq(Ledger!Entry) /\ Len(View') = Len(View)
  BY <1>1, ViewStep
<1> QED
  BY <1>3, <1>4 DEF Ledger!Cancel, Ledger!Each, View, Shown

LEMMA ExpiryIsLedgers ==
  ASSUME orders \in Seq(Order), orders' \in Seq(Order),
         orders' = [i \in DOMAIN orders |-> Expired(orders[i])]
  PROVE  Ledger!Expire
<1>1. DOMAIN orders' = DOMAIN orders
  OBVIOUS
<1>2. \A j \in DOMAIN orders : orders'[j] = Expired(orders[j])
  OBVIOUS
<1>3. \A j \in DOMAIN View : View'[j] = View[j] \/ Ledger!Lapsed(View[j], View'[j])
  BY <1>1, <1>2, ViewStep, ShownChanges, ZenonT(60)
<1>4. View' \in Seq(Ledger!Entry) /\ Len(View') = Len(View)
  BY <1>1, ViewStep
<1> QED
  BY <1>3, <1>4 DEF Ledger!Expire, Ledger!Each, View, Shown

LEMMA PlacingIsLedgers ==
  ASSUME orders \in Seq(Order), NEW f \in Order, orders' = Append(orders, f),
         f.remaining <= f.size, f.status = "open" => f.remaining > 0,
         f.status # "open" => f.remaining = 0, f.status # "expired"
  PROVE  Ledger!Place
<1> DEFINE n == Len(orders)
<1>1. /\ n \in Nat /\ DOMAIN orders = 1 .. n
      /\ View \in Seq(Ledger!Entry) /\ Len(View) = n
  BY ViewFacts
<1>2. View' = Append(View, Shown(f))
  <2>1. /\ DOMAIN orders' = 1 .. n + 1 /\ orders'[n + 1] = f
        /\ \A i \in 1 .. n : orders'[i] = orders[i]
    BY <1>1
  <2>2. View' = [i \in 1 .. n + 1 |-> Shown(orders'[i])]
    BY <2>1 DEF View
  <2>3. Append(View, Shown(f)) = [i \in 1 .. n + 1 |-> IF i = n + 1 THEN Shown(f) ELSE View[i]]
    BY <1>1 DEF View
  <2>4. \A i \in 1 .. n + 1 : Shown(orders'[i]) = IF i = n + 1 THEN Shown(f) ELSE View[i]
    BY <1>1, <2>1 DEF View
  <2> QED
    BY <2>2, <2>3, <2>4
<1>3. Shown(f) \in Ledger!Entry
  BY ShownFacts
<1>4. Len(View') = Len(View) + 1 /\ View'[Len(View) + 1] = Shown(f)
  <2> HIDE DEF View
  <2> QED
    BY <1>1, <1>2, <1>3
<1>5. Ledger!Fresh(Shown(f))
  BY ShownFacts DEF Ledger!Fresh
<1> QED
  BY <1>2, <1>4, <1>5, ZenonT(60) DEF Ledger!Place, View, Shown

LEMMA SubmittedIsLedgers ==
  ASSUME orders \in Seq(Order), orders' \in Seq(Order),
         NEW t \in Tokens, NEW side, NEW price, NEW size \in Nat \ {0}, NEW expires,
         NEW remaining, NEW status, Submitted(t, side, price, size, expires, remaining, status),
         \/ status = "open" /\ remaining = size
         \/ status \in {"filled", "cancelled", "rejected"} /\ remaining = 0
  PROVE  Ledger!Place
<1> DEFINE f == [token |-> t, side |-> side, price |-> price, size |-> size,
                 remaining |-> remaining, status |-> status,
                 expires |-> expires, event |-> events]
<1>1. orders' = Append(orders, f)
  BY DEF Submitted
<1>2. f.remaining <= f.size /\ f.remaining = remaining /\ f.status = status /\ f.size = size
  OBVIOUS
<1> HIDE DEF f
<1>3. f \in Order
  <2>1. /\ Len(orders) \in Nat
        /\ DOMAIN orders' = 1 .. Len(orders) + 1 /\ orders'[Len(orders) + 1] = f
    BY <1>1
  <2> QED
    BY <2>1
<1> QED
  BY <1>1, <1>2, <1>3, PlacingIsLedgers

LEMMA LedgerInit == Init => Ledger!Init
<1> SUFFICES ASSUME Init PROVE Ledger!Init
  OBVIOUS
<1>1. orders = << >>
  BY DEF Init
<1>2. [i \in DOMAIN orders |-> [size      |-> orders[i].size,
                                remaining |-> orders[i].remaining,
                                status    |-> orders[i].status]] = << >>
  BY <1>1
<1> QED
  BY <1>2 DEF Ledger!Init

LEMMA LedgerStep ==
  ASSUME TradingAssumption, TypeOK, TypeOK', [Next]_vars
  PROVE  [Ledger!Next]_View
<1>1. orders \in Seq(Order) /\ orders' \in Seq(Order)
  BY DEF TypeOK
<1>2. ASSUME UNCHANGED orders PROVE UNCHANGED View
  BY <1>2 DEF View
<1>3. ASSUME \/ orders' = [i \in DOMAIN orders |-> Close(orders[i])]
             \/ \E i \in DOMAIN orders : orders' = [orders EXCEPT ![i] = Close(@)]
      PROVE  Ledger!Next
  BY <1>1, <1>3, ClosingIsLedgers DEF Ledger!Next
<1>4. CASE OnEvent
  BY <1>2, <1>3, <1>4 DEF OnEvent, OnPrint, OnBooks, OnGap, OnPrice
<1>5. CASE Fills
  <2>1. ASSUME NEW i \in Open, NEW n \in 1 .. orders[i].remaining, Executed(i, n)
        PROVE  Ledger!Next
    BY <1>1, <2>1, FillIsLedgers DEF Ledger!Next
  <2> QED
    BY <1>2, <1>5, <2>1 DEF Fills, FillsDone, OnFill, OnOversold
<1>6. CASE ExpireDue
  BY <1>1, <1>6, ExpiryIsLedgers DEF ExpireDue, Ledger!Next
<1>7. CASE Evaluate
  BY <1>2, <1>3, <1>7 DEF Evaluate, Proceed, Halt
<1>8. CASE Tick
  <2>1. ASSUME NEW q \in Quotes, OnQuote(q) PROVE Ledger!Place
    <3>1. q.token \in Tokens /\ q.size \in Nat \ {0}
      BY DEF TradingAssumption, Quote
    <3> QED
      BY <1>1, <2>1, <3>1, SubmittedIsLedgers DEF OnQuote
  <2>2. ASSUME NEW k \in Takes, OnTake(k) PROVE Ledger!Place
    <3>1. k.token \in Tokens /\ k.size \in Nat \ {0}
      BY DEF TradingAssumption, Take
    <3>2. \E status \in {"filled", "cancelled", "rejected"} :
            Submitted(k.token, "BUY", k.limit, k.size, NoExpiry, 0, status)
      BY <2>2 DEF OnTake
    <3> QED
      BY <1>1, <3>1, <3>2, SubmittedIsLedgers
  <2>3. ASSUME NEW i \in DOMAIN orders, OnCancel(i) PROVE Ledger!Next
    BY <1>3, <2>3 DEF OnCancel
  <2>4. CASE TickDone
    BY <1>2, <2>4 DEF TickDone
  <2> QED
    BY <1>8, <2>1, <2>2, <2>3, <2>4 DEF Tick, Ledger!Next
<1>9. CASE Finish
  BY <1>3, <1>9 DEF Finish
<1>10. CASE RaiseKill \/ Pause \/ Resume \/ UNCHANGED vars
  BY <1>2, <1>10 DEF RaiseKill, Pause, Resume, vars
<1> QED
  BY <1>4, <1>5, <1>6, <1>7, <1>8, <1>9, <1>10 DEF Next, Loop

(***************************************************************************)
(* The loop, its breakers and the strategy treat orders as the executor    *)
(* promises: a closed order is final whatever closed it.                   *)
(***************************************************************************)
THEOREM LedgerImplemented == Spec => ImplementsLedger
<1>1. TradingAssumption /\ TypeOK /\ TypeOK' /\ [Next]_vars => [Ledger!Next]_View
  BY LedgerStep
<1> QED
  BY <1>1, LedgerInit, TypeCorrect, TradingAssumption, PTL
     DEF Spec, ImplementsLedger, Ledger!Spec, View, Shown
=============================================================================
