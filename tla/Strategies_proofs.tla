-------------------------- MODULE Strategies_proofs -------------------------
(***************************************************************************)
(* Theorems about the strategies and the calibration, for any books,       *)
(* prints, prices of the feed, settings and clocks: inventory stays near   *)
(* its limit, expensive pairs have a reason, no quote outlives its round,  *)
(* and every offset is sampled in time.                                    *)
(***************************************************************************)
EXTENDS Calibration, Sums

-----------------------------------------------------------------------------
(* The invariant. *)

Part   == 1 .. One \cup {Unknown}
Sides  == [bid : Part, ask : Part]
Number == Int \cup {Unknown}
Bids   == [token : Tokens, price : Int, size : Nat, lean : Int, ref : Int, made : Int]
Moment == [at : Int, mid : Int]

Typed ==
  /\ strategy \in Kinds \cup {"calibration"} /\ phase \in {"event", "tick"}
  /\ top \in [Tokens -> Sides] /\ printed \in [Tokens -> Number]
  /\ position \in [Tokens -> Int] /\ now \in Int
  /\ resting \subseteq Bids
  /\ lastAt \in [Tokens -> Number] /\ history \in Seq(Moment)

\* Strategies other than the two quoters have no order that rests.
OnlyQuotersRest == strategy \notin {"two_sided", "fair_value"} => resting = {}

OneEach == \A a, b \in resting : a.token = b.token => a = b

Bound == MaxInventory + LargestQuote

Bounded ==
  /\ \A t \in Tokens : position[t] < Bound
  /\ \A o \in resting : position[o.token] + o.size < Bound

\* What rests is of the latest round.
OfOneRound == \A o \in resting : o.made = lastAt["up"]

\* The edges of the two bids of a round add up to what the pair leaves of a dollar.
Paired ==
  strategy = "fair_value" =>
    \A a \in RestingOn("up"), b \in RestingOn("down") :
      /\ a.lean + b.lean = One - a.ref - b.ref
      /\ a.price + b.price > One => a.lean >= MinEdge /\ b.lean >= MinEdge

Quoted == OnlyQuotersRest /\ OneEach /\ Bounded /\ OfOneRound /\ Paired

-----------------------------------------------------------------------------
(* Numbers. *)

LEMMA Parameters ==
  /\ One \in Nat \ {0} /\ Unknown \notin Int /\ Fairs \subseteq 0 .. One
  /\ Tick \in Nat \ {0} /\ Size \in Nat \ {0} /\ RequoteEvery \in Nat \ {0}
  /\ Ttl \in Nat \ {0} /\ RequoteEvery <= Ttl /\ MaxInventory \in Nat \ {0}
  /\ MinOrder \in Nat \ {0} /\ Lookback \in Nat \ {0} /\ LeanGain \in Nat \ {0}
  /\ MinEdge \in Nat \ {0} /\ EdgeGain \in Nat \ {0} /\ MaxRatio \in Nat \ {0}
  /\ MaxLean \in 0 .. One /\ Shrink \in 0 .. One
  BY SignalsAssumption, StrategiesAssumption

LEMMA QuotientGrows ==
  ASSUME NEW a \in Nat, NEW b \in Nat, a <= b, NEW d \in Nat \ {0}
  PROVE  a \div d \in Nat /\ b \div d \in Nat /\ a \div d <= b \div d
<1> DEFINE p == a \div d
           q == b \div d
<1>1. p \in Int /\ a = d * p + (a % d) /\ 0 <= a % d /\ a % d < d
  OBVIOUS
<1>2. q \in Int /\ b = d * q + (b % d) /\ 0 <= b % d /\ b % d < d
  OBVIOUS
<1>3. a % d \in Int /\ b % d \in Int
  OBVIOUS
<1>4. p \in Nat /\ q \in Nat
  OBVIOUS
<1> HIDE DEF p, q
<1>5. d * p <= a /\ b < d * q + d /\ d * p \in Int /\ d * q \in Int
  BY <1>1, <1>2, <1>3
<1>6. d * p < d * (q + 1)
  <2>1. d * (q + 1) = d * q + d
    BY <1>2
  <2> QED
    BY <1>5, <2>1
<1>7. p < q + 1
  <2> SUFFICES ASSUME p >= q + 1 PROVE FALSE
    BY <1>1, <1>2
  <2>1. d * p >= d * (q + 1)
    BY <1>1, <1>2
  <2>2. d * (q + 1) \in Int
    BY <1>2
  <2> QED
    BY <1>5, <1>6, <2>1, <2>2
<1> QED
  BY <1>1, <1>2, <1>4, <1>7 DEF p, q

\* The greater and the lesser of two numbers.
LEMMA OfTwo ==
  ASSUME NEW a \in Int, NEW b \in Int
  PROVE  /\ Max({a, b}) \in {a, b} /\ Max({a, b}) >= a /\ Max({a, b}) >= b
         /\ Min({a, b}) \in {a, b} /\ Min({a, b}) <= a /\ Min({a, b}) <= b
<1>1. \E x \in {a, b} : \A y \in {a, b} : x >= y
  <2>1. CASE a >= b
    BY <2>1
  <2>2. CASE ~(a >= b)
    <3>1. b >= a /\ b >= b
      BY <2>2
    <3>2. \A y \in {a, b} : b >= y
      BY <3>1
    <3> QED
      BY <3>2
  <2> QED
    BY <2>1, <2>2
<1>2. \E x \in {a, b} : \A y \in {a, b} : x <= y
  <2>1. CASE a <= b
    BY <2>1
  <2>2. CASE ~(a <= b)
    <3>1. b <= a /\ b <= b
      BY <2>2
    <3>2. \A y \in {a, b} : b <= y
      BY <3>1
    <3> QED
      BY <3>2
  <2> QED
    BY <2>1, <2>2
<1>3. Max({a, b}) \in {a, b} /\ \A y \in {a, b} : Max({a, b}) >= y
  BY <1>1 DEF Max
<1>4. Min({a, b}) \in {a, b} /\ \A y \in {a, b} : Min({a, b}) <= y
  BY <1>2 DEF Min
<1> QED
  BY <1>3, <1>4

LEMMA Clamped ==
  ASSUME NEW low \in Int, NEW x \in Int, NEW high \in Int, low <= high
  PROVE  Clamp(low, x, high) \in low .. high
<1> DEFINE m == Min({x, high})
<1>1. m \in Int /\ m <= high
  BY OfTwo
<1> HIDE DEF m
<1>2. Max({low, m}) \in {low, m} /\ Max({low, m}) >= low
  BY <1>1, OfTwo
<1>3. Max({low, m}) \in low .. high
  BY <1>1, <1>2
<1> QED
  BY <1>3 DEF Clamp, m

LEMMA SizedGrows ==
  ASSUME NEW f \in Nat, NEW most \in Nat, f <= most
  PROVE  Sized(f) \in Nat /\ Sized(most) \in Nat /\ Sized(f) <= Sized(most)
<1>1. Size * f \in Nat /\ Size * most \in Nat /\ Size * f <= Size * most
  BY Parameters
<1> QED
  BY <1>1, Parameters, QuotientGrows DEF Sized

LEMMA LargestType == LargestQuote \in Nat
<1>1. MaxLean \in Nat /\ One + MaxLean \in Nat /\ MaxRatio * One \in Nat /\ Size \in Nat
  BY Parameters
<1>2. Sized(One + MaxLean) \in Nat /\ Sized(MaxRatio * One) \in Nat
  BY <1>1, SizedGrows
<1> QED
  BY <1>1, <1>2 DEF LargestQuote

-----------------------------------------------------------------------------
(* What a strategy sees. *)

LEMMA ReferenceType ==
  ASSUME Typed, NEW t \in Tokens
  PROVE  reference_price(t) \in Number
<1>1. top[t].bid \in Part /\ top[t].ask \in Part /\ printed[t] \in Number
  BY DEF Typed, Sides
<1>2. CASE TwoSided(t)
  <2>1. top[t].bid \in Nat /\ top[t].ask \in Nat
    BY <1>1, <1>2, Parameters DEF TwoSided, Part
  <2>2. (top[t].bid + top[t].ask) \div 2 \in Int
    BY <2>1
  <2> QED
    BY <1>2, <2>2 DEF reference_price, Number
<1>3. CASE ~TwoSided(t)
  BY <1>1, <1>3 DEF reference_price
<1> QED
  BY <1>2, <1>3

LEMMA QuotableIs ==
  ASSUME Typed, NEW t \in Quotable
  PROVE  t \in Tokens /\ reference_price(t) \in Int /\ BidPrice(t) \in Int
<1>1. t \in Tokens /\ reference_price(t) # Unknown /\ BidPrice(t) \in 1 .. One - 1
  BY DEF Quotable
<1>2. BidPrice(t) \in Int
  BY <1>1, Parameters
<1> QED
  BY <1>1, <1>2, ReferenceType DEF Number

LEMMA RememberedType ==
  ASSUME Typed, reference_price("up") \in Int
  PROVE  /\ Remembered \in Seq(Moment) /\ Head(Remembered).mid \in Int
<1> DEFINE all == Append(history, [at |-> now, mid |-> reference_price("up")])
           fresh == {i \in DOMAIN all : now - all[i].at <= Lookback}
           n == Len(all)
<1>1. all \in Seq(Moment) /\ n \in Nat /\ n > 0 /\ all[n] = [at |-> now, mid |-> reference_price("up")]
      /\ DOMAIN all = 1 .. n
  <2>1. [at |-> now, mid |-> reference_price("up")] \in Moment
    BY DEF Typed, Moment
  <2> QED
    BY <2>1 DEF Typed
<1>2. n \in fresh
  <2>1. now - now <= Lookback
    BY Parameters DEF Typed
  <2> HIDE DEF all
  <2> QED
    BY <1>1, <2>1
<1>3. Min(fresh) \in fresh
  <2>1. fresh \subseteq Nat
    BY <1>1
  <2> HIDE DEF fresh
  <2>2. \E x \in fresh : \A y \in fresh : x <= y
    BY <1>2, <2>1, LeastNumber
  <2> QED
    BY <2>2 DEF Min
<1>4. PICK m \in 1 .. n : m = Min(fresh)
  BY <1>1, <1>3
<1> HIDE DEF all
<1>5. SubSeq(all, m, n) \in Seq(Moment) /\ Head(SubSeq(all, m, n)) \in Moment
  <2>1. \A i \in m .. n : all[i] \in Moment
    BY <1>1
  <2>2. /\ SubSeq(all, m, n) \in Seq(Moment) /\ Len(SubSeq(all, m, n)) = n - m + 1
    BY <1>1, <1>4, <2>1
  <2> QED
    BY <1>1, <1>4, <2>2
<1>6. Remembered = SubSeq(all, m, n)
  BY <1>4 DEF Remembered, all
<1> QED
  BY <1>5, <1>6 DEF Moment

LEMMA LeanType ==
  ASSUME Typed, reference_price("up") \in Int
  PROVE  Lean \in -MaxLean .. MaxLean
<1> DEFINE x == LeanGain * (reference_price("up") - Head(Remembered).mid)
<1>1. x \in Int
  BY RememberedType, Parameters
<1> HIDE DEF x
<1>2. MaxLean \in Int /\ -MaxLean \in Int /\ -MaxLean <= MaxLean
  BY Parameters
<1>3. Clamp(-MaxLean, x, MaxLean) \in -MaxLean .. MaxLean
  BY <1>1, <1>2, Clamped
<1> QED
  BY <1>3 DEF Lean, x

-----------------------------------------------------------------------------
(* A round of quotes. *)

\* The quotes of a round, of which any may be refused.
Round(quotes) ==
  /\ quotes \subseteq Bids
  /\ \A q \in quotes : q.made = now /\ position[q.token] + q.size < Bound
  /\ \A p, q \in quotes : p.token = q.token => p = q

LEMMA TwoSidedRound ==
  ASSUME Typed, strategy = "two_sided", reference_price("up") \in Int
  PROVE  Round(TwoSidedQuotes)
<1> DEFINE Factor(t) == IF t = "up" THEN One + Lean ELSE One - Lean
           chosen == {u \in Quotable : Room(u) /\ Sized(Factor(u)) >= MinOrder}
<1>1. TwoSidedQuotes = {Quote(t, Factor(t), Lean) : t \in chosen}
  BY DEF TwoSidedQuotes
<1>2. PICK l \in Int : l = Lean /\ -MaxLean <= l /\ l <= MaxLean
  BY LeanType, Parameters
<1>3. One + l \in Nat /\ One - l \in Nat /\ One + l <= One + MaxLean /\ One - l <= One + MaxLean
      /\ One + MaxLean \in Nat
  BY <1>2, Parameters
<1>4. \A t : Sized(Factor(t)) \in Nat /\ Sized(Factor(t)) <= LargestQuote
  <2>1. LargestQuote = Sized(One + MaxLean)
    BY DEF LargestQuote
  <2>2. Sized(One + l) \in Nat /\ Sized(One + l) <= Sized(One + MaxLean)
    BY <1>3, SizedGrows
  <2>3. Sized(One - l) \in Nat /\ Sized(One - l) <= Sized(One + MaxLean)
    BY <1>3, SizedGrows
  <2> QED
    BY <1>2, <2>1, <2>2, <2>3
<1> HIDE DEF Factor
<1>5. ASSUME NEW t \in chosen
      PROVE  /\ Quote(t, Factor(t), Lean) \in Bids
             /\ Quote(t, Factor(t), Lean).made = now /\ Quote(t, Factor(t), Lean).token = t
             /\ position[t] + Quote(t, Factor(t), Lean).size < Bound
  <2> DEFINE q == Quote(t, Factor(t), Lean)
  <2>1. t \in Tokens /\ reference_price(t) \in Int /\ BidPrice(t) \in Int /\ now \in Int
    BY QuotableIs DEF Typed
  <2>2. q = [token |-> t, price |-> BidPrice(t), size |-> Sized(Factor(t)), lean |-> l,
             ref |-> reference_price(t), made |-> now]
    BY <1>2 DEF Quote
  <2>3. q \in Bids /\ q.made = now /\ q.token = t
    BY <1>4, <2>1, <2>2 DEF Bids
  <2>4. position[t] < MaxInventory /\ position[t] \in Int
    BY <2>1 DEF Room, Typed
  <2>5. q.size \in Nat /\ q.size <= LargestQuote
    BY <1>4, <2>2
  <2> HIDE DEF q
  <2>6. position[t] + q.size < Bound
    BY <2>4, <2>5, LargestType, Parameters DEF Bound
  <2> QED
    BY <2>3, <2>6 DEF q
<1> HIDE DEF chosen
<1> QED
  BY <1>1, <1>5 DEF Round

LEMMA EdgeType ==
  ASSUME Typed, NEW fair \in Fairs, NEW t \in Quotable
  PROVE  FairUp(fair) \in Int /\ Edge(fair, t) \in Int
<1>1. fair \in Int /\ One \in Int /\ Shrink \in Int /\ One > 0
  BY Parameters
<1>2. FairUp(fair) \in Int
  <2>1. CASE Shrink > 0 /\ reference_price("up") # Unknown
    <3>1. reference_price("up") \in Int
      BY <2>1, ReferenceType DEF Number, Tokens
    <3>2. (One - Shrink) * fair + Shrink * reference_price("up") \in Int
      BY <1>1, <3>1
    <3> DEFINE n == (One - Shrink) * fair + Shrink * reference_price("up")
    <3>3. FairUp(fair) = n \div One
      BY <2>1 DEF FairUp
    <3> HIDE DEF n
    <3> QED
      BY <1>1, <3>2, <3>3 DEF n
  <2>2. CASE ~(Shrink > 0 /\ reference_price("up") # Unknown)
    BY <1>1, <2>2 DEF FairUp
  <2> QED
    BY <2>1, <2>2
<1>3. reference_price(t) \in Int
  BY QuotableIs
<1> QED
  BY <1>1, <1>2, <1>3 DEF Edge

\* What a pair of quotes of the fair value says of its price.
Reasoned(quotes) ==
  \A a, b \in quotes : a.token = "up" /\ b.token = "down" =>
    /\ a.lean + b.lean = One - a.ref - b.ref
    /\ a.price + b.price > One => a.lean >= MinEdge /\ b.lean >= MinEdge

LEMMA FairValueRound ==
  ASSUME Typed, strategy = "fair_value", NEW fair \in Fairs
  PROVE  Round(FairValueQuotes(fair)) /\ Reasoned(FairValueQuotes(fair))
<1> DEFINE Factor(t) == Clamp(0, One + EdgeGain * Edge(fair, t), MaxRatio * One)
           Wanted(t) == (PairOk \/ Edge(fair, t) >= MinEdge) /\ Room(t) /\ Sized(Factor(t)) >= MinOrder
           chosen == {u \in Quotable : Wanted(u)}
<1>1. FairValueQuotes(fair) = {Quote(t, Factor(t), Edge(fair, t)) : t \in chosen}
  BY DEF FairValueQuotes
<1>2. ASSUME NEW t \in Quotable
      PROVE  Sized(Factor(t)) \in Nat /\ Sized(Factor(t)) <= LargestQuote
  <2>1. One + EdgeGain * Edge(fair, t) \in Int /\ MaxRatio * One \in Nat
    BY EdgeType, Parameters
  <2>2. Factor(t) \in 0 .. MaxRatio * One
    BY <2>1, Clamped
  <2>3. Factor(t) \in Nat /\ Factor(t) <= MaxRatio * One
    BY <2>1, <2>2
  <2>4. LargestQuote = Sized(MaxRatio * One)
    BY DEF LargestQuote
  <2> HIDE DEF Factor
  <2> QED
    BY <2>1, <2>3, <2>4, SizedGrows
<1>3. \A t \in chosen : t \in Quotable /\ Room(t) /\ (PairOk \/ Edge(fair, t) >= MinEdge)
  OBVIOUS
<1> HIDE DEF Factor, chosen
<1>4. ASSUME NEW t \in chosen
      PROVE  /\ Quote(t, Factor(t), Edge(fair, t)) \in Bids
             /\ Quote(t, Factor(t), Edge(fair, t)).made = now
             /\ Quote(t, Factor(t), Edge(fair, t)).token = t
             /\ Quote(t, Factor(t), Edge(fair, t)).lean = Edge(fair, t)
             /\ Quote(t, Factor(t), Edge(fair, t)).ref = reference_price(t)
             /\ Quote(t, Factor(t), Edge(fair, t)).price = BidPrice(t)
             /\ position[t] + Quote(t, Factor(t), Edge(fair, t)).size < Bound
  <2> DEFINE q == Quote(t, Factor(t), Edge(fair, t))
  <2>1. /\ t \in Tokens /\ reference_price(t) \in Int /\ BidPrice(t) \in Int /\ now \in Int
        /\ Edge(fair, t) \in Int /\ Sized(Factor(t)) \in Nat /\ Sized(Factor(t)) <= LargestQuote
    BY <1>2, <1>3, QuotableIs, EdgeType DEF Typed
  <2>2. q = [token |-> t, price |-> BidPrice(t), size |-> Sized(Factor(t)), lean |-> Edge(fair, t),
             ref |-> reference_price(t), made |-> now]
    BY DEF Quote
  <2>3. /\ q \in Bids /\ q.made = now /\ q.token = t /\ q.lean = Edge(fair, t)
        /\ q.ref = reference_price(t) /\ q.price = BidPrice(t)
    BY <2>1, <2>2 DEF Bids
  <2>4. position[t] < MaxInventory /\ position[t] \in Int
    BY <1>3, <2>1 DEF Room, Typed
  <2>5. q.size \in Nat /\ q.size <= LargestQuote
    BY <2>1, <2>2
  <2> HIDE DEF q
  <2>6. position[t] + q.size < Bound
    BY <2>4, <2>5, LargestType, Parameters DEF Bound
  <2> QED
    BY <2>3, <2>6 DEF q
<1>5. Round(FairValueQuotes(fair))
  BY <1>1, <1>4 DEF Round
<1>6. Reasoned(FairValueQuotes(fair))
  <2> SUFFICES ASSUME "up" \in chosen, "down" \in chosen
               PROVE  /\ Edge(fair, "up") + Edge(fair, "down")
                           = One - reference_price("up") - reference_price("down")
                      /\ BidPrice("up") + BidPrice("down") > One =>
                           Edge(fair, "up") >= MinEdge /\ Edge(fair, "down") >= MinEdge
    <3>1. \A a \in FairValueQuotes(fair) : \E t \in chosen :
            a.token = t /\ a.lean = Edge(fair, t) /\ a.ref = reference_price(t) /\ a.price = BidPrice(t)
      BY <1>1, <1>4
    <3> QED
      BY <3>1 DEF Reasoned
  <2>1. "up" \in Quotable /\ "down" \in Quotable
    BY <1>3
  <2>2. /\ reference_price("up") \in Int /\ reference_price("down") \in Int /\ FairUp(fair) \in Int
        /\ One \in Int /\ BidPrice("up") \in Int /\ BidPrice("down") \in Int
    BY <2>1, QuotableIs, EdgeType, Parameters
  <2>3. /\ Edge(fair, "up") = FairUp(fair) - reference_price("up")
        /\ Edge(fair, "down") = (One - FairUp(fair)) - reference_price("down")
    BY DEF Edge
  <2>4. Edge(fair, "up") + Edge(fair, "down") = One - reference_price("up") - reference_price("down")
    BY <2>2, <2>3
  <2>5. BidPrice("up") + BidPrice("down") > One => ~PairOk
    BY <2>2 DEF PairOk
  <2> QED
    BY <1>3, <2>4, <2>5
<1> QED
  BY <1>5, <1>6

-----------------------------------------------------------------------------
(* What may happen to the quotes of a round. *)

\* Some of them remain, perhaps with fewer shares.
LEMMA ThinnedKeeps ==
  ASSUME Typed, Quoted, strategy' = strategy, NEW R \in SUBSET resting, NEW cut \in [R -> Nat],
         \A o \in R : cut[o] <= o.size /\ position'[o.token] + (o.size - cut[o]) < Bound,
         resting' = {Left(o, cut[o]) : o \in R},
         \A t \in Tokens : position'[t] < Bound,
         lastAt'["up"] = lastAt["up"] \/ resting = {}
  PROVE  resting' \subseteq Bids /\ Quoted'
<1>1. Bound' = Bound
  BY DEF Bound, LargestQuote
<1>2. \A o \in R :
        /\ Left(o, cut[o]) \in Bids /\ Left(o, cut[o]).token = o.token
        /\ Left(o, cut[o]).price = o.price /\ Left(o, cut[o]).lean = o.lean
        /\ Left(o, cut[o]).ref = o.ref /\ Left(o, cut[o]).made = o.made
        /\ Left(o, cut[o]).size = o.size - cut[o]
  <2> SUFFICES ASSUME NEW o \in R
               PROVE  /\ Left(o, cut[o]) \in Bids /\ Left(o, cut[o]).token = o.token
                      /\ Left(o, cut[o]).price = o.price /\ Left(o, cut[o]).lean = o.lean
                      /\ Left(o, cut[o]).ref = o.ref /\ Left(o, cut[o]).made = o.made
                      /\ Left(o, cut[o]).size = o.size - cut[o]
    OBVIOUS
  <2>1. o \in Bids /\ o.size \in Nat /\ cut[o] \in Nat /\ cut[o] <= o.size
    BY DEF Typed, Bids
  <2>2. o.size - cut[o] \in Nat
    BY <2>1
  <2>3. Left(o, cut[o]) = [o EXCEPT !.size = o.size - cut[o]]
    BY DEF Left
  <2> QED
    BY <2>1, <2>2, <2>3 DEF Bids
<1>3. \A n \in resting' : \E o \in R : n = Left(o, cut[o])
  OBVIOUS
<1>4. OnlyQuotersRest' /\ OfOneRound'
  BY <1>2, <1>3 DEF Quoted, OnlyQuotersRest, OfOneRound
<1>5. OneEach'
  BY <1>2, <1>3 DEF Quoted, OneEach
<1>6. Bounded'
  BY <1>1, <1>2, <1>3 DEF Bounded
<1>7. Paired'
  <2> SUFFICES ASSUME strategy = "fair_value", NEW a \in resting', NEW b \in resting',
                      a.token = "up", b.token = "down"
               PROVE  /\ a.lean + b.lean = One - a.ref - b.ref
                      /\ a.price + b.price > One => a.lean >= MinEdge /\ b.lean >= MinEdge
    BY DEF Paired, RestingOn
  <2>1. PICK o \in R : a = Left(o, cut[o])
    BY <1>3
  <2>2. PICK p \in R : b = Left(p, cut[p])
    BY <1>3
  <2>3. o \in RestingOn("up") /\ p \in RestingOn("down")
    BY <1>2, <2>1, <2>2 DEF RestingOn
  <2>4. /\ o.lean + p.lean = One - o.ref - p.ref
        /\ o.price + p.price > One => o.lean >= MinEdge /\ p.lean >= MinEdge
    BY <2>3 DEF Quoted, Paired
  <2> QED
    BY <1>2, <2>1, <2>2, <2>4
<1> QED
  BY <1>2, <1>3, <1>4, <1>5, <1>6, <1>7 DEF Quoted

\* Some of them remain as they are.
LEMMA FewerKeep ==
  ASSUME Typed, Quoted, strategy' = strategy, resting' \subseteq resting, position' = position,
         lastAt'["up"] = lastAt["up"] \/ resting = {}
  PROVE  resting' \subseteq Bids /\ Quoted'
<1>1. Bound' = Bound
  BY DEF Bound, LargestQuote
<1> QED
  BY <1>1 DEF Typed, Quoted, OnlyQuotersRest, OneEach, Bounded, OfOneRound, Paired, RestingOn

\* Those of a new round take their place.
LEMMA AnewKeeps ==
  ASSUME Typed, Quoted, strategy' = strategy, position' = position, lastAt'["up"] = now,
         strategy \in {"two_sided", "fair_value"},
         NEW quotes, Round(quotes), strategy = "fair_value" => Reasoned(quotes),
         resting' \subseteq quotes
  PROVE  resting' \subseteq Bids /\ Quoted'
<1>1. Bound' = Bound
  BY DEF Bound, LargestQuote
<1>2. OnlyQuotersRest' /\ OneEach' /\ OfOneRound'
  BY DEF OnlyQuotersRest, OneEach, OfOneRound, Round
<1>3. Bounded'
  BY <1>1 DEF Quoted, Bounded, Round
<1>4. Paired'
  BY DEF Paired, Reasoned, RestingOn
<1> QED
  BY <1>2, <1>3, <1>4 DEF Quoted, Round

\* At most one order rests for each of the two tokens.
LEMMA FewRest ==
  ASSUME OneEach, NEW t \in Tokens
  PROVE  \/ RestingOn(t) = {}
         \/ \E o \in resting : RestingOn(t) = {o} /\ o.token = t
  BY DEF OneEach, RestingOn

LEMMA SumOfOne ==
  ASSUME NEW f, NEW x, f[x] \in Int
  PROVE  SumFunctionOnSet(f, {x}) = f[x]
<1>1. IsFiniteSet({}) /\ x \notin {}
  BY FS_EmptySet
<1>2. SumFunctionOnSet(f, {} \cup {x}) = f[x] + SumFunctionOnSet(f, {})
  BY <1>1, SumWith
<1>3. {} \cup {x} = {x} /\ SumFunctionOnSet(f, {}) = 0
  BY SumOfNone
<1> QED
  BY <1>2, <1>3

LEMMA FilledKeeps ==
  ASSUME Typed, Quoted, strategy' = strategy, lastAt' = lastAt, Filled(resting)
  PROVE  resting' \subseteq Bids /\ position' \in [Tokens -> Int] /\ Quoted'
<1>1. PICK sold \in [resting -> UNION {0 .. o.size : o \in resting}] :
        /\ \A o \in resting : sold[o] <= o.size
        /\ resting' = {Left(o, sold[o]) : o \in {r \in resting : sold[r] < r.size}}
        /\ position' = [t \in Tokens |->
             position[t] + SumFunctionOnSet(sold, {o \in resting : o.token = t})]
  BY DEF Filled
<1>2. \A o \in resting : sold[o] \in Nat /\ o.size \in Nat /\ o.token \in Tokens
  <2>1. \A o \in resting : o.size \in Nat /\ o.token \in Tokens
    BY DEF Typed, Bids
  <2>2. \A o \in resting : \E r \in resting : sold[o] \in 0 .. r.size
    BY <1>1
  <2> QED
    BY <2>1, <2>2
<1>3. \A o \in resting : position'[o.token] = position[o.token] + sold[o]
  <2> SUFFICES ASSUME NEW o \in resting PROVE position'[o.token] = position[o.token] + sold[o]
    OBVIOUS
  <2>1. {r \in resting : r.token = o.token} = {o}
    BY DEF Quoted, OneEach
  <2>2. SumFunctionOnSet(sold, {o}) = sold[o]
    BY <1>2, SumOfOne
  <2> QED
    BY <1>1, <1>2, <2>1, <2>2
<1>4. \A t \in Tokens : RestingOn(t) = {} => position'[t] = position[t]
  <2> SUFFICES ASSUME NEW t \in Tokens, RestingOn(t) = {} PROVE position'[t] = position[t]
    OBVIOUS
  <2>1. {o \in resting : o.token = t} = {} /\ SumFunctionOnSet(sold, {}) = 0
    BY SumOfNone DEF RestingOn
  <2>2. position'[t] = position[t] + 0 /\ position[t] \in Int
    BY <1>1, <2>1 DEF Typed
  <2> QED
    BY <2>2
<1>5. \A t \in Tokens : position'[t] \in Int /\ position'[t] < Bound
  <2> SUFFICES ASSUME NEW t \in Tokens PROVE position'[t] \in Int /\ position'[t] < Bound
    OBVIOUS
  <2>1. position[t] \in Int /\ position[t] < Bound /\ Bound \in Int
    BY LargestType, Parameters DEF Typed, Quoted, Bounded, Bound
  <2>2. CASE RestingOn(t) = {}
    BY <1>4, <2>1, <2>2
  <2>3. CASE RestingOn(t) # {}
    <3>1. PICK o \in resting : o.token = t
      BY <2>3 DEF RestingOn
    <3>2. position'[t] = position[t] + sold[o] /\ sold[o] \in Nat /\ o.size \in Nat /\ sold[o] <= o.size
      BY <1>1, <1>2, <1>3, <3>1
    <3>3. position[t] + o.size < Bound
      BY <3>1 DEF Quoted, Bounded
    <3> QED
      BY <2>1, <3>2, <3>3
  <2> QED
    BY <2>2, <2>3
<1>6. position' \in [Tokens -> Int]
  BY <1>1, <1>5
<1> DEFINE R == {r \in resting : sold[r] < r.size}
           cut == [o \in R |-> sold[o]]
<1>7. cut \in [R -> Nat] /\ resting' = {Left(o, cut[o]) : o \in R}
  <2>1. resting' = {Left(o, sold[o]) : o \in R}
    BY <1>1
  <2>2. \A o \in R : cut[o] = sold[o]
    OBVIOUS
  <2> QED
    BY <1>2, <2>1, <2>2
<1>8. \A o \in R : cut[o] <= o.size /\ position'[o.token] + (o.size - cut[o]) < Bound
  <2> SUFFICES ASSUME NEW o \in R PROVE cut[o] <= o.size /\ position'[o.token] + (o.size - cut[o]) < Bound
    OBVIOUS
  <2>1. o \in resting /\ cut[o] = sold[o]
    OBVIOUS
  <2>2. position'[o.token] = position[o.token] + sold[o] /\ position[o.token] \in Int
        /\ sold[o] \in Nat /\ o.size \in Nat /\ sold[o] <= o.size
        /\ position[o.token] + o.size < Bound /\ Bound \in Int
    <3>1. position[o.token] \in Int /\ Bound \in Int
      <4>1. o.token \in Tokens
        BY <1>2, <2>1
      <4>2. position \in [Tokens -> Int]
        BY DEF Typed
      <4>3. Bound \in Int
        BY LargestType, Parameters DEF Bound
      <4> QED
        BY <4>1, <4>2, <4>3
    <3>2. position[o.token] + o.size < Bound
      BY <2>1 DEF Quoted, Bounded
    <3> QED
      BY <1>1, <1>2, <1>3, <2>1, <3>1, <3>2
  <2> QED
    BY <2>1, <2>2
<1> HIDE DEF R, cut
<1>9. R \in SUBSET resting
  BY DEF R
<1> QED
  BY <1>5, <1>6, <1>7, <1>8, <1>9, ThinnedKeeps

-----------------------------------------------------------------------------
(* The strategy's turn. *)

LEMMA AliveIs ==
  ASSUME Typed
  PROVE  Alive \subseteq resting /\ \A o \in Alive : now - o.made < Ttl
  BY DEF Alive

\* While it is too early for a new round, what rests is younger than a round.
LEMMA EarlyIsFresh ==
  ASSUME Typed, Quoted, TooEarly(lastAt["up"])
  PROVE  \A o \in resting : now - o.made < RequoteEvery
  BY DEF TooEarly, Quoted, OfOneRound

\* What rests is young enough, seen from before the turn ends.
Young(orders) ==
  /\ \A o \in orders : now - o.made < IF Blind THEN Ttl ELSE RequoteEvery
  /\ strategy = "fair_value" /\ ~Blind /\ PastStop => orders = {}

LEMMA TwoSidedKeeps ==
  ASSUME Typed, Quoted, OnTick, TwoSidedTick
  PROVE  /\ Typed' /\ Quoted' /\ Young(resting')
         /\ UNCHANGED <<strategy, top, printed, feed, now>>
<1>1. /\ strategy = "two_sided" /\ phase' = "event"
      /\ UNCHANGED <<strategy, top, printed, feed, now, position, events>>
  BY DEF OnTick, TwoSidedTick
<1>2. CASE reference_price("up") = Unknown
  <2>1. resting' = Alive /\ lastAt' = lastAt /\ history' = history /\ Blind
    BY <1>1, <1>2 DEF TwoSidedTick, Blind
  <2>2. resting' \subseteq Bids /\ Quoted'
    BY <1>1, <2>1, AliveIs, FewerKeep
  <2>3. Typed'
    BY <1>1, <2>1, <2>2 DEF Typed
  <2>4. Young(resting')
    BY <1>1, <2>1, AliveIs DEF Young
  <2> QED
    BY <1>1, <2>2, <2>3, <2>4
<1>3. CASE reference_price("up") # Unknown
  <2>1. reference_price("up") \in Int
    BY <1>3, ReferenceType DEF Number, Tokens
  <2>2. history' \in Seq(Moment)
    BY <1>1, <1>3, <2>1, RememberedType DEF TwoSidedTick
  <2>3. ~Blind
    BY <1>1, <1>3 DEF Blind
  <2>4. CASE TooEarly(lastAt["up"])
    <3>1. resting' = Alive /\ lastAt' = lastAt
      BY <1>3, <2>4 DEF TwoSidedTick
    <3>2. resting' \subseteq Bids /\ Quoted'
      BY <1>1, <3>1, AliveIs, FewerKeep
    <3>3. Typed'
      BY <1>1, <2>2, <3>1, <3>2 DEF Typed
    <3>4. Young(resting')
      BY <1>1, <2>3, <2>4, <3>1, AliveIs, EarlyIsFresh DEF Young
    <3> QED
      BY <1>1, <3>2, <3>3, <3>4
  <2>5. CASE ~TooEarly(lastAt["up"])
    <3>1. resting' \subseteq TwoSidedQuotes /\ lastAt' = [lastAt EXCEPT !["up"] = now]
      BY <1>3, <2>5 DEF TwoSidedTick, Placed, Requoted
    <3>2. lastAt' \in [Tokens -> Number] /\ lastAt'["up"] = now
      BY <3>1 DEF Typed, Tokens, Number
    <3>3. Round(TwoSidedQuotes)
      BY <1>1, <2>1, TwoSidedRound
    <3>4. resting' \subseteq Bids /\ Quoted'
      BY <1>1, <3>1, <3>2, <3>3, AnewKeeps
    <3>5. Typed'
      BY <1>1, <2>2, <3>2, <3>4 DEF Typed
    <3>6. \A o \in resting' : now - o.made < RequoteEvery
      BY <3>1, <3>3, Parameters DEF Round, Typed
    <3> QED
      BY <1>1, <2>3, <3>4, <3>5, <3>6 DEF Young
  <2> QED
    BY <2>4, <2>5
<1> QED
  BY <1>2, <1>3

LEMMA FairValueKeeps ==
  ASSUME Typed, Quoted, OnTick, FairValueTick
  PROVE  /\ Typed' /\ Quoted' /\ Young(resting')
         /\ UNCHANGED <<strategy, top, printed, feed, now>>
<1>1. /\ strategy = "fair_value" /\ phase' = "event"
      /\ UNCHANGED <<strategy, top, printed, feed, now, position, events, history>>
  BY DEF OnTick, FairValueTick
<1>2. Blind <=> start = Unknown
  BY <1>1 DEF Blind
<1>3. CASE start = Unknown
  <2>1. resting' = Alive /\ lastAt' = lastAt
    BY <1>3 DEF FairValueTick
  <2>2. resting' \subseteq Bids /\ Quoted'
    BY <1>1, <2>1, AliveIs, FewerKeep
  <2>3. Typed'
    BY <1>1, <2>1, <2>2 DEF Typed
  <2> QED
    BY <1>1, <1>2, <1>3, <2>1, <2>2, <2>3, AliveIs DEF Young
<1>4. CASE start # Unknown /\ PastStop
  <2>1. resting' = {} /\ lastAt' = lastAt
    BY <1>4 DEF FairValueTick, Stopped
  <2>2. resting' \subseteq Bids /\ Quoted'
    BY <1>1, <2>1, FewerKeep
  <2>3. Typed'
    BY <1>1, <2>1, <2>2 DEF Typed
  <2> QED
    BY <1>1, <2>1, <2>2, <2>3 DEF Young
<1>5. CASE start # Unknown /\ ~PastStop /\ TooEarly(lastAt["up"])
  <2>1. resting' = Alive /\ lastAt' = lastAt
    BY <1>5 DEF FairValueTick
  <2>2. resting' \subseteq Bids /\ Quoted'
    BY <1>1, <2>1, AliveIs, FewerKeep
  <2>3. Typed'
    BY <1>1, <2>1, <2>2 DEF Typed
  <2> QED
    BY <1>1, <1>2, <1>5, <2>1, <2>2, <2>3, AliveIs, EarlyIsFresh DEF Young
<1>6. CASE start # Unknown /\ ~PastStop /\ ~TooEarly(lastAt["up"])
  <2>1. PICK fair \in PUp : resting' \subseteq FairValueQuotes(fair)
    BY <1>6 DEF FairValueTick, Placed, Requoted
  <2>2. fair \in Fairs
    BY <1>6 DEF PUp
  <2>3. Round(FairValueQuotes(fair)) /\ Reasoned(FairValueQuotes(fair))
    BY <1>1, <2>2, FairValueRound
  <2>4. lastAt' = [lastAt EXCEPT !["up"] = now]
    BY <1>6 DEF FairValueTick
  <2>5. lastAt' \in [Tokens -> Number] /\ lastAt'["up"] = now
    BY <2>4 DEF Typed, Tokens, Number
  <2>6. resting' \subseteq Bids /\ Quoted'
    BY <1>1, <2>1, <2>3, <2>5, AnewKeeps
  <2>7. Typed'
    BY <1>1, <2>5, <2>6 DEF Typed
  <2>8. \A o \in resting' : now - o.made < RequoteEvery
    BY <2>1, <2>3, Parameters DEF Round, Typed
  <2> QED
    BY <1>1, <1>2, <1>6, <2>6, <2>7, <2>8 DEF Young
<1> QED
  BY <1>3, <1>4, <1>5, <1>6

LEMMA TakerProbeKeeps ==
  ASSUME Typed, Quoted, OnTick, TakerProbeTick
  PROVE  /\ Typed' /\ Quoted' /\ resting' = {} /\ strategy' = strategy
         /\ strategy = "taker_probe"
<1>1. /\ strategy = "taker_probe" /\ phase' = "event"
      /\ UNCHANGED <<strategy, printed, feed, now, events, history>>
  BY DEF OnTick, TakerProbeTick
<1>2. resting = {} /\ resting' = {}
  BY <1>1 DEF TakerProbeTick, Quoted, OnlyQuotersRest, Alive
<1>3. PICK found \in [Probed -> 0 .. Size] :
        /\ position' = [t \in Tokens |-> position[t] + IF t \in Probed THEN found[t] ELSE 0]
        /\ \E left \in [Probed -> UNION {Eaten(t) : t \in Probed}] :
             /\ \A t \in Probed : left[t] \in IF found[t] > 0 THEN Eaten(t) ELSE {top[t]}
             /\ top' = [t \in Tokens |-> IF t \in Probed THEN left[t] ELSE top[t]]
  BY DEF TakerProbeTick
<1>4. PICK left :
        /\ \A t \in Probed : left[t] \in IF found[t] > 0 THEN Eaten(t) ELSE {top[t]}
        /\ top' = [t \in Tokens |-> IF t \in Probed THEN left[t] ELSE top[t]]
  BY <1>3
<1>5. \A t \in Tokens : Eaten(t) \subseteq Sides
  <2>1. \A known \in Tops : known.ask \in Part
    BY StrategiesAssumption DEF Part
  <2>2. \A t \in Tokens : top[t].bid \in Part
    BY DEF Typed, Sides
  <2> QED
    BY <2>1, <2>2 DEF Eaten, Sides
<1>6. top' \in [Tokens -> Sides]
  <2>1. \A t \in Probed : t \in Tokens /\ left[t] \in Sides
    BY <1>4, <1>5 DEF Probed, Typed
  <2> QED
    BY <1>4, <2>1 DEF Typed
<1>7. \A t \in Tokens : position'[t] \in Int /\ position'[t] < Bound
  <2> SUFFICES ASSUME NEW t \in Tokens PROVE position'[t] \in Int /\ position'[t] < Bound
    OBVIOUS
  <2>1. position[t] \in Int /\ position[t] < Bound /\ MaxInventory \in Nat /\ Size \in Nat
    BY Parameters DEF Typed, Quoted, Bounded
  <2>2. Bound = MaxInventory + Size
    BY <1>1 DEF Bound, LargestQuote
  <2>3. CASE t \in Probed
    <3>1. position[t] < MaxInventory /\ found[t] \in Nat /\ found[t] <= Size
      BY <2>1, <2>3 DEF Probed, Room
    <3>2. position'[t] = position[t] + found[t]
      BY <1>3, <2>3
    <3> QED
      BY <2>1, <2>2, <3>1, <3>2
  <2>4. CASE t \notin Probed
    <3>1. position'[t] = position[t] + 0
      BY <1>3, <2>4
    <3> QED
      BY <2>1, <3>1
  <2> QED
    BY <2>3, <2>4
<1>8. position' \in [Tokens -> Int]
  BY <1>3, <1>7
<1>9. lastAt' \in [Tokens -> Number]
  <2>1. lastAt' = [t \in Tokens |-> IF t \in Probed THEN now ELSE lastAt[t]]
    BY DEF TakerProbeTick
  <2> QED
    BY <2>1 DEF Typed, Number
<1>10. Typed'
  BY <1>1, <1>2, <1>6, <1>8, <1>9 DEF Typed
<1>11. Quoted'
  <2>1. Bound' = Bound
    BY <1>1 DEF Bound, LargestQuote
  <2> QED
    BY <1>1, <1>2, <1>7, <2>1 DEF Quoted, OnlyQuotersRest, OneEach, Bounded, OfOneRound, Paired
<1> QED
  BY <1>1, <1>2, <1>10, <1>11

LEMMA TickKeeps ==
  ASSUME Typed, Quoted, OnTick
  PROVE  Typed' /\ Quoted' /\ NothingStale'
<1>1. ASSUME Young(resting'), UNCHANGED <<strategy, top, printed, feed, now>>
      PROVE  NothingStale'
  <2>1. reference_price("up")' = reference_price("up") /\ start' = start
    BY <1>1 DEF reference_price, TwoSided, feed
  <2>2. (Blind' <=> Blind) /\ (PastStop' <=> PastStop)
    BY <1>1, <2>1 DEF Blind, PastStop
  <2> QED
    BY <1>1, <2>2 DEF Young, NothingStale
<1>2. CASE TwoSidedTick
  BY <1>1, <1>2, TwoSidedKeeps
<1>3. CASE FairValueTick
  BY <1>1, <1>3, FairValueKeeps
<1>4. CASE TakerProbeTick
  <2>1. Typed' /\ Quoted' /\ resting' = {}
    BY <1>4, TakerProbeKeeps
  <2> QED
    BY <2>1 DEF NothingStale
<1> QED
  BY <1>2, <1>3, <1>4 DEF OnTick

-----------------------------------------------------------------------------
(* Events. *)

LEMMA EventKeeps ==
  ASSUME Typed, Quoted, Book \/ TradePrint \/ Price \/ Gap
  PROVE  Typed' /\ Quoted' /\ phase' = "tick" /\ phase = "event" /\ strategy' = strategy
<1>1. Event
  BY DEF Book, BookOf, TradePrint, Price, Gap
<1>2. /\ phase' = "tick" /\ phase = "event" /\ now' \in Int
      /\ UNCHANGED <<strategy, lastAt, history>>
  <2>1. \E step \in Steps : now' = now + step
    BY <1>1 DEF Event
  <2>2. Steps \subseteq Int
    BY StrategiesAssumption
  <2>3. now' \in Int
    BY <2>1, <2>2 DEF Typed
  <2> QED
    BY <1>1, <2>3 DEF Event
<1>3. CASE Book \/ TradePrint
  <2>1. Filled(resting)
    BY <1>3 DEF Book, BookOf, TradePrint
  <2>2. resting' \subseteq Bids /\ position' \in [Tokens -> Int] /\ Quoted'
    BY <1>2, <2>1, FilledKeeps
  <2>3. top' \in [Tokens -> Sides] /\ printed' \in [Tokens -> Number]
    <3>1. CASE Book
      <4>1. PICK token \in Tokens, new \in Tops : top' = [top EXCEPT ![token] = new] /\ printed' = printed
        BY <3>1 DEF Book, BookOf
      <4>2. new \in Sides
        BY StrategiesAssumption DEF Sides, Part
      <4> QED
        BY <4>1, <4>2 DEF Typed
    <3>2. CASE TradePrint
      <4>1. PICK token \in Tokens, price \in Prints :
              printed' = [printed EXCEPT ![token] = price] /\ top' = top
        BY <3>2 DEF TradePrint
      <4>2. price \in Int
        BY StrategiesAssumption, Parameters
      <4> QED
        BY <4>1, <4>2 DEF Typed, Number
    <3> QED
      BY <1>3, <3>1, <3>2
  <2> QED
    BY <1>2, <2>2, <2>3 DEF Typed
<1>4. CASE Price
  <2>1. UNCHANGED <<top, printed, position, resting>>
    BY <1>4 DEF Price
  <2>2. resting' \subseteq Bids /\ Quoted'
    BY <1>2, <2>1, FewerKeep
  <2> QED
    BY <1>2, <2>1, <2>2 DEF Typed
<1>5. CASE Gap
  <2>1. printed' = printed /\ position' = position /\ resting' = {} /\ top' = [t \in Tokens |-> Dark]
    BY <1>5 DEF Gap
  <2>2. resting' \subseteq Bids /\ Quoted'
    BY <1>2, <2>1, FewerKeep
  <2>3. top' \in [Tokens -> Sides]
    BY <2>1 DEF Dark, Sides, Part
  <2> QED
    BY <1>2, <2>1, <2>2, <2>3 DEF Typed
<1> QED
  BY <1>3, <1>4, <1>5

-----------------------------------------------------------------------------
(* The strategies' runs, with those of the calibration. *)

StrategyInv == Typed /\ Quoted /\ NothingStale

LEMMA StrategyInit == CInit => StrategyInv
<1> SUFFICES ASSUME CInit PROVE StrategyInv
  OBVIOUS
<1>1. /\ strategy \in Kinds \cup {"calibration"} /\ phase = "tick" /\ resting = {} /\ history = << >>
      /\ printed = [t \in Tokens |-> Unknown] /\ lastAt = [t \in Tokens |-> Unknown]
      /\ position = [t \in Tokens |-> 0] /\ now \in Begins
  BY DEF CInit, Init
<1>2. top \in [Tokens -> Sides]
  <2>1. Tops \subseteq Sides
    BY StrategiesAssumption DEF Sides, Part
  <2>2. Dark \in Sides
    BY DEF Dark, Sides, Part
  <2>3. top \in [Tokens -> Tops] \/ top = [t \in Tokens |-> Dark]
    BY DEF CInit, Init
  <2> QED
    BY <2>1, <2>2, <2>3
<1>3. now \in Int
  BY <1>1, StrategiesAssumption
<1>4. Typed
  BY <1>1, <1>2, <1>3 DEF Typed, Number
<1>5. \A t \in Tokens : position[t] = 0
  BY <1>1
<1>6. 0 < Bound
  BY LargestType, Parameters DEF Bound
<1>7. Quoted
  BY <1>1, <1>5, <1>6 DEF Quoted, OnlyQuotersRest, OneEach, Bounded, OfOneRound, Paired, RestingOn
<1>8. NothingStale
  BY <1>1 DEF NothingStale
<1> QED
  BY <1>4, <1>7, <1>8 DEF StrategyInv

LEMMA StrategyStutters ==
  ASSUME StrategyInv, UNCHANGED <<strategy, market, position, resting, now, lastAt, history>>,
         phase' \in {"event", "tick"}, phase' = phase \/ resting = {}
  PROVE  StrategyInv'
<1>1. /\ UNCHANGED <<strategy, top, printed, feed, position, resting, now, lastAt, history>>
      /\ start' = start
  BY DEF market, feed
<1>2. Typed' /\ Quoted'
  <2>1. Typed'
    BY <1>1 DEF StrategyInv, Typed
  <2>2. resting' \subseteq Bids
    BY <1>1 DEF StrategyInv, Typed
  <2> QED
    BY <1>1, <2>1, <2>2, FewerKeep DEF StrategyInv
<1>3. NothingStale'
  <2>1. CASE resting = {}
    BY <1>1, <2>1 DEF NothingStale
  <2>2. CASE phase' = phase
    <3>1. reference_price("up")' = reference_price("up")
      BY <1>1 DEF reference_price, TwoSided
    <3>2. (Blind' <=> Blind) /\ (PastStop' <=> PastStop)
      BY <1>1, <3>1 DEF Blind, PastStop
    <3> QED
      BY <1>1, <2>2, <3>2 DEF StrategyInv, NothingStale
  <2> QED
    BY <2>1, <2>2
<1> QED
  BY <1>2, <1>3 DEF StrategyInv

\* Of what the calibration reads, the strategies' part is an event.
LEMMA ReadIsEvent ==
  ASSUME Read
  PROVE  Book \/ TradePrint \/ Price \/ Gap
  BY DEF Read, Book

LEMMA StrategyStep == StrategyInv /\ [CNext]_<<vars, sampler>> => StrategyInv'
<1> SUFFICES ASSUME StrategyInv, [CNext]_<<vars, sampler>> PROVE StrategyInv'
  OBVIOUS
<1>1. CASE OnTick
  BY <1>1, TickKeeps DEF StrategyInv
<1>2. CASE Book \/ TradePrint \/ Price \/ Gap
  <2>1. Typed' /\ Quoted' /\ phase' = "tick"
    BY <1>2, EventKeeps DEF StrategyInv
  <2> QED
    BY <2>1 DEF StrategyInv, NothingStale
<1>3. CASE strategy = "calibration" /\ Sample
  <2>1. /\ UNCHANGED <<strategy, market, position, resting, now, lastAt, history>> /\ phase' = "event"
    BY <1>3 DEF Sample
  <2>2. resting = {}
    BY <1>3 DEF StrategyInv, Quoted, OnlyQuotersRest
  <2> QED
    BY <2>1, <2>2, StrategyStutters
<1>4. CASE UNCHANGED <<vars, sampler>>
  <2>1. UNCHANGED <<strategy, market, position, resting, now, lastAt, history, phase>>
    BY <1>4 DEF vars
  <2>2. phase' \in {"event", "tick"}
    BY <2>1 DEF StrategyInv, Typed
  <2> QED
    BY <2>1, <2>2, StrategyStutters
<1> QED
  BY <1>1, <1>2, <1>3, <1>4, ReadIsEvent DEF CNext, Next

LEMMA StrategyAlways == CSpec => []StrategyInv
  BY StrategyInit, StrategyStep, PTL DEF CSpec

(***************************************************************************)
(* InventoryBound: with its one bid filled whole, no token's position      *)
(* passes the limit by as much as the largest quote, though any quote may  *)
(* be refused, filled in part or made anew.  Checked before a quote only,  *)
(* the limit rests on every round cancelling the one before it.            *)
(***************************************************************************)
THEOREM InventoryIsBounded == CSpec => []InventoryBound
<1>1. StrategyInv => InventoryBound
  <2> SUFFICES ASSUME StrategyInv, NEW t \in Tokens
               PROVE  /\ Cardinality(RestingOn(t)) <= 1
                      /\ position[t] + SumFunctionOnSet([o \in resting |-> o.size], RestingOn(t))
                           < MaxInventory + LargestQuote
    BY DEF InventoryBound
  <2> DEFINE size == [o \in resting |-> o.size]
  <2>1. position[t] \in Int /\ position[t] < Bound /\ Bound \in Int
    BY LargestType, Parameters DEF StrategyInv, Typed, Quoted, Bounded, Bound
  <2>2. CASE RestingOn(t) = {}
    <3>1. Cardinality(RestingOn(t)) = 0
      BY <2>2, FS_EmptySet
    <3>2. SumFunctionOnSet(size, RestingOn(t)) = 0
      BY <2>2, SumOfNone
    <3> HIDE DEF size
    <3>3. position[t] + 0 < Bound
      BY <2>1
    <3> QED
      BY <3>1, <3>2, <3>3 DEF Bound, size
  <2>3. CASE RestingOn(t) # {}
    <3>1. PICK o \in resting : o.token = t /\ RestingOn(t) = {o}
      BY <2>3 DEF RestingOn, StrategyInv, Quoted, OneEach
    <3>2. o.size \in Int /\ size[o] = o.size
      BY DEF StrategyInv, Typed, Bids
    <3>3. Cardinality(RestingOn(t)) = 1
      BY <3>1, FS_Singleton
    <3>4. SumFunctionOnSet(size, RestingOn(t)) = o.size
      <4> HIDE DEF size
      <4> QED
        BY <3>1, <3>2, SumOfOne
    <3>5. position[t] + o.size < Bound
      BY <3>1 DEF StrategyInv, Quoted, Bounded
    <3> HIDE DEF size
    <3> QED
      BY <3>3, <3>4, <3>5 DEF Bound, size
  <2> QED
    BY <2>2, <2>3
<1> QED
  BY <1>1, StrategyAlways, PTL

(***************************************************************************)
(* PairIsWorthIt: two bids of the fair-value quoter cost more than a       *)
(* dollar only if each has the least edge and one of them is above its     *)
(* reference price.  The edges of a round add up to what the references    *)
(* leave of a dollar, so two least edges leave references below it.        *)
(***************************************************************************)
THEOREM PairsAreWorthIt == CSpec => []PairIsWorthIt
<1>1. StrategyInv => PairIsWorthIt
  <2> SUFFICES ASSUME StrategyInv, strategy = "fair_value",
                      NEW a \in RestingOn("up"), NEW b \in RestingOn("down"),
                      a.price + b.price > One
               PROVE  /\ a.lean >= MinEdge /\ b.lean >= MinEdge
                      /\ a.price > a.ref \/ b.price > b.ref
    BY DEF PairIsWorthIt
  <2>1. a \in Bids /\ b \in Bids
    BY DEF StrategyInv, Typed, RestingOn
  <2>2. /\ a.lean \in Int /\ b.lean \in Int /\ a.price \in Int /\ b.price \in Int
        /\ a.ref \in Int /\ b.ref \in Int
    BY <2>1 DEF Bids
  <2>3. /\ a.lean + b.lean = One - a.ref - b.ref
        /\ a.lean >= MinEdge /\ b.lean >= MinEdge
    BY DEF StrategyInv, Quoted, Paired
  <2> QED
    BY <2>2, <2>3, Parameters
<1> QED
  BY <1>1, StrategyAlways, PTL

(***************************************************************************)
(* NothingStale: no quote is as old as `requote_every' after a strategy's  *)
(* turn, nor as old as `quote_ttl' where the strategy cannot see, whatever *)
(* the clock does, and past `stop_after' there is none.                    *)
(***************************************************************************)
THEOREM NoQuoteIsStale == CSpec => []NothingStale
<1>1. StrategyInv => NothingStale
  BY DEF StrategyInv
<1> QED
  BY <1>1, StrategyAlways, PTL

-----------------------------------------------------------------------------
(* The calibration. *)

\* Every offset waits until an event reaches it, and is sampled with the next turn.
Waiting ==
  /\ pending \subseteq Offsets /\ now \in Int /\ farthest \in Int /\ now <= farthest
  /\ {s.offset : s \in samples} = Offsets \ pending
  /\ \A o \in Offsets : farthest < o => o \in pending
  /\ \A o \in pending : farthest >= o => phase = "tick" /\ now >= o

\* The samples are in the order of their offsets, and so is what they know.
Ordered ==
  /\ \A s \in samples : s.at \in Int /\ s.offset <= s.at
  /\ \A s \in samples, o \in pending : s.at < o
  /\ \A s \in samples : s.model # Unknown => start # Unknown
  /\ \A s, other \in samples :
       /\ s.offset = other.offset => s = other
       /\ other.at < s.at => other.at < s.offset /\ (other.model # Unknown => s.model # Unknown)

SamplerInv == strategy = "calibration" => Waiting /\ Ordered

LEMMA OffsetsAreInt == Offsets \subseteq Int
  BY CalibrationAssumption

LEMMA SamplerInit == CInit => SamplerInv
<1> SUFFICES ASSUME CInit PROVE SamplerInv
  OBVIOUS
<1>1. pending = Offsets /\ samples = {} /\ farthest = now /\ now \in Int /\ phase = "tick"
  BY StrategiesAssumption DEF CInit, Init
<1> QED
  BY <1>1, OffsetsAreInt DEF SamplerInv, Waiting, Ordered

LEMMA SamplerStutters ==
  ASSUME SamplerInv, strategy' = strategy,
         strategy = "calibration" => UNCHANGED <<now, start, phase, sampler>>
  PROVE  SamplerInv'
  BY DEF SamplerInv, Waiting, Ordered, sampler

\* A turn samples what is due, and leaves what is later.
LEMMA SampleKeeps ==
  ASSUME SamplerInv, Sample
  PROVE  SamplerInv'
<1>1. /\ strategy = "calibration" /\ phase = "tick" /\ phase' = "event" /\ Waiting /\ Ordered
      /\ UNCHANGED <<strategy, now, start, farthest>>
      /\ pending' = pending \ Due
  BY DEF Sample, SamplerInv, market, feed
<1>2. PICK p \in PUp :
        samples' = samples \cup {[offset |-> o, at |-> now, model |-> p, mid |-> mid] : o \in Due}
  BY DEF Sample
<1>3. start # Unknown <=> p # Unknown
  <2>1. Fairs \subseteq Int /\ Unknown \notin Int
    BY Parameters
  <2> QED
    BY <2>1 DEF PUp
<1>4. \A o \in Due : o \in pending /\ o \in Int /\ now >= o
  BY <1>1, OffsetsAreInt DEF Due, Waiting
<1>5. \A o \in pending' : o \in pending /\ o \in Int /\ now < o
  BY <1>1, OffsetsAreInt DEF Due, Waiting
<1> DEFINE new == {[offset |-> o, at |-> now, model |-> p, mid |-> mid] : o \in Due}
<1>6. \A n \in new : n.offset \in Due /\ n.at = now /\ n.model = p /\ n.mid = mid
      /\ n = [offset |-> n.offset, at |-> now, model |-> p, mid |-> mid]
  OBVIOUS
<1>7. {n.offset : n \in new} = Due
  <2>1. \A o \in Due : \E n \in new : n.offset = o
    <3> SUFFICES ASSUME NEW o \in Due PROVE \E n \in new : n.offset = o
      OBVIOUS
    <3> DEFINE n == [offset |-> o, at |-> now, model |-> p, mid |-> mid]
    <3>1. n \in new /\ n.offset = o
      OBVIOUS
    <3> HIDE DEF n, new
    <3> QED
      BY <3>1
  <2> HIDE DEF new
  <2> QED
    BY <1>6, <2>1
<1>8. samples' = samples \cup new
  BY <1>2
<1> HIDE DEF new
<1>9. Waiting'
  <2>1. {s.offset : s \in samples'} = {s.offset : s \in samples} \cup {n.offset : n \in new}
    BY <1>8
  <2>2. {s.offset : s \in samples'} = Offsets \ pending'
    BY <1>1, <1>4, <1>7, <2>1 DEF Waiting
  <2>3. \A o \in Offsets : farthest < o => o \in pending'
    <3> SUFFICES ASSUME NEW o \in Offsets, farthest < o PROVE o \in pending'
      OBVIOUS
    <3>1. o \in pending /\ ~(now >= o)
      BY <1>1, OffsetsAreInt DEF Waiting
    <3> QED
      BY <1>1, <3>1 DEF Due
  <2>4. \A o \in pending' : ~(farthest >= o)
    BY <1>1, <1>5 DEF Waiting
  <2> QED
    BY <1>1, <2>2, <2>3, <2>4 DEF Waiting
<1>10. Ordered'
  <2>1. now \in Int
    BY <1>1 DEF Waiting
  <2>2. \A s \in samples' : s.at \in Int /\ s.offset <= s.at
    BY <1>1, <1>4, <1>6, <1>8, <2>1 DEF Ordered
  <2>3. \A s \in samples', o \in pending' : s.at < o
    BY <1>1, <1>5, <1>6, <1>8 DEF Ordered
  <2>4. \A s \in samples' : s.model # Unknown => start' # Unknown
    BY <1>1, <1>3, <1>6, <1>8 DEF Ordered
  <2>5. \A s \in samples, n \in new :
          s.offset # n.offset /\ s.at < n.offset /\ s.at < n.at
    <3> SUFFICES ASSUME NEW s \in samples, NEW n \in new
                 PROVE  s.offset # n.offset /\ s.at < n.offset /\ s.at < n.at
      OBVIOUS
    <3>1. n.offset \in pending /\ n.offset \in Int /\ now >= n.offset /\ n.at = now
      BY <1>4, <1>6
    <3>2. s.at \in Int /\ s.at < n.offset
      BY <1>1, <3>1 DEF Ordered
    <3>3. s.offset \notin pending
      BY <1>1 DEF Waiting
    <3> QED
      BY <2>1, <3>1, <3>2, <3>3
  <2>6. ASSUME NEW s \in samples', NEW other \in samples'
        PROVE  /\ s.offset = other.offset => s = other
               /\ other.at < s.at =>
                    other.at < s.offset /\ (other.model # Unknown => s.model # Unknown)
    <3>1. CASE s \in samples /\ other \in samples
      BY <1>1, <3>1 DEF Ordered
    <3>2. CASE s \in new /\ other \in new
      BY <1>6, <2>1, <3>2
    <3>3. CASE s \in new /\ other \in samples
      <4>1. other.model # Unknown => s.model # Unknown
        BY <1>1, <1>3, <1>6, <3>3 DEF Ordered
      <4> QED
        BY <2>5, <3>3, <4>1
    <3>4. CASE s \in samples /\ other \in new
      <4>1. s.at < other.at /\ s.at \in Int /\ other.at \in Int /\ s.offset # other.offset
        BY <1>6, <2>1, <2>2, <2>5, <3>4
      <4> QED
        BY <4>1
    <3> QED
      BY <1>8, <3>1, <3>2, <3>3, <3>4
  <2> QED
    BY <2>2, <2>3, <2>4, <2>6 DEF Ordered
<1> QED
  BY <1>9, <1>10 DEF SamplerInv

\* The start price, once known, stays, and nobody but the market is asked for it.
LEMMA StartStays ==
  ASSUME Book \/ TradePrint \/ Price \/ Gap, start # Unknown
  PROVE  start' # Unknown
<1>1. CASE Book \/ TradePrint \/ Gap
  BY <1>1 DEF Book, BookOf, TradePrint, Gap, feed
<1>2. CASE Price
  BY <1>2 DEF Price, OnReference, OnSpot, feed
<1> QED
  BY <1>1, <1>2

LEMMA ReadKeeps ==
  ASSUME Typed, Quoted, SamplerInv, strategy = "calibration", Read
  PROVE  SamplerInv'
<1>1. Waiting /\ Ordered
  BY DEF SamplerInv
<1>2. Typed' /\ phase' = "tick" /\ phase = "event" /\ strategy' = strategy
  BY EventKeeps, ReadIsEvent
<1>3. now \in Int /\ now' \in Int /\ farthest \in Int
  BY <1>1, <1>2 DEF Typed, Waiting
<1>4. pending' = pending /\ samples' = samples /\ farthest' = Max({farthest, now'})
  BY DEF Read
<1>5. farthest' \in {farthest, now'} /\ farthest' >= farthest /\ farthest' >= now'
  BY <1>3, <1>4, OfTwo
<1>6. farthest' \in Int
  BY <1>3, <1>5
<1>7. Waiting'
  <2>1. \A o \in Offsets : farthest' < o => o \in pending'
    <3> SUFFICES ASSUME NEW o \in Offsets, farthest' < o PROVE o \in pending
      BY <1>4
    <3>1. farthest < o
      BY <1>3, <1>5, <1>6, OffsetsAreInt
    <3> QED
      BY <1>1, <3>1 DEF Waiting
  <2>2. \A o \in pending' : farthest' >= o => now' >= o
    <3> SUFFICES ASSUME NEW o \in pending, farthest' >= o PROVE now' >= o
      BY <1>4
    <3>1. ~(farthest >= o)
      BY <1>1, <1>2 DEF Waiting
    <3> QED
      BY <1>5, <3>1
  <2> QED
    BY <1>1, <1>2, <1>3, <1>4, <1>5, <1>6, <2>1, <2>2 DEF Waiting
<1>8. Ordered'
  BY <1>1, <1>4, ReadIsEvent, StartStays DEF Ordered
<1> QED
  BY <1>7, <1>8 DEF SamplerInv

LEMMA SamplerStep ==
  StrategyInv /\ SamplerInv /\ [CNext]_<<vars, sampler>> => SamplerInv'
<1> SUFFICES ASSUME StrategyInv, SamplerInv, [CNext]_<<vars, sampler>> PROVE SamplerInv'
  OBVIOUS
<1>1. CASE strategy # "calibration" /\ Next
  <2>1. strategy' = strategy
    <3>1. CASE OnTick
      BY <3>1 DEF OnTick
    <3>2. CASE ~OnTick
      BY <1>1, <3>2, EventKeeps DEF StrategyInv, Next
    <3> QED
      BY <3>1, <3>2
  <2> QED
    BY <1>1, <2>1 DEF SamplerInv
<1>2. CASE strategy = "calibration" /\ Sample
  BY <1>2, SampleKeeps
<1>3. CASE strategy = "calibration" /\ Read
  BY <1>3, ReadKeeps DEF StrategyInv
<1>4. CASE UNCHANGED <<vars, sampler>>
  <2>1. UNCHANGED <<strategy, now, start, phase, sampler>>
    BY <1>4 DEF vars, market, feed
  <2> QED
    BY <2>1, SamplerStutters
<1> QED
  BY <1>1, <1>2, <1>3, <1>4 DEF CNext

(***************************************************************************)
(* SampledInTime: after every turn of the calibration each offset that an  *)
(* event has reached has one sample, taken at the first such event, though *)
(* several fall due together and the clock goes back; and once the start   *)
(* price is known no later sample is without a fair value.                 *)
(***************************************************************************)
THEOREM SamplesAreInTime == CSpec => []SampledInTime
<1>1. CSpec => []SamplerInv
  BY SamplerInit, SamplerStep, StrategyAlways, PTL DEF CSpec
<1>2. SamplerInv => SampledInTime
  <2> SUFFICES ASSUME Waiting, Ordered, phase = "event" PROVE SampledInTime
    BY DEF SamplerInv, SampledInTime
  <2>1. {s.offset : s \in samples} = {o \in Offsets : farthest >= o}
    <3>1. \A o \in Offsets : o \in Int
      BY OffsetsAreInt
    <3>2. \A o \in Offsets : o \notin pending => farthest >= o
      BY <3>1 DEF Waiting
    <3>3. \A o \in Offsets : farthest >= o => o \notin pending
      BY DEF Waiting
    <3> QED
      BY <3>2, <3>3 DEF Waiting
  <2> QED
    BY <2>1 DEF SampledInTime, Ordered
<1> QED
  BY <1>1, <1>2, PTL
=============================================================================
