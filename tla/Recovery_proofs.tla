--------------------------- MODULE Recovery_proofs ---------------------------
(***************************************************************************)
(* Theorems about Recovery and Report: for tapes of every length, any      *)
(* prices, fees and payouts, and any number of crashes and halts.          *)
(***************************************************************************)
EXTENDS Report, Sums

\* Every event of the tape has a time of its own.
TimeForEach == \A i, j \in Places : i < j => Tape[i].ts < Tape[j].ts

-----------------------------------------------------------------------------
(* The invariant. *)

Holding == [held : Int, cash : Int, cost : Int, fees : Int, realized : Int]

MarkRecord ==
  [kind : {"mark"}, event : Nat, run : Nat, events : Nat, ts : Nat, worth : Nat,
   equity : Int, base : Int \cup {Unknown}]
FillRecord ==
  [kind : {"fill"}, event : Nat, run : Nat, order : Nat,
   liquidity : {"maker", "taker"}, fee : Nat]
OrderRecord == [kind : {"order_submitted"}, run : Nat, order : Nat, lean : Int]
SettleRecord == [kind : {"settle"}, run : Nat, payout : Nat]
EndRecord ==
  [kind : {"run_end"}, run : Nat, events : Nat, fees : Int, realized : Int, cash : Int,
   halted : {"no", "kill", "loss"}, settled : BOOLEAN]
Entry ==
  [kind : {"run_start"}, run : Nat, capital : Nat] \cup [kind : {"resume"}, run : Nat]
    \cup OrderRecord \cup FillRecord \cup MarkRecord \cup SettleRecord \cup EndRecord

Marks == OfKind("mark")

\* What s shares leave that were bought with fees of f.
Left(s, f) ==
  [held |-> s, cash |-> Capital - s - f, cost |-> s + f, fees |-> f, realized |-> 0]

\* Where a process is in its loop, and what it has in memory there.
Phased ==
  /\ run = 0 => phase = "down" /\ entries = << >> /\ ~over /\ \A i \in Places : handled[i] = 0
  /\ phase = "down" =>
       /\ batch = "idle" /\ submitted = 0 /\ portfolio = Fresh /\ next = 1
       /\ worth = 0 /\ events = 0 /\ now = 0
       /\ baseline = Unknown /\ resumeAfter = Unknown /\ halted = "no"
  /\ batch # "idle" => phase \in {"fills", "tick"}
  /\ phase = "closing" => halted # "no"
  /\ halted # "no" => phase \in {"closing", "settled", "ending"}
  /\ phase = "settled" => halted # "kill" /\ (halted = "no" => over)
  /\ submitted > 0 \/ phase = "tick" => baseline # Unknown

\* A journal with a settlement in it ends with marks and a run_end.
SettledLast ==
  /\ OfKind("settle") # {} => phase \in {"settled", "ending", "down"}
  /\ \A i \in OfKind("settle") : \A j \in DOMAIN entries :
       j > i => entries[j].kind \in {"mark", "run_end"}

\* The shares that are held are those of the fills, up to the one applied.
Books ==
  Working =>
    LET pending == IF batch = "applied" THEN 1 ELSE 0
    IN  portfolio = Left(Cardinality(OfKind("fill")) + pending, FeesRecorded + pending * FeeNow)

\* What every mark says of the tape is so.
MarksTrue ==
  \A i \in Marks :
    LET m == entries[i]
    IN  /\ m.events \in 0 .. Len(Tape)
        /\ m.events = 0 => Len(Tape) = 0
        /\ m.events > 0 => m.ts = Tape[m.events].ts
        /\ \A e \in 1 .. m.events : handled[e] > 0

\* Where the process is on the tape: it has handled what it counts as
\* events, or passes over what earlier ones handled.
InPlace ==
  phase # "down" =>
    /\ events \in 0 .. Len(Tape) /\ next - 1 <= events
    /\ events > 0 => now = Tape[events].ts
    /\ resumeAfter # Unknown => resumeAfter <= now /\ (events = 0 => Len(Tape) = 0)
    /\ next - 1 < events => phase = "next" /\ resumeAfter = now
    /\ phase \in {"fills", "tick", "closing"} => events > 0
    /\ phase \in {"settled", "ending"} =>
         (halted = "no" => events = Len(Tape)) /\ (events = 0 => Len(Tape) = 0)
    /\ \A e \in 1 .. events : handled[e] > 0

\* The start equity is known to the marks as soon as it is to the process.
BasesTrue ==
  /\ \A i \in Marks : entries[i].base \in {Unknown, Capital} \/ ResumedBeforeMark
  /\ \A i, j \in Marks : i < j /\ entries[i].base # Unknown => entries[j].base # Unknown
  /\ phase # "down" /\ baseline = Unknown =>
       OfKind("fill") = {} /\ \A i \in Marks : entries[i].base = Unknown
  /\ baseline \in {Unknown, Capital} \/ ResumedBeforeMark

Whole == over => \A i \in Places : handled[i] > 0

\* As long as nothing crashed, no event is handled again, ...
Once == \A i \in Places : handled[i] <= 1

\* ... losses are measured from the capital, ...
FromCapital ==
  /\ \A i \in Marks : entries[i].base \in {Unknown, Capital}
  /\ baseline \in {Unknown, Capital}

\* ... nothing lies ahead of a process that was handled or filled, ...
Ahead ==
  phase # "down" =>
    /\ \A i \in Places : i > events => handled[i] = 0
    /\ \A i \in OfKind("fill") :
         /\ entries[i].event <= events
         /\ phase \in {"fills", "tick"} /\ entries[i].run # run => entries[i].event < events

\* ... and the last mark of a process covers all that was done.
Covered ==
  phase = "ending" \/ (phase = "down" /\ run > 0) =>
    /\ Marks # {}
    /\ phase = "ending" => Checkpoint.events = events
    /\ \A i \in Places : i > Checkpoint.events => handled[i] = 0
    /\ \A i \in OfKind("fill") : entries[i].event <= Checkpoint.events
    /\ Checkpoint.base = Unknown => OfKind("fill") = {}

\* An event that is handled again was handled by a process that crashed: what lies
\* ahead of a process, or of the last mark, was handled by such processes only.
Again ==
  /\ \A i \in Places : handled[i] <= 1 + crashes
  /\ phase # "down" => \A i \in Places : i > events => handled[i] <= crashes
  /\ phase = "ending" => Marks # {} /\ Checkpoint.events = events
  /\ phase = "down" /\ run > 0 =>
       \A i \in Places : Marks = {} \/ i > Checkpoint.events => handled[i] <= crashes

Harmless == crashes = 0 => Once /\ FromCapital /\ Ahead /\ Covered /\ FillsOfOneProcess

Types == TypeOK /\ entries \in Seq(Entry)

RInv ==
  /\ TimeForEach
  /\ Types /\ Phased /\ SettledLast /\ Books /\ MarksTrue /\ InPlace /\ BasesTrue /\ Whole
  /\ Again /\ Harmless

-----------------------------------------------------------------------------
(* Sets of places in the journal. *)

LEMMA Limits ==
  /\ Capital \in Nat /\ Fee \in Nat /\ MarkEvery \in Nat /\ Unknown \notin Int
  /\ Tape \in Seq(Event) /\ Len(Tape) \in Nat /\ Places = 1 .. Len(Tape)
  /\ MaxOrders \in Nat /\ MaxFills \in Nat /\ MaxCrashes \in Nat /\ MaxKills \in Nat
  /\ MaxRuns \in Nat \ {0}
  /\ Leans \subseteq Int /\ \A i \in Places : Tape[i] \in Event
  BY RecoveryAssumption DEF Places, MaxRuns

\* Of numbers up to n one is greatest.
LEMMA Greatest ==
  ASSUME NEW n \in Nat, NEW S, S \subseteq 1 .. n, S # {}
  PROVE  Max(S) \in S /\ \A k \in S : k <= Max(S)
<1> DEFINE C == {n - k : k \in S}
<1>0. \A k \in S : k \in Nat /\ n - k \in Nat
  OBVIOUS
<1>1. C \subseteq Nat /\ C # {}
  BY <1>0
<1>2. PICK c \in C : \A d \in C : c <= d
  <2> HIDE DEF C
  <2> QED
    BY <1>1, LeastNumber
<1>3. PICK m \in S : c = n - m
  OBVIOUS
<1>4. \A k \in S : m >= k
  <2> SUFFICES ASSUME NEW k \in S PROVE m >= k
    OBVIOUS
  <2>1. c <= n - k
    BY <1>2
  <2> QED
    BY <1>0, <1>3, <2>1
<1>5. Max(S) \in S /\ \A k \in S : Max(S) >= k
  BY <1>4 DEF Max
<1> QED
  BY <1>0, <1>5

\* What is in the journal stays there, and in its place.
LEMMA Grown ==
  ASSUME entries \in Seq(Entry), NEW r \in Entry, entries' = Append(entries, r)
  PROVE  /\ entries' \in Seq(Entry)
         /\ Len(entries) \in Nat /\ Len(entries') = Len(entries) + 1
         /\ DOMAIN entries = 1 .. Len(entries) /\ DOMAIN entries' = 1 .. Len(entries) + 1
         /\ \A i \in DOMAIN entries : entries'[i] = entries[i]
         /\ entries'[Len(entries) + 1] = r
  OBVIOUS

LEMMA KindsGrown ==
  ASSUME entries \in Seq(Entry), NEW r \in Entry, entries' = Append(entries, r), NEW kind
  PROVE  /\ Len(entries) \in Nat
         /\ OfKind(kind) \subseteq 1 .. Len(entries)
         /\ r.kind = kind => OfKind(kind)' = OfKind(kind) \cup {Len(entries) + 1}
         /\ r.kind # kind => OfKind(kind)' = OfKind(kind)
         /\ \A i \in OfKind(kind) : entries'[i] = entries[i]
         /\ entries'[Len(entries) + 1] = r
<1> DEFINE n == Len(entries)
<1>1. /\ n \in Nat /\ DOMAIN entries = 1 .. n /\ DOMAIN entries' = 1 .. n + 1
      /\ \A i \in 1 .. n : entries'[i] = entries[i]
      /\ entries'[n + 1] = r
  BY Grown
<1> HIDE DEF n
<1>2. OfKind(kind) \subseteq 1 .. n /\ \A i \in OfKind(kind) : entries'[i] = entries[i]
  BY <1>1 DEF OfKind
<1>3. OfKind(kind)' = {i \in 1 .. n + 1 : entries'[i].kind = kind}
  BY <1>1 DEF OfKind
<1>4. r.kind = kind => OfKind(kind)' = OfKind(kind) \cup {n + 1}
  BY <1>1, <1>3 DEF OfKind
<1>5. r.kind # kind => OfKind(kind)' = OfKind(kind)
  BY <1>1, <1>3 DEF OfKind
<1> QED
  BY <1>1, <1>2, <1>4, <1>5 DEF n

\* The records of a kind.
LEMMA Records ==
  ASSUME entries \in Seq(Entry)
  PROVE  /\ \A i \in OfKind("mark") : entries[i] \in MarkRecord
         /\ \A i \in OfKind("fill") : entries[i] \in FillRecord
         /\ \A i \in OfKind("order_submitted") : entries[i] \in OrderRecord
         /\ \A i \in OfKind("settle") : entries[i] \in SettleRecord
         /\ \A i \in OfKind("run_end") : entries[i] \in EndRecord
<1>1. \A kind : \A i \in OfKind(kind) : entries[i] \in Entry /\ entries[i].kind = kind
  BY DEF OfKind
<1>2. \A e \in Entry : /\ e.kind = "mark" => e \in MarkRecord
                       /\ e.kind = "fill" => e \in FillRecord
                       /\ e.kind = "order_submitted" => e \in OrderRecord
                       /\ e.kind = "settle" => e \in SettleRecord
                       /\ e.kind = "run_end" => e \in EndRecord
  BY DEF Entry, MarkRecord, FillRecord, OrderRecord, SettleRecord, EndRecord
<1> QED
  BY <1>1, <1>2

\* There are finitely many of each kind.
LEMMA KindsFinite ==
  ASSUME entries \in Seq(Entry), NEW kind
  PROVE  /\ IsFiniteSet(OfKind(kind)) /\ Cardinality(OfKind(kind)) \in Nat
         /\ Cardinality(OfKind(kind)) = 0 => OfKind(kind) = {}
<1>1. Len(entries) \in Nat /\ OfKind(kind) \subseteq 1 .. Len(entries)
  BY DEF OfKind
<1>2. IsFiniteSet(OfKind(kind))
  <2>1. IsFiniteSet(1 .. Len(entries))
    BY <1>1, FS_Interval
  <2> QED
    BY <1>1, <2>1, FS_Subset
<1> QED
  BY <1>2, FS_CardinalityType, FS_EmptySet

\* What the fills in the journal cost.
LEMMA FeesType ==
  ASSUME entries \in Seq(Entry)
  PROVE  FeesRecorded \in Nat /\ \A i \in OfKind("fill") : FeesOf[i] \in Nat
<1>1. \A i \in OfKind("fill") : FeesOf[i] \in Nat
  BY Records DEF FeesOf, FillRecord
<1> QED
  BY <1>1, KindsFinite, SumIsNat DEF FeesRecorded

LEMMA FeesKept ==
  ASSUME entries \in Seq(Entry), OfKind("fill")' = OfKind("fill"),
         \A i \in OfKind("fill") : entries'[i] = entries[i]
  PROVE  FeesRecorded' = FeesRecorded
<1>1. FeesOf' = FeesOf
  BY DEF FeesOf
<1> QED
  BY <1>1 DEF FeesRecorded

LEMMA FeesAdded ==
  ASSUME entries \in Seq(Entry), NEW r \in FillRecord, entries' = Append(entries, r)
  PROVE  /\ FeesRecorded' = FeesRecorded + r.fee
         /\ Cardinality(OfKind("fill")') = Cardinality(OfKind("fill")) + 1
<1> DEFINE n == Len(entries) + 1
           S == OfKind("fill")
<1>1. r \in Entry /\ r.kind = "fill" /\ r.fee \in Nat
  BY DEF Entry, FillRecord
<1>2. /\ S' = S \cup {n} /\ n \notin S /\ \A i \in S : entries'[i] = entries[i]
      /\ entries'[n] = r
  <2>1. Len(entries) \in Nat /\ S \subseteq 1 .. Len(entries)
    BY <1>1, KindsGrown
  <2>2. n \notin S
    BY <2>1
  <2> QED
    BY <1>1, <2>2, KindsGrown
<1>3. IsFiniteSet(S) /\ Cardinality(S) \in Nat
  BY KindsFinite
<1>4. Cardinality(S \cup {n}) = Cardinality(S) + 1
  BY <1>2, <1>3, FS_AddElement
<1>5. /\ \A i \in S : FeesOf'[i] = FeesOf[i] /\ FeesOf[i] \in Nat
      /\ FeesOf'[n] = r.fee
  BY <1>2, FeesType DEF FeesOf
<1> HIDE DEF n, S
<1>6. SumFunctionOnSet(FeesOf', S \cup {n}) = r.fee + SumFunctionOnSet(FeesOf', S)
  <2>1. \A i \in S \cup {n} : FeesOf'[i] \in Int
    BY <1>1, <1>5
  <2> DEFINE g == FeesOf'
  <2> HIDE DEF g
  <2>2. \A i \in S \cup {n} : g[i] \in Int
    BY <2>1 DEF g
  <2>3. SumFunctionOnSet(g, S \cup {n}) = g[n] + SumFunctionOnSet(g, S)
    BY <1>2, <1>3, <2>2, SumWith
  <2> QED
    BY <1>5, <2>3 DEF g
<1>7. SumFunctionOnSet(FeesOf', S) = SumFunctionOnSet(FeesOf, S)
  BY <1>3, <1>5, SumOfEqual
<1>8. FeesRecorded' = SumFunctionOnSet(FeesOf', S \cup {n}) /\ FeesRecorded = SumFunctionOnSet(FeesOf, S)
  BY <1>2 DEF FeesRecorded, S
<1>9. FeesRecorded \in Nat
  BY FeesType
<1> QED
  <2>1. Cardinality(OfKind("fill")') = Cardinality(OfKind("fill")) + 1
    BY <1>2, <1>4 DEF S
  <2>2. FeesRecorded' = r.fee + FeesRecorded
    BY <1>6, <1>7, <1>8
  <2> QED
    BY <1>1, <1>9, <2>1, <2>2

-----------------------------------------------------------------------------
(* The portfolio. *)

\* Holdings whose fields are equal are equal.
LEMMA SameHolding ==
  ASSUME NEW p \in Holding, NEW q \in Holding,
         p.held = q.held, p.cash = q.cash, p.cost = q.cost, p.fees = q.fees,
         p.realized = q.realized
  PROVE  p = q
  BY DEF Holding

LEMMA BoughtIs ==
  ASSUME NEW p \in Holding, NEW fee \in Int
  PROVE  /\ Bought(p, fee) \in Holding
         /\ Bought(p, fee).held = p.held + 1
         /\ Bought(p, fee).cash = p.cash - 1 - fee
         /\ Bought(p, fee).cost = p.cost + 1 + fee
         /\ Bought(p, fee).fees = p.fees + fee
         /\ Bought(p, fee).realized = p.realized
<1>1. /\ DOMAIN p = {"held", "cash", "cost", "fees", "realized"}
      /\ p.held \in Int /\ p.cash \in Int /\ p.cost \in Int /\ p.fees \in Int /\ p.realized \in Int
  BY DEF Holding
<1>2. Bought(p, fee).held = p.held + 1
  BY <1>1 DEF Bought
<1>3. Bought(p, fee).cash = p.cash - 1 - fee
  BY <1>1 DEF Bought
<1>4. Bought(p, fee).cost = p.cost + 1 + fee
  BY <1>1 DEF Bought
<1>5. Bought(p, fee).fees = p.fees + fee
  BY <1>1 DEF Bought
<1>6. Bought(p, fee).realized = p.realized
  BY <1>1 DEF Bought
<1>7. Bought(p, fee) \in Holding
  <2> DEFINE a == [p EXCEPT !.held = p.held + 1]
             b == [a EXCEPT !.cash = p.cash - 1 - fee]
             c == [b EXCEPT !.cost = p.cost + 1 + fee]
             d == [c EXCEPT !.fees = p.fees + fee]
  <2>1. a \in Holding
    BY <1>1 DEF Holding
  <2>2. b \in Holding
    <3> HIDE DEF a
    <3> QED
      BY <1>1, <2>1 DEF Holding
  <2>3. c \in Holding
    <3> HIDE DEF b
    <3> QED
      BY <1>1, <2>2 DEF Holding
  <2>4. d \in Holding
    <3> HIDE DEF c
    <3> QED
      BY <1>1, <2>3 DEF Holding
  <2>5. Bought(p, fee) = d
    BY <1>1 DEF Bought
  <2> QED
    BY <2>4, <2>5
<1> QED
  BY <1>2, <1>3, <1>4, <1>5, <1>6, <1>7

LEMMA LeftType ==
  ASSUME NEW s \in Int, NEW f \in Int
  PROVE  /\ Left(s, f) \in Holding
         /\ Left(s, f).held = s /\ Left(s, f).cash = Capital - s - f
         /\ Left(s, f).cost = s + f /\ Left(s, f).fees = f /\ Left(s, f).realized = 0
  BY Limits DEF Left, Holding

LEMMA FreshIsLeft == Fresh = Left(0, 0) /\ Fresh \in Holding
<1>1. Fresh \in Holding /\ Left(0, 0) \in Holding
  BY Limits, LeftType DEF Fresh, Holding
<1>2. Fresh = Left(0, 0)
  BY Limits DEF Fresh, Left
<1> QED
  BY <1>1, <1>2

LEMMA BoughtLeft ==
  ASSUME NEW s \in Int, NEW f \in Int, NEW fee \in Int
  PROVE  Bought(Left(s, f), fee) = Left(s + 1, f + fee)
<1> DEFINE p == Left(s, f)
           q == Left(s + 1, f + fee)
           b == Bought(p, fee)
<1>1. p \in Holding /\ q \in Holding /\ b \in Holding
  BY LeftType, BoughtIs
<1>2. /\ p.held = s /\ p.cash = Capital - s - f /\ p.cost = s + f /\ p.fees = f /\ p.realized = 0
      /\ q.held = s + 1 /\ q.cash = Capital - (s + 1) - (f + fee) /\ q.cost = s + 1 + (f + fee)
      /\ q.fees = f + fee /\ q.realized = 0
  <2>1. /\ p.held = s /\ p.cash = Capital - s - f /\ p.cost = s + f /\ p.fees = f
        /\ p.realized = 0
    BY LeftType
  <2> DEFINE t == s + 1
             g == f + fee
  <2>2. t \in Int /\ g \in Int
    OBVIOUS
  <2> HIDE DEF t, g
  <2>3. /\ Left(t, g).held = t /\ Left(t, g).cash = Capital - t - g /\ Left(t, g).cost = t + g
        /\ Left(t, g).fees = g /\ Left(t, g).realized = 0
    BY <2>2, LeftType
  <2>4. q = Left(t, g)
    BY DEF t, g
  <2> HIDE DEF q, p
  <2> QED
    BY <2>1, <2>3, <2>4 DEF t, g
<1>3. /\ b.held = p.held + 1 /\ b.cash = p.cash - 1 - fee /\ b.cost = p.cost + 1 + fee
      /\ b.fees = p.fees + fee /\ b.realized = p.realized
  BY <1>1, BoughtIs
<1> HIDE DEF p, q, b
<1>4. b = q
  BY <1>1, <1>2, <1>3, Limits, SameHolding
<1> QED
  BY <1>4 DEF b, p, q

-----------------------------------------------------------------------------
(* What is rebuilt. *)

Replay(it) ==
  [T \in SUBSET DOMAIN entries |->
     IF T = {} THEN Fresh ELSE Replayed(it[T \ {Max(T)}], entries[Max(T)])]

LEMMA RebuiltIs == Rebuilt = (CHOOSE it : it = Replay(it))[DOMAIN entries]
  BY DEF Rebuilt, FoldLeft, MapThenFoldSet, Replay

\* What the fills in a set of places leave.
FillsIn(T)  == T \cap OfKind("fill")
LeftBy(T) == Left(Cardinality(FillsIn(T)), SumFunctionOnSet(FeesOf, FillsIn(T)))

LEMMA LeftByStep ==
  ASSUME entries \in Seq(Entry), NEW T \in SUBSET DOMAIN entries
  PROVE  LeftBy(T) = IF T = {} THEN Fresh
                     ELSE Replayed(LeftBy(T \ {Max(T)}), entries[Max(T)])
<1> DEFINE F == FillsIn(T)
           x == Max(T)
           G == FillsIn(T \ {x})
<1>1. IsFiniteSet(F) /\ IsFiniteSet(G) /\ \A i \in F : FeesOf[i] \in Nat
  <2>1. IsFiniteSet(OfKind("fill")) /\ F \subseteq OfKind("fill") /\ G \subseteq OfKind("fill")
    BY KindsFinite DEF FillsIn
  <2> QED
    BY <2>1, FS_Subset, FeesType
<1>2. CASE T = {}
  <2>1. F = {}
    BY <1>2 DEF FillsIn
  <2>2. Cardinality(F) = 0 /\ SumFunctionOnSet(FeesOf, F) = 0
    BY <2>1, FS_EmptySet, SumOfNone
  <2> QED
    BY <1>2, <2>2, FreshIsLeft DEF LeftBy
<1>3. CASE T # {}
  <2>1. x \in T
    <3>1. Len(entries) \in Nat /\ T \subseteq 1 .. Len(entries)
      OBVIOUS
    <3> QED
      BY <1>3, <3>1, Greatest
  <2>2. Cardinality(G) \in Nat /\ SumFunctionOnSet(FeesOf, G) \in Nat
    <3>1. \A i \in G : FeesOf[i] \in Nat
      BY <1>1 DEF FillsIn
    <3> QED
      BY <1>1, <3>1, FS_CardinalityType, SumIsNat
  <2>3. CASE entries[x].kind = "fill"
    <3>1. x \in F /\ G = F \ {x} /\ FeesOf[x] = entries[x].fee
      BY <2>1, <2>3 DEF FillsIn, OfKind, FeesOf
    <3>2. /\ Cardinality(G) = Cardinality(F) - 1 /\ Cardinality(F) \in Nat
          /\ SumFunctionOnSet(FeesOf, F) = FeesOf[x] + SumFunctionOnSet(FeesOf, G)
      <4>1. Cardinality(G) = Cardinality(F) - 1
        BY <1>1, <3>1, FS_RemoveElement
      <4>2. SumFunctionOnSet(FeesOf, F) = FeesOf[x] + SumFunctionOnSet(FeesOf, G)
        <5>1. \A i \in F : FeesOf[i] \in Int
          BY <1>1
        <5> HIDE DEF F, G, x
        <5>2. SumFunctionOnSet(FeesOf, F) = FeesOf[x] + SumFunctionOnSet(FeesOf, F \ {x})
          BY <1>1, <3>1, <5>1, SumWithout
        <5> QED
          BY <3>1, <5>2
      <4>3. Cardinality(F) \in Nat
        BY <1>1, FS_CardinalityType
      <4> QED
        BY <4>1, <4>2, <4>3
    <3> DEFINE c == Cardinality(G)
               f == SumFunctionOnSet(FeesOf, G)
    <3>3. Cardinality(F) = c + 1 /\ SumFunctionOnSet(FeesOf, F) = f + entries[x].fee
      <4>1. FeesOf[x] \in Nat
        BY <1>1, <3>1
      <4> QED
        BY <2>2, <3>1, <3>2, <4>1
    <3>4. c \in Int /\ f \in Int /\ entries[x].fee \in Int
      BY <1>1, <2>2, <3>1
    <3> HIDE DEF c, f, x, F, G
    <3>5. Bought(Left(c, f), entries[x].fee) = Left(c + 1, f + entries[x].fee)
      BY <3>4, BoughtLeft
    <3>6. LeftBy(T) = Left(c + 1, f + entries[x].fee)
      BY <3>3 DEF LeftBy, F
    <3>7. LeftBy(T \ {x}) = Left(c, f)
      BY DEF LeftBy, G, c, f
    <3> QED
      BY <1>3, <2>3, <3>5, <3>6, <3>7 DEF Replayed, x
  <2>4. CASE entries[x].kind # "fill"
    <3>1. G = F
      BY <2>4 DEF FillsIn, OfKind
    <3>2. LeftBy(T \ {x}) = LeftBy(T)
      BY <3>1 DEF LeftBy
    <3> QED
      BY <1>3, <2>4, <3>2 DEF Replayed
  <2> QED
    BY <2>3, <2>4
<1> QED
  BY <1>2, <1>3

\* The portfolio that is rebuilt is the one that the fills on record leave.
LEMMA RebuiltIsLeft ==
  ASSUME entries \in Seq(Entry)
  PROVE  Rebuilt = Left(Cardinality(OfKind("fill")), FeesRecorded)
<1> DEFINE D == DOMAIN entries
           left == [T \in SUBSET D |-> LeftBy(T)]
           it == CHOOSE g : g = Replay(g)
<1>1. IsFiniteSet(D) /\ \A T \in SUBSET D : T # {} => Max(T) \in T
  <2>1. Len(entries) \in Nat /\ D = 1 .. Len(entries)
    OBVIOUS
  <2>2. IsFiniteSet(D)
    BY <2>1, FS_Interval
  <2>3. \A T \in SUBSET D : T # {} => Max(T) \in T
    BY <2>1, Greatest
  <2> QED
    BY <2>2, <2>3
<1>2. left = Replay(left)
  <2>1. \A T \in SUBSET D : LeftBy(T) = IF T = {} THEN Fresh
                              ELSE Replayed(left[T \ {Max(T)}], entries[Max(T)])
    BY LeftByStep
  <2> HIDE DEF left
  <2>2. left = [T \in SUBSET D |-> LeftBy(T)]
    BY DEF left
  <2> QED
    BY <2>1, <2>2 DEF Replay
<1>3. it = Replay(it)
  <2> HIDE DEF left
  <2> QED
    BY <1>2
<1> HIDE DEF it, left
<1>4. it[D] = LeftBy(D)
  <2>1. SUFFICES ASSUME it[D] # LeftBy(D) PROVE FALSE
    OBVIOUS
  <2> DEFINE C == {T \in SUBSET D : it[T] # LeftBy(T)}
  <2>2. C # {} /\ C \subseteq SUBSET D
    BY <2>1
  <2>3. PICK T \in C : \A U \in C : U \subseteq T => U = T
    <3> HIDE DEF C, D
    <3> QED
      BY <1>1, <2>2, SmallestSubset
  <2>4. it[T] = IF T = {} THEN Fresh ELSE Replayed(it[T \ {Max(T)}], entries[Max(T)])
    <3>1. T \in SUBSET D
      OBVIOUS
    <3> QED
      BY <1>3, <3>1 DEF Replay
  <2>5. T # {} => it[T \ {Max(T)}] = LeftBy(T \ {Max(T)})
    BY <1>1, <2>3
  <2> QED
    BY <2>4, <2>5, LeftByStep
<1>5. FillsIn(D) = OfKind("fill")
  BY DEF FillsIn, OfKind
<1> QED
  BY <1>4, <1>5, RebuiltIs DEF it, LeftBy, FeesRecorded

-----------------------------------------------------------------------------
(* Types. *)

LEMMA TimesInt == \A x \in Int, y \in Int : x * y \in Int
  OBVIOUS

\* The checkpoint is the last of the marks.
LEMMA CheckpointIs ==
  ASSUME entries \in Seq(Entry), Marks # {}
  PROVE  /\ Max(Marks) \in Marks /\ \A i \in Marks : i <= Max(Marks)
         /\ Checkpoint = entries[Max(Marks)] /\ Checkpoint \in MarkRecord
<1>1. Len(entries) \in Nat /\ Marks \subseteq 1 .. Len(entries)
  BY DEF Marks, OfKind
<1>2. Max(Marks) \in Marks /\ \A i \in Marks : i <= Max(Marks)
  BY <1>1, Greatest
<1>3. Checkpoint = entries[Max(Marks)]
  BY DEF Checkpoint, Marks
<1> QED
  BY <1>2, <1>3, Records DEF Marks

LEMMA EquityType ==
  ASSUME NEW p \in Holding, NEW m \in Int
  PROVE  Equity(p, m) \in Int
<1>1. p.cash \in Int /\ p.held \in Int
  BY DEF Holding
<1>2. p.held * m \in Int
  BY <1>1, TimesInt
<1> QED
  BY <1>1, <1>2 DEF Equity

LEMMA PaidIs ==
  ASSUME NEW p \in Holding, NEW payout \in Int
  PROVE  /\ Paid(p, payout) \in Holding
         /\ Paid(p, payout).held = 0 /\ Paid(p, payout).cost = 0
         /\ Paid(p, payout).cash = p.cash + p.held * payout
         /\ Paid(p, payout).fees = p.fees
         /\ Paid(p, payout).realized = p.realized + p.held * payout - p.cost
<1> DEFINE x == p.held * payout
<1>1. /\ DOMAIN p = {"held", "cash", "cost", "fees", "realized"}
      /\ p.held \in Int /\ p.cash \in Int /\ p.cost \in Int /\ p.fees \in Int /\ p.realized \in Int
  BY DEF Holding
<1>2. x \in Int
  BY <1>1, TimesInt
<1>3. Paid(p, payout) = [p EXCEPT !.held = 0, !.cost = 0, !.cash = p.cash + x,
                                  !.realized = p.realized + x - p.cost]
  BY <1>1 DEF Paid
<1> HIDE DEF x
<1> DEFINE a == [p EXCEPT !.held = 0]
           b == [a EXCEPT !.cost = 0]
           c == [b EXCEPT !.cash = p.cash + x]
           d == [c EXCEPT !.realized = p.realized + x - p.cost]
<1>4. Paid(p, payout) = d
  BY <1>1, <1>3
<1>5. a \in Holding /\ a.held = 0
  BY <1>1 DEF Holding
<1>6. b \in Holding /\ b.cost = 0
  <2> HIDE DEF a
  <2> QED
    BY <1>5 DEF Holding
<1>7. c \in Holding
  <2> HIDE DEF b
  <2> QED
    BY <1>1, <1>2, <1>6 DEF Holding
<1>8. d \in Holding
  <2> HIDE DEF c
  <2> QED
    BY <1>1, <1>2, <1>7 DEF Holding
<1>9. /\ d.held = 0 /\ d.cost = 0 /\ d.fees = p.fees
  BY <1>1
<1>10. d.cash = p.cash + x
  BY <1>1
<1>11. d.realized = p.realized + x - p.cost
  BY <1>1
<1> HIDE DEF d
<1> QED
  BY <1>4, <1>8, <1>9, <1>10, <1>11 DEF x

\* What is appended to the journal.
LEMMA Appendable ==
  ASSUME Types
  PROVE  /\ MarkEntry(baseline) \in MarkRecord /\ MarkEntry(baseline).kind = "mark"
         /\ \A order \in Nat, l \in {"maker", "taker"} :
              FillEntry(order, l, FeeNow) \in FillRecord
         /\ \A lean \in Int : Submitted(lean) \in OrderRecord
         /\ \A payout \in Nat : Settled(payout) \in SettleRecord
         /\ Ended \in EndRecord
         /\ \A k \in Nat : /\ Start(k) \in Entry /\ Start(k).kind = "run_start"
                           /\ Resumed(k) \in Entry /\ Resumed(k).kind = "resume"
<1>1. /\ run \in Nat /\ next - 1 \in Nat /\ events \in Nat /\ now \in Nat /\ worth \in Nat
      /\ submitted \in Nat /\ baseline \in Int \cup {Unknown} /\ halted \in {"no", "kill", "loss"}
      /\ portfolio \in Holding
  BY Limits DEF Types, TypeOK, Holding
<1>2. Equity(portfolio, worth) \in Int
  BY <1>1, EquityType
<1>3. MarkEntry(baseline) \in MarkRecord /\ MarkEntry(baseline).kind = "mark"
  BY <1>1, <1>2 DEF MarkEntry, MarkRecord
<1>4. FeeNow \in Nat
  BY Limits DEF FeeNow
<1>5. \A order \in Nat, l \in {"maker", "taker"} :
        FillEntry(order, l, FeeNow) \in FillRecord
  BY <1>1, <1>4 DEF FillEntry, FillRecord
<1>6. \A lean \in Int : Submitted(lean) \in OrderRecord
  BY <1>1 DEF Submitted, OrderRecord
<1>7. \A payout \in Nat : Settled(payout) \in SettleRecord
  BY <1>1 DEF Settled, SettleRecord
<1>8. Ended \in EndRecord
  <2>1. /\ portfolio.fees \in Int /\ portfolio.realized \in Int /\ portfolio.cash \in Int
        /\ SettledHere \in BOOLEAN
    BY <1>1 DEF Holding, SettledHere
  <2> QED
    BY <1>1, <2>1 DEF Ended, EndRecord
<1>9. \A k \in Nat : /\ Start(k) \in Entry /\ Start(k).kind = "run_start"
                     /\ Resumed(k) \in Entry /\ Resumed(k).kind = "resume"
  BY Limits DEF Start, Resumed, Entry
<1> QED
  BY <1>3, <1>5, <1>6, <1>7, <1>8, <1>9

LEMMA EntryKinds ==
  /\ \A e \in MarkRecord : e \in Entry /\ e.kind = "mark"
  /\ \A e \in FillRecord : e \in Entry /\ e.kind = "fill"
  /\ \A e \in OrderRecord : e \in Entry /\ e.kind = "order_submitted"
  /\ \A e \in SettleRecord : e \in Entry /\ e.kind = "settle"
  /\ \A e \in EndRecord : e \in Entry /\ e.kind = "run_end"
  BY DEF Entry, MarkRecord, FillRecord, OrderRecord, SettleRecord, EndRecord

LEMMA EntryKind == \A e \in Entry :
  e.kind \in {"run_start", "resume", "order_submitted", "fill", "mark", "settle", "run_end"}
  BY DEF Entry, MarkRecord, FillRecord, OrderRecord, SettleRecord, EndRecord

\* What an entry appended means for the types.
LEMMA JournalTyped ==
  ASSUME Types, \/ UNCHANGED entries
                \/ \E r \in Entry : Append1(r)
  PROVE  /\ entries' \in Seq(Entry)
         /\ \A i \in DOMAIN entries' : entries'[i].kind \in
              {"run_start", "resume", "order_submitted", "fill", "mark", "settle", "run_end"}
<1>1. entries' \in Seq(Entry)
  <2>1. CASE UNCHANGED entries
    BY <2>1 DEF Types
  <2>2. ASSUME NEW r \in Entry, Append1(r) PROVE entries' \in Seq(Entry)
    BY <2>2, Grown DEF Types, Append1
  <2> QED
    BY <2>1, <2>2
<1>2. \A i \in DOMAIN entries' : entries'[i] \in Entry
  BY <1>1
<1> QED
  BY <1>1, <1>2, EntryKind

LEMMA TypesInit == Init => Types
<1> SUFFICES ASSUME Init PROVE Types
  OBVIOUS
<1>1. portfolio \in Holding
  BY FreshIsLeft DEF Init
<1>2. entries = << >> /\ entries \in Seq(Entry) /\ \A i \in DOMAIN entries : FALSE
  BY DEF Init
<1> QED
  <2>1. handled \in [Places -> Nat] /\ next \in 1 .. Len(Tape) + 1
    BY Limits DEF Init
  <2> QED
    <3>1. /\ submitted = 0 /\ skipped = 0 /\ worth = 0 /\ events = 0 /\ now = 0 /\ run = 0
          /\ crashes = 0 /\ kills = 0 /\ torn = FALSE /\ raised = FALSE /\ over = FALSE
          /\ phase = "down" /\ batch = "idle" /\ halted = "no"
          /\ lastMark = Unknown /\ resumeAfter = Unknown /\ baseline = Unknown
      BY DEF Init
    <3>2. /\ 0 \in 0 .. MaxOrders /\ 0 \in 0 .. MaxRuns
          /\ 0 \in 0 .. MaxCrashes /\ 0 \in 0 .. MaxKills
      BY Limits
    <3> QED
      BY <1>1, <1>2, <2>1, <3>1, <3>2 DEF Types, TypeOK, Holding

LEMMA BeginTyped == Types /\ Begin => Types'
<1> SUFFICES ASSUME Types, Begin PROVE Types'
  OBVIOUS
<1>1. \E r \in Entry : Append1(r)
  BY Appendable DEF Begin
<1> QED
  BY <1>1, JournalTyped, Limits DEF Begin, memory, Types, TypeOK

LEMMA ResumeTyped == Types /\ Resume => Types'
<1> SUFFICES ASSUME Types, Resume PROVE Types'
  OBVIOUS
<1>1. run \in Nat /\ run + 1 \in Nat
  <2>1. run \in 0 .. MaxRuns
    BY DEF Types, TypeOK
  <2> QED
    BY <2>1, Limits
<1>2. \E r \in Entry : Append1(r)
  BY <1>1, Appendable DEF Resume
<1>3. portfolio' \in Holding
  <2>1. Cardinality(OfKind("fill")) \in Int /\ FeesRecorded \in Int
    BY KindsFinite, FeesType DEF Types
  <2> QED
    BY <2>1, RebuiltIsLeft, LeftType DEF Resume, Types
<1>4. OfKind("mark") # {} => Checkpoint \in MarkRecord
  BY CheckpointIs DEF Marks, Types
<1>5. worth' \in Nat /\ baseline' \in Int \cup {Unknown}
  <2>1. OfKind("mark") # {} => Checkpoint.worth \in Nat /\ Checkpoint.base \in Int \cup {Unknown}
    BY <1>4 DEF MarkRecord
  <2>2. CASE OfKind("mark") # {} /\ Checkpoint.base # Unknown
    BY <2>1, <2>2 DEF Resume, Restored
  <2>3. CASE ~(OfKind("mark") # {} /\ Checkpoint.base # Unknown)
    <3>1. /\ worth' = IF OfKind("mark") = {} THEN 0 ELSE Checkpoint.worth
          /\ baseline' = Equity(portfolio', worth')
      BY <2>3 DEF Resume, Restored
    <3>2. worth' \in Nat
      BY <2>1, <3>1
    <3> QED
      BY <1>3, <3>1, <3>2, EquityType
  <2> QED
    BY <2>2, <2>3
<1>6. events' \in Nat /\ now' \in Nat /\ resumeAfter' \in Nat \cup {Unknown}
  BY <1>4 DEF Resume, MarkRecord
<1>7. run' \in 0 .. MaxRuns
  BY Limits DEF Resume, Types, TypeOK
<1> QED
  BY <1>2, <1>3, <1>5, <1>6, <1>7, JournalTyped DEF Resume, Types, TypeOK, Holding

LEMMA SkipTyped == Types /\ Skip => Types'
<1> SUFFICES ASSUME Types, Skip PROVE Types'
  OBVIOUS
<1>1. UNCHANGED entries
  BY DEF Skip, disk
<1> QED
  <2>1. next' \in 1 .. Len(Tape) + 1 /\ skipped' \in Nat
    <3>1. next \in 1 .. Len(Tape) + 1 /\ skipped \in Nat
      BY DEF Types, TypeOK
    <3>2. next \in 1 .. Len(Tape) /\ next' = next + 1 /\ skipped' = skipped + 1
      BY DEF Skip, Places
    <3> QED
      BY <3>1, <3>2, Limits
  <2> QED
    BY <1>1, <2>1, JournalTyped DEF Skip, disk, history, Types, TypeOK

LEMMA HandleTyped == Types /\ Handle => Types'
<1> SUFFICES ASSUME Types, Handle PROVE Types'
  OBVIOUS
<1>1. UNCHANGED entries
  BY DEF Handle, disk
<1>2. Tape[next].ts \in Nat /\ Tape[next].mark \in Nat /\ next \in 1 .. Len(Tape)
  BY Limits DEF Handle, Event
<1>3. now' \in Nat /\ worth' \in Nat
  BY <1>2 DEF Handle, Types, TypeOK
<1>4. handled' \in [Places -> Nat]
  BY SMTT(60) DEF Handle, Types, TypeOK
<1> QED
  <2>1. next' \in 1 .. Len(Tape) + 1 /\ skipped' \in Nat /\ events' \in Nat
    <3>1. next' = next + 1 /\ skipped' = 0 /\ events' = events + 1
      BY DEF Handle
    <3>2. events \in Nat
      BY DEF Types, TypeOK
    <3> QED
      BY <1>2, <3>1, <3>2, Limits
  <2> QED
    BY <1>1, <1>3, <1>4, <2>1, JournalTyped DEF Handle, disk, Types, TypeOK

LEMMA SubmitTyped == \A lean \in Leans : \A finds : Types /\ Submit(lean, finds) => Types'
<1> SUFFICES ASSUME NEW lean \in Leans, NEW finds, Types, Submit(lean, finds) PROVE Types'
  OBVIOUS
<1>1. \E r \in Entry : Append1(r)
  BY Appendable, EntryKinds, Limits DEF Submit
<1> QED
  <2>1. submitted' \in 0 .. MaxOrders
    <3>1. submitted \in 0 .. MaxOrders
      BY DEF Types, TypeOK
    <3>2. submitted < MaxOrders /\ submitted' = submitted + 1
      BY DEF Submit
    <3> QED
      BY <3>1, <3>2, Limits
  <2> QED
    BY <1>1, <2>1, JournalTyped, SMTT(60) DEF Submit, history, Types, TypeOK

LEMMA ApplyTyped == Types /\ Apply => Types'
<1> SUFFICES ASSUME Types, Apply PROVE Types'
  OBVIOUS
<1>1. UNCHANGED entries
  BY DEF Apply, disk
<1>2. portfolio' \in Holding
  <2>1. FeeNow \in Int
    BY Limits DEF FeeNow
  <2>2. portfolio \in Holding
    BY DEF Types, TypeOK, Holding
  <2> QED
    BY <2>1, <2>2, BoughtIs DEF Apply
<1> QED
  BY <1>1, <1>2, JournalTyped DEF Apply, disk, history, Types, TypeOK, Holding

LEMMA RecordFillTyped == Types /\ RecordFill => Types'
<1> SUFFICES ASSUME Types, RecordFill PROVE Types'
  OBVIOUS
<1>1. \E r \in Entry : Append1(r)
  <2>1. submitted \in Nat /\ \A order \in 1 .. submitted : order \in Nat
    BY Limits DEF Types, TypeOK
  <2> QED
    BY <2>1, Appendable, EntryKinds DEF RecordFill
<1> QED
  BY <1>1, JournalTyped DEF RecordFill, memory, history, Types, TypeOK

LEMMA ForceMarkTyped == Types /\ ForceMark => Types'
<1> SUFFICES ASSUME Types, ForceMark PROVE Types'
  OBVIOUS
<1>1. \E r \in Entry : Append1(r)
  BY Appendable, EntryKinds DEF ForceMark
<1> QED
  BY <1>1, JournalTyped, SMTT(60) DEF ForceMark, history, Types, TypeOK

LEMMA HaltRunTyped == Types /\ HaltRun => Types'
<1> SUFFICES ASSUME Types, HaltRun PROVE Types'
  OBVIOUS
<1>1. \E r \in Entry : Append1(r)
  BY Appendable, EntryKinds DEF HaltRun
<1>2. halted' \in {"kill", "loss"}
  BY DEF HaltRun, Verdict
<1> QED
  BY <1>1, <1>2, JournalTyped DEF HaltRun, history, Types, TypeOK

LEMMA EvaluateTyped == Types /\ Evaluate => Types'
<1> SUFFICES ASSUME Types, Evaluate PROVE Types'
  OBVIOUS
<1>1. UNCHANGED entries
  BY DEF Evaluate, disk
<1>2. baseline' \in Int \cup {Unknown}
  <2>1. portfolio \in Holding /\ worth \in Int
    BY DEF Types, TypeOK, Holding
  <2> QED
    BY <2>1, EquityType DEF Evaluate, Types, TypeOK
<1> QED
  BY <1>1, <1>2, JournalTyped DEF Evaluate, disk, history, Types, TypeOK

LEMMA TickDoneTyped == Types /\ TickDone => Types'
<1> SUFFICES ASSUME Types, TickDone PROVE Types'
  OBVIOUS
<1>1. UNCHANGED entries \/ \E r \in Entry : Append1(r)
  BY Appendable, EntryKinds DEF TickDone
<1>2. lastMark' \in Nat \cup {Unknown}
  BY DEF TickDone, Types, TypeOK
<1> QED
  BY <1>1, <1>2, JournalTyped DEF TickDone, history, Types, TypeOK

LEMMA SettleRunTyped == Types /\ SettleRun => Types'
<1> SUFFICES ASSUME Types, SettleRun PROVE Types'
  OBVIOUS
<1>1. PICK payout \in Payouts \ {Unknown} : Append1(Settled(payout)) /\ portfolio' = Paid(portfolio, payout)
  BY DEF SettleRun
<1>2. payout \in Nat
  BY RecoveryAssumption
<1>3. \E r \in Entry : Append1(r)
  BY <1>1, <1>2, Appendable, EntryKinds
<1>4. portfolio' \in Holding
  <2>1. portfolio \in Holding
    BY DEF Types, TypeOK, Holding
  <2> QED
    BY <1>1, <1>2, <2>1, PaidIs
<1> QED
  BY <1>3, <1>4, JournalTyped, ZenonT(60) DEF SettleRun, Types, TypeOK, Holding

LEMMA LastMarkTyped == Types /\ LastMark => Types'
<1> SUFFICES ASSUME Types, LastMark PROVE Types'
  OBVIOUS
<1>1. \E r \in Entry : Append1(r)
  BY Appendable, EntryKinds DEF LastMark
<1> QED
  BY <1>1, JournalTyped, SMTT(60) DEF LastMark, history, Types, TypeOK

\* What a process leaves in memory when it ends.
LEMMA ExitTyped ==
  ASSUME Types, Exit
  PROVE  /\ phase' = "down" /\ batch' = "idle" /\ submitted' \in 0 .. MaxOrders
         /\ portfolio' \in Holding /\ next' \in 1 .. Len(Tape) + 1 /\ skipped' \in Nat
         /\ worth' \in Nat /\ events' \in Nat /\ now' \in Nat
         /\ lastMark' \in Nat \cup {Unknown} /\ resumeAfter' \in Nat \cup {Unknown}
         /\ baseline' \in Int \cup {Unknown} /\ halted' \in {"no", "kill"}
  BY FreshIsLeft, Limits DEF Exit

LEMMA EndRunTyped == Types /\ EndRun => Types'
<1> SUFFICES ASSUME Types, EndRun PROVE Types'
  OBVIOUS
<1>1. \E r \in Entry : Append1(r)
  BY Appendable, EntryKinds DEF EndRun
<1>2. over' \in BOOLEAN
  BY DEF EndRun, Types, TypeOK
<1> QED
  BY <1>1, <1>2, JournalTyped, ExitTyped DEF EndRun, Types, TypeOK, Holding

LEMMA CrashTyped == Types /\ Crash => Types'
<1> SUFFICES ASSUME Types, Crash PROVE Types'
  OBVIOUS
<1>1. crashes' \in 0 .. MaxCrashes
  <2>1. crashes \in 0 .. MaxCrashes
    BY DEF Types, TypeOK
  <2>2. crashes < MaxCrashes /\ crashes' = crashes + 1
    BY DEF Crash
  <2> QED
    BY <2>1, <2>2, Limits
<1> QED
  BY <1>1, JournalTyped, ExitTyped DEF Crash, Types, TypeOK, Holding

LEMMA KillTyped == Types /\ (RaiseKill \/ RemoveKill) => Types'
<1> SUFFICES ASSUME Types, RaiseKill \/ RemoveKill PROVE Types'
  OBVIOUS
<1>1. kills' \in 0 .. MaxKills
  <2>1. kills \in 0 .. MaxKills
    BY DEF Types, TypeOK
  <2>2. (kills < MaxKills /\ kills' = kills + 1) \/ kills' = kills
    BY DEF RaiseKill, RemoveKill, history
  <2> QED
    BY <2>1, <2>2, Limits
<1> QED
  BY <1>1, JournalTyped, ZenonT(60) DEF RaiseKill, RemoveKill, memory, history, Types, TypeOK

LEMMA TypesKept == Types /\ [Next]_vars => Types'
<1> SUFFICES ASSUME Types, [Next]_vars PROVE Types'
  OBVIOUS
<1>1. CASE UNCHANGED vars
  BY <1>1, JournalTyped DEF vars, disk, memory, history, Types, TypeOK
<1>2. CASE Loop
  BY <1>2, SkipTyped, HandleTyped, SubmitTyped, ApplyTyped, RecordFillTyped, ForceMarkTyped,
     HaltRunTyped, EvaluateTyped, TickDoneTyped, SettleRunTyped, LastMarkTyped, EndRunTyped
     DEF Loop, Submits
<1> QED
  BY <1>1, <1>2, BeginTyped, ResumeTyped, CrashTyped, KillTyped DEF Next

-----------------------------------------------------------------------------
(* What an entry appended means for fills and marks. *)

LEMMA ResumedStays ==
  ASSUME entries \in Seq(Entry), ResumedBeforeMark,
         UNCHANGED entries \/ \E r \in Entry : Append1(r)
  PROVE  ResumedBeforeMark'
<1>1. CASE UNCHANGED entries
  BY <1>1 DEF ResumedBeforeMark, OfKind
<1>2. ASSUME NEW r \in Entry, Append1(r)
      PROVE  ResumedBeforeMark'
  <2>1. PICK i \in OfKind("resume"), j \in OfKind("fill") :
          j < i /\ \A k \in OfKind("mark") : k < i => entries[k].base = Unknown
    BY DEF ResumedBeforeMark
  <2> DEFINE n == Len(entries)
  <2>2. /\ n \in Nat /\ i \in 1 .. n
        /\ i \in OfKind("resume")' /\ j \in OfKind("fill")'
    BY <1>2, <2>1, KindsGrown DEF Append1
  <2>3. ASSUME NEW k \in OfKind("mark")', k < i PROVE entries'[k].base = Unknown
    <3>1. OfKind("mark")' = OfKind("mark") \/ OfKind("mark")' = OfKind("mark") \cup {n + 1}
      BY <1>2, KindsGrown DEF Append1
    <3> HIDE DEF n
    <3>2. k \in OfKind("mark")
      BY <2>2, <2>3, <3>1
    <3>3. entries'[k] = entries[k]
      BY <1>2, <3>2, KindsGrown DEF Append1
    <3> QED
      BY <2>1, <2>3, <3>2, <3>3
  <2> QED
    BY <2>1, <2>2, <2>3 DEF ResumedBeforeMark
<1> QED
  BY <1>1, <1>2

\* Neither fills nor marks ...
LEMMA QuietJournal ==
  ASSUME entries \in Seq(Entry),
         \/ UNCHANGED entries
         \/ \E r \in Entry : r.kind \notin {"fill", "mark"} /\ Append1(r)
  PROVE  /\ OfKind("fill")' = OfKind("fill") /\ Marks' = Marks
         /\ \A i \in OfKind("fill") : entries'[i] = entries[i]
         /\ \A i \in Marks : entries'[i] = entries[i]
         /\ FeesRecorded' = FeesRecorded
         /\ Marks # {} => Checkpoint' = Checkpoint
         /\ ResumedBeforeMark => ResumedBeforeMark'
<1>1. /\ OfKind("fill")' = OfKind("fill") /\ Marks' = Marks
      /\ \A i \in OfKind("fill") : entries'[i] = entries[i]
      /\ \A i \in Marks : entries'[i] = entries[i]
  <2>1. CASE UNCHANGED entries
    BY <2>1 DEF OfKind, Marks
  <2>2. ASSUME NEW r \in Entry, r.kind \notin {"fill", "mark"}, Append1(r)
        PROVE  /\ OfKind("fill")' = OfKind("fill") /\ Marks' = Marks
               /\ \A i \in OfKind("fill") : entries'[i] = entries[i]
               /\ \A i \in Marks : entries'[i] = entries[i]
    BY <2>2, KindsGrown DEF Append1, Marks
  <2> QED
    BY <2>1, <2>2
<1>2. FeesRecorded' = FeesRecorded
  BY <1>1, FeesKept
<1>3. Marks # {} => Checkpoint' = Checkpoint
  BY <1>1, CheckpointIs DEF Checkpoint, Marks
<1>4. ResumedBeforeMark => ResumedBeforeMark'
  BY ResumedStays
<1> QED
  BY <1>1, <1>2, <1>3, <1>4

\* ... a fill ...
LEMMA FillJournal ==
  ASSUME entries \in Seq(Entry), NEW r \in FillRecord, Append1(r)
  PROVE  /\ Len(entries) \in Nat
         /\ OfKind("fill")' = OfKind("fill") \cup {Len(entries) + 1}
         /\ OfKind("fill") \subseteq 1 .. Len(entries)
         /\ Marks' = Marks /\ entries'[Len(entries) + 1] = r
         /\ \A i \in OfKind("fill") : entries'[i] = entries[i]
         /\ \A i \in Marks : entries'[i] = entries[i]
         /\ Marks # {} => Checkpoint' = Checkpoint
         /\ ResumedBeforeMark => ResumedBeforeMark'
<1>1. r \in Entry /\ r.kind = "fill"
  BY EntryKinds
<1>2. /\ Len(entries) \in Nat
      /\ OfKind("fill")' = OfKind("fill") \cup {Len(entries) + 1}
      /\ OfKind("fill") \subseteq 1 .. Len(entries)
      /\ Marks' = Marks /\ entries'[Len(entries) + 1] = r
      /\ \A i \in OfKind("fill") : entries'[i] = entries[i]
      /\ \A i \in Marks : entries'[i] = entries[i]
  BY <1>1, KindsGrown DEF Append1, Marks
<1>3. Marks # {} => Checkpoint' = Checkpoint
  BY <1>2, CheckpointIs DEF Checkpoint, Marks
<1>4. ResumedBeforeMark => ResumedBeforeMark'
  BY <1>1, ResumedStays
<1> QED
  BY <1>2, <1>3, <1>4

\* ... or a mark, which is the checkpoint then.
LEMMA MarkJournal ==
  ASSUME entries \in Seq(Entry), NEW r \in MarkRecord, Append1(r)
  PROVE  /\ Len(entries) \in Nat
         /\ Marks' = Marks \cup {Len(entries) + 1} /\ Marks \subseteq 1 .. Len(entries)
         /\ OfKind("fill")' = OfKind("fill")
         /\ \A i \in OfKind("fill") : entries'[i] = entries[i]
         /\ \A i \in Marks : entries'[i] = entries[i]
         /\ entries'[Len(entries) + 1] = r /\ Checkpoint' = r
         /\ FeesRecorded' = FeesRecorded
         /\ ResumedBeforeMark => ResumedBeforeMark'
<1>1. r \in Entry /\ r.kind = "mark"
  BY EntryKinds
<1>2. /\ Len(entries) \in Nat
      /\ Marks' = Marks \cup {Len(entries) + 1} /\ Marks \subseteq 1 .. Len(entries)
      /\ OfKind("fill")' = OfKind("fill")
      /\ \A i \in OfKind("fill") : entries'[i] = entries[i]
      /\ \A i \in Marks : entries'[i] = entries[i]
      /\ entries'[Len(entries) + 1] = r
  BY <1>1, KindsGrown DEF Append1, Marks
<1>3. FeesRecorded' = FeesRecorded
  BY <1>2, FeesKept
<1>4. Checkpoint' = r
  <2> DEFINE S == Marks'
  <2>0. PICK n \in Nat : n = Len(entries)
    BY <1>2
  <2> HIDE DEF S
  <2>1. S = Marks \cup {n + 1} /\ Marks \subseteq 1 .. n
    BY <1>2, <2>0 DEF S
  <2>2. n + 1 \in Nat /\ S \subseteq 1 .. n + 1 /\ S # {}
    BY <2>1
  <2>3. Max(S) \in S /\ \A k \in S : k <= Max(S)
    BY <2>2, Greatest
  <2>5. Max(S) = n + 1
    <3>1. n + 1 \in S
      BY <2>1
    <3>2. Max(S) \in 1 .. n + 1 /\ n + 1 <= Max(S)
      BY <2>2, <2>3, <3>1
    <3> HIDE DEF S
    <3> QED
      BY <3>2
  <2>4. Checkpoint' = entries'[Max(S)]
    BY DEF Checkpoint, Marks, S
  <2> QED
    BY <1>2, <2>0, <2>4, <2>5
<1>5. ResumedBeforeMark => ResumedBeforeMark'
  BY <1>1, ResumedStays
<1> QED
  BY <1>2, <1>3, <1>4, <1>5

-----------------------------------------------------------------------------
(* Phases, and the settlement. *)

LEMMA PhasedInit == Init => Phased /\ SettledLast
<1> SUFFICES ASSUME Init PROVE Phased /\ SettledLast
  OBVIOUS
<1>1. Phased
  BY DEF Init, Phased
<1>2. entries = << >> /\ \A i \in DOMAIN entries : FALSE
  BY DEF Init
<1>3. SettledLast
  BY <1>2 DEF SettledLast, OfKind
<1> QED
  BY <1>1, <1>3

LEMMA PhasedKept == Types /\ Phased /\ [Next]_vars => Phased'
<1> SUFFICES ASSUME Types, Phased, [Next]_vars PROVE Phased'
  OBVIOUS
<1>1. CASE Begin
  BY <1>1 DEF Begin, memory, Phased
<1>2. CASE Resume
  BY <1>2, Limits DEF Resume, Phased, Types, TypeOK
<1>3. CASE Skip
  BY <1>3 DEF Skip, disk, history, Phased
<1>4. CASE Handle
  BY <1>4 DEF Handle, disk, Phased
<1>5. ASSUME NEW lean, NEW finds, Submit(lean, finds) PROVE Phased'
  BY <1>5 DEF Submit, history, Phased
<1>6. CASE Apply
  BY <1>6 DEF Apply, disk, history, Phased
<1>7. CASE RecordFill
  BY <1>7 DEF RecordFill, memory, history, Phased
<1>8. CASE ForceMark
  BY <1>8 DEF ForceMark, history, Phased
<1>9. CASE HaltRun
  BY <1>9 DEF HaltRun, history, Phased
<1>10. CASE Evaluate
  <2>1. baseline' # Unknown
    <3>1. portfolio \in Holding /\ worth \in Int
      BY DEF Types, TypeOK, Holding
    <3> QED
      BY <1>10, <3>1, EquityType, Limits DEF Evaluate
  <2> QED
    BY <1>10, <2>1 DEF Evaluate, disk, history, Phased
<1>11. CASE TickDone
  BY <1>11 DEF TickDone, history, Phased
<1>12. CASE SettleRun
  BY <1>12 DEF SettleRun, AtEnd, Phased
<1>13. CASE LastMark
  BY <1>13 DEF LastMark, AtEnd, history, Phased
<1>14. CASE EndRun
  BY <1>14 DEF EndRun, Exit, Phased
<1>15. CASE Crash
  BY <1>15 DEF Crash, Exit, Phased
<1>16. CASE RaiseKill
  BY <1>16 DEF RaiseKill, memory, Phased
<1>17. CASE RemoveKill
  BY <1>17 DEF RemoveKill, memory, history, Phased
<1>18. CASE UNCHANGED vars
  BY <1>18 DEF vars, disk, memory, history, Phased
<1> QED
  BY <1>1, <1>2, <1>3, <1>4, <1>5, <1>6, <1>7, <1>8, <1>9, <1>10, <1>11, <1>12, <1>13, <1>14,
     <1>15, <1>16, <1>17, <1>18 DEF Next, Loop, Submits

\* After a settlement only marks and a run_end are appended.
LEMMA SettledStep ==
  ASSUME Types, SettledLast, NEW r \in Entry, Append1(r),
         \/ r.kind = "settle" /\ OfKind("settle") = {}
         \/ r.kind # "settle" /\ (OfKind("settle") # {} => r.kind \in {"mark", "run_end"}),
         OfKind("settle") # {} \/ r.kind = "settle" => phase' \in {"settled", "ending", "down"}
  PROVE  SettledLast'
<1> DEFINE n == Len(entries)
<1>1. /\ n \in Nat /\ DOMAIN entries = 1 .. n /\ DOMAIN entries' = 1 .. n + 1
      /\ \A i \in 1 .. n : entries'[i] = entries[i]
      /\ entries'[n + 1] = r
  BY Grown DEF Types, Append1
<1>2. /\ OfKind("settle") \subseteq 1 .. n
      /\ r.kind = "settle" => OfKind("settle")' = OfKind("settle") \cup {n + 1}
      /\ r.kind # "settle" => OfKind("settle")' = OfKind("settle")
  BY KindsGrown DEF Types, Append1
<1> HIDE DEF n
<1>3. OfKind("settle")' # {} => phase' \in {"settled", "ending", "down"}
  BY <1>2
<1>4. ASSUME NEW i \in OfKind("settle")', NEW j \in DOMAIN entries', j > i
      PROVE  entries'[j].kind \in {"mark", "run_end"}
  <2>1. CASE i \in OfKind("settle")
    BY <1>1, <1>2, <1>4, <2>1 DEF SettledLast
  <2>2. CASE i \notin OfKind("settle")
    BY <1>1, <1>2, <1>4, <2>2
  <2> QED
    BY <2>1, <2>2
<1> QED
  BY <1>3, <1>4 DEF SettledLast

LEMMA SettledUnchanged ==
  ASSUME SettledLast, UNCHANGED entries,
         phase \in {"settled", "ending", "down"} => phase' \in {"settled", "ending", "down"}
  PROVE  SettledLast'
  BY DEF SettledLast, OfKind

LEMMA SettledKept == Types /\ Phased /\ SettledLast /\ [Next]_vars => SettledLast'
<1> SUFFICES ASSUME Types, Phased, SettledLast, [Next]_vars PROVE SettledLast'
  OBVIOUS
<1> USE DEF SettledLast
<1>0. OfKind("settle") # {} => phase \in {"settled", "ending", "down"}
  OBVIOUS
<1>1. CASE Begin
  <2>1. OfKind("settle") = {}
    <3>1. \A i \in DOMAIN entries : FALSE
      BY <1>1 DEF Begin, Phased
    <3> QED
      BY <3>1 DEF OfKind
  <2> QED
    BY <1>1, <2>1, Appendable, SettledStep DEF Begin
<1>2. CASE Resume
  <2>1. run + 1 \in Nat /\ OfKind("settle") = {}
    BY <1>2, Limits DEF Resume, Resumable, Types, TypeOK
  <2> QED
    BY <1>2, <2>1, Appendable, SettledStep DEF Resume
<1>3. CASE Skip \/ Handle \/ Apply \/ Evaluate \/ Crash \/ RaiseKill \/ RemoveKill \/ UNCHANGED vars
  BY <1>3, SettledUnchanged
     DEF Skip, Handle, Apply, Evaluate, Crash, Exit, RaiseKill, RemoveKill, vars, disk
<1>5. ASSUME NEW lean \in Leans, NEW finds, Submit(lean, finds) PROVE SettledLast'
  <2>1. Submitted(lean) \in Entry /\ Submitted(lean).kind = "order_submitted"
    BY Appendable, EntryKinds, Limits
  <2> QED
    BY <1>0, <1>5, <2>1, SettledStep DEF Submit
<1>6. CASE RecordFill
  <2>1. submitted \in Nat /\ \A order \in 1 .. submitted : order \in Nat
    BY Limits DEF Types, TypeOK
  <2>2. PICK r \in FillRecord : Append1(r) /\ phase \in {"fills", "tick"} /\ phase' = phase
    BY <1>6, <2>1, Appendable DEF RecordFill
  <2> QED
    BY <1>0, <2>2, EntryKinds, SettledStep
<1>7. CASE ForceMark \/ HaltRun \/ LastMark
  BY <1>0, <1>7, Appendable, EntryKinds, SettledStep DEF ForceMark, HaltRun, LastMark, Phased
<1>8. CASE TickDone
  <2>1. CASE UNCHANGED entries
    BY <1>0, <1>8, <2>1, SettledUnchanged DEF TickDone
  <2>2. CASE Append1(MarkEntry(baseline))
    BY <1>0, <1>8, <2>2, Appendable, EntryKinds, SettledStep DEF TickDone
  <2> QED
    BY <1>8, <2>1, <2>2 DEF TickDone
<1>9. CASE SettleRun
  <2>1. PICK payout \in Payouts \ {Unknown} : Append1(Settled(payout))
    BY <1>9 DEF SettleRun
  <2>2. Settled(payout) \in Entry /\ Settled(payout).kind = "settle"
    BY RecoveryAssumption, Appendable, EntryKinds
  <2>3. OfKind("settle") = {} /\ phase' = "settled"
    BY <1>0, <1>9 DEF SettleRun, AtEnd
  <2> QED
    BY <2>1, <2>2, <2>3, SettledStep
<1>10. CASE EndRun
  BY <1>0, <1>10, Appendable, EntryKinds, SettledStep DEF EndRun, Exit
<1> QED
  BY <1>1, <1>2, <1>3, <1>5, <1>6, <1>7, <1>8, <1>9, <1>10 DEF Next, Loop, Submits

-----------------------------------------------------------------------------
(* Books. *)

Bought0 == Working => portfolio = Left(Cardinality(OfKind("fill")), FeesRecorded)
Bought1 == Working => portfolio = Left(Cardinality(OfKind("fill")) + 1, FeesRecorded + FeeNow)

\* What the books say while no fill is applied that is not on record, and what
\* they say while one is.
LEMMA BooksAre ==
  Types => /\ batch # "applied" => (Books <=> Bought0)
           /\ batch = "applied" => (Books <=> Bought1)
<1> SUFFICES ASSUME Types PROVE /\ batch # "applied" => (Books <=> Bought0)
                                /\ batch = "applied" => (Books <=> Bought1)
  OBVIOUS
<1> DEFINE c == Cardinality(OfKind("fill"))
           f == FeesRecorded
           x == FeeNow
<1>1. c \in Nat /\ f \in Nat /\ x \in Nat
  BY KindsFinite, FeesType, Limits DEF Types, FeeNow
<1>2. Books <=> (Working => portfolio = Left(c + (IF batch = "applied" THEN 1 ELSE 0),
                                             f + (IF batch = "applied" THEN 1 ELSE 0) * x))
  BY DEF Books
<1>3. /\ Bought0 <=> (Working => portfolio = Left(c, f))
      /\ Bought1 <=> (Working => portfolio = Left(c + 1, f + x))
  BY DEF Bought0, Bought1
<1> HIDE DEF c, f, x
<1>4. c + 0 = c /\ f + 0 * x = f /\ f + 1 * x = f + x
  BY <1>1
<1>5. batch # "applied" => (Books <=> Bought0)
  BY <1>2, <1>3, <1>4
<1>6. batch = "applied" => (Books <=> Bought1)
  BY <1>2, <1>3, <1>4
<1> QED
  BY <1>5, <1>6

LEMMA BooksAreNext ==
  Types' => /\ batch' # "applied" => (Books' <=> Bought0')
            /\ batch' = "applied" => (Books' <=> Bought1')
<1>1. (Types => /\ batch # "applied" => (Books <=> Bought0)
                /\ batch = "applied" => (Books <=> Bought1))'
  BY BooksAre, PTL
<1> QED
  BY <1>1

\* Steps that buy nothing.
LEMMA BooksSame ==
  ASSUME Types, Types', Books, batch # "applied", batch' # "applied", Working' => Working,
         portfolio' = portfolio, OfKind("fill")' = OfKind("fill"), FeesRecorded' = FeesRecorded
  PROVE  Books'
<1>1. Bought0
  BY BooksAre
<1>2. Bought0'
  BY <1>1 DEF Bought0
<1> QED
  BY <1>2, BooksAreNext

LEMMA BooksInit == Init => Books
  BY DEF Init, Books, Working

LEMMA BooksKept == Types /\ Types' /\ Phased /\ Books /\ [Next]_vars => Books'
<1> SUFFICES ASSUME Types, Types', Phased, Books, [Next]_vars PROVE Books'
  OBVIOUS
<1>0. entries \in Seq(Entry)
  BY DEF Types
<1>1. CASE Begin
  <2>1. /\ OfKind("fill")' = OfKind("fill") /\ FeesRecorded' = FeesRecorded
        /\ portfolio' = portfolio /\ batch' = "idle" /\ portfolio = Fresh
    BY <1>0, <1>1, Appendable, QuietJournal DEF Begin, memory, Phased
  <2>2. OfKind("fill") = {}
    <3>1. \A i \in DOMAIN entries : FALSE
      BY <1>1 DEF Begin, Phased
    <3> QED
      BY <3>1 DEF OfKind
  <2>3. Cardinality(OfKind("fill")') = 0 /\ FeesRecorded' = 0
    BY <2>1, <2>2, FS_EmptySet, SumOfNone DEF FeesRecorded
  <2>4. Bought0'
    BY <2>1, <2>3, FreshIsLeft DEF Bought0
  <2> QED
    BY <2>1, <2>4, BooksAreNext
<1>2. CASE Resume
  <2>1. run + 1 \in Nat
    BY Limits DEF Types, TypeOK
  <2>2. /\ OfKind("fill")' = OfKind("fill") /\ FeesRecorded' = FeesRecorded
        /\ portfolio' = Rebuilt /\ batch' = "idle"
    BY <1>0, <1>2, <2>1, Appendable, QuietJournal DEF Resume, Phased
  <2>3. Bought0'
    BY <1>0, <2>2, RebuiltIsLeft DEF Bought0
  <2> QED
    BY <2>2, <2>3, BooksAreNext
<1>3. CASE Skip \/ Handle \/ Evaluate
  <2>1. OfKind("fill")' = OfKind("fill") /\ FeesRecorded' = FeesRecorded
    BY <1>0, <1>3, QuietJournal DEF Skip, Handle, Evaluate, disk
  <2> QED
    BY <1>3, <2>1, BooksSame DEF Skip, Handle, Evaluate, Phased, Working
<1>4. ASSUME NEW lean \in Leans, NEW finds, Submit(lean, finds) PROVE Books'
  <2>1. Submitted(lean) \in Entry /\ Submitted(lean).kind = "order_submitted"
    BY Appendable, EntryKinds, Limits
  <2>2. OfKind("fill")' = OfKind("fill") /\ FeesRecorded' = FeesRecorded
    BY <1>0, <1>4, <2>1, QuietJournal DEF Submit
  <2> QED
    BY <1>4, <2>2, BooksSame DEF Submit, Working
<1>5. CASE Apply
  <2>1. batch # "applied" /\ batch' = "applied" /\ Working /\ FeeNow' = FeeNow
        /\ portfolio' = Bought(portfolio, FeeNow)
    BY <1>5 DEF Apply, Working, FeeNow
  <2>2. OfKind("fill")' = OfKind("fill") /\ FeesRecorded' = FeesRecorded
    BY <1>0, <1>5, QuietJournal DEF Apply, disk
  <2>3. portfolio = Left(Cardinality(OfKind("fill")), FeesRecorded)
    BY <2>1, BooksAre DEF Bought0
  <2>4. Cardinality(OfKind("fill")) \in Int /\ FeesRecorded \in Int /\ FeeNow \in Int
    BY <1>0, KindsFinite, FeesType, Limits DEF FeeNow
  <2>5. portfolio' = Left(Cardinality(OfKind("fill")) + 1, FeesRecorded + FeeNow)
    BY <2>1, <2>3, <2>4, BoughtLeft
  <2>6. Bought1'
    BY <2>1, <2>2, <2>5 DEF Bought1
  <2> QED
    BY <2>1, <2>6, BooksAreNext
<1>6. CASE RecordFill
  <2>1. submitted \in Nat /\ \A order \in 1 .. submitted : order \in Nat
    BY Limits DEF Types, TypeOK
  <2>2. PICK r \in FillRecord : Append1(r) /\ r.fee = FeeNow
    BY <1>6, <2>1, Appendable DEF RecordFill, FillEntry
  <2>3. /\ FeesRecorded' = FeesRecorded + FeeNow
        /\ Cardinality(OfKind("fill")') = Cardinality(OfKind("fill")) + 1
    BY <1>0, <2>2, FeesAdded DEF Append1
  <2>4. Bought1 /\ Working /\ batch' # "applied" /\ portfolio' = portfolio
    BY <1>6, BooksAre DEF RecordFill, memory, Working
  <2>5. Bought0'
    BY <2>3, <2>4 DEF Bought0, Bought1
  <2> QED
    BY <2>4, <2>5, BooksAreNext
<1>7. CASE ForceMark \/ HaltRun
  <2>1. OfKind("fill")' = OfKind("fill") /\ FeesRecorded' = FeesRecorded
    BY <1>0, <1>7, Appendable, MarkJournal DEF ForceMark, HaltRun
  <2> QED
    BY <1>7, <2>1, BooksSame DEF ForceMark, HaltRun, Phased, Working
<1>8. CASE TickDone
  <2>1. OfKind("fill")' = OfKind("fill") /\ FeesRecorded' = FeesRecorded
    BY <1>0, <1>8, Appendable, MarkJournal, QuietJournal DEF TickDone
  <2> QED
    BY <1>8, <2>1, BooksSame DEF TickDone, Working
<1>9. CASE SettleRun \/ LastMark \/ EndRun \/ Crash
  BY <1>9 DEF SettleRun, LastMark, EndRun, Crash, Exit, Books, Working
<1>10. CASE RaiseKill \/ RemoveKill \/ UNCHANGED vars
  BY <1>10 DEF RaiseKill, RemoveKill, vars, disk, memory, history, Books, Working, OfKind,
               FeesRecorded, FeesOf, FeeNow
<1> QED
  BY <1>1, <1>2, <1>3, <1>4, <1>5, <1>6, <1>7, <1>8, <1>9, <1>10 DEF Next, Loop, Submits
-----------------------------------------------------------------------------
(* Progress on the tape. *)

\* Marks say of the tape what they said, and a new one says what is so.
LEMMA MarksTrueKept ==
  ASSUME Types, MarksTrue, \A e \in Places : handled'[e] \in Nat /\ handled'[e] >= handled[e],
         \/ Marks' = Marks /\ \A i \in Marks : entries'[i] = entries[i]
         \/ /\ Append1(MarkEntry(baseline)) /\ phase # "down" /\ InPlace
            /\ events = 0 => Len(Tape) = 0
  PROVE  MarksTrue'
<1>0. entries \in Seq(Entry) /\ \A e \in Places : /\ handled[e] \in Nat /\ handled'[e] \in Nat
                                                 /\ handled'[e] >= handled[e]
  BY DEF Types, TypeOK
<1>1. ASSUME NEW i \in Marks, entries'[i] = entries[i]
      PROVE  LET m == entries'[i]
             IN  /\ m.events \in 0 .. Len(Tape)
                 /\ m.events = 0 => Len(Tape) = 0
                 /\ m.events > 0 => m.ts = Tape[m.events].ts
                 /\ \A e \in 1 .. m.events : handled'[e] > 0
  <2> DEFINE m == entries[i]
  <2>1. /\ m.events \in 0 .. Len(Tape)
        /\ m.events = 0 => Len(Tape) = 0
        /\ m.events > 0 => m.ts = Tape[m.events].ts
        /\ \A e \in 1 .. m.events : handled[e] > 0
    BY DEF MarksTrue
  <2> HIDE DEF m
  <2>2. \A e \in 1 .. m.events : handled'[e] > 0
    <3> TAKE e \in 1 .. m.events
    <3>1. e \in Places
      BY <2>1, Limits
    <3>2. handled[e] > 0
      BY <2>1
    <3>3. PICK a \in Nat : a = handled[e]
      BY <1>0, <3>1
    <3>4. handled'[e] >= a
      BY <1>0, <3>1, <3>3
    <3> QED
      BY <1>0, <3>1, <3>2, <3>3, <3>4
  <2> QED
    BY <1>1, <2>1, <2>2 DEF m
<1>2. CASE Marks' = Marks /\ \A i \in Marks : entries'[i] = entries[i]
  BY <1>1, <1>2 DEF MarksTrue
<1>3. CASE /\ Append1(MarkEntry(baseline)) /\ phase # "down" /\ InPlace
           /\ events = 0 => Len(Tape) = 0
  <2>1. PICK k \in Nat : k = Len(entries) + 1
    BY <1>0
  <2>2. /\ Marks' = Marks \cup {k} /\ entries'[k] = MarkEntry(baseline)
        /\ \A i \in Marks : entries'[i] = entries[i]
    BY <1>0, <1>3, <2>1, Appendable, MarkJournal
  <2>3. entries'[k].events = events /\ entries'[k].ts = now
    BY <2>2 DEF MarkEntry
  <2>4. /\ events \in 0 .. Len(Tape)
        /\ events > 0 => now = Tape[events].ts
        /\ \A e \in 1 .. events : handled[e] > 0
    BY <1>3 DEF InPlace
  <2>5. \A e \in 1 .. events : handled'[e] > 0
    <3> TAKE e \in 1 .. events
    <3>1. e \in Places /\ handled[e] > 0
      BY <2>4, Limits
    <3>2. PICK a \in Nat : a = handled[e]
      BY <1>0, <3>1
    <3> QED
      BY <1>0, <3>1, <3>2
  <2>6. ASSUME NEW i \in Marks'
        PROVE  LET m == entries'[i]
               IN  /\ m.events \in 0 .. Len(Tape)
                   /\ m.events = 0 => Len(Tape) = 0
                   /\ m.events > 0 => m.ts = Tape[m.events].ts
                   /\ \A e \in 1 .. m.events : handled'[e] > 0
    <3>1. CASE i \in Marks
      BY <1>1, <2>2, <3>1
    <3>2. CASE i = k
      BY <1>3, <2>3, <2>4, <2>5, <3>2
    <3> QED
      BY <2>2, <3>1, <3>2
  <2> QED
    BY <2>6 DEF MarksTrue
<1> QED
  BY <1>2, <1>3

\* A process that comes to the end has handled the tape, or earlier ones have.
LEMMA AllHandled ==
  ASSUME Types, Phased, InPlace, AtEnd
  PROVE  /\ halted = "no" => events = Len(Tape)
         /\ events = 0 => Len(Tape) = 0
         /\ phase # "down"
<1>1. phase \in {"next", "closing"}
  BY DEF AtEnd
<1>2. CASE phase = "closing"
  BY <1>2 DEF InPlace, Phased
<1>3. CASE phase = "next"
  <2>1. next > Len(Tape) /\ next - 1 <= events /\ events \in 0 .. Len(Tape)
    BY <1>3 DEF InPlace, AtEnd
  <2>2. next \in Nat /\ events \in Nat /\ Len(Tape) \in Nat
    BY Limits DEF Types, TypeOK
  <2> QED
    BY <1>3, <2>1, <2>2
<1> QED
  BY <1>1, <1>2, <1>3

\* Steps that leave the place on the tape.
LEMMA PlaceKept ==
  ASSUME InPlace, phase # "down", UNCHANGED <<events, next, now, resumeAfter, handled>>,
         ~ next - 1 < events \/ phase' = phase,
         phase' \in {"fills", "tick", "closing"} => phase \in {"fills", "tick", "closing"},
         phase' \in {"settled", "ending"} =>
           (halted' = "no" => events = Len(Tape)) /\ (events = 0 => Len(Tape) = 0)
  PROVE  InPlace'
  BY DEF InPlace

\* What is handled is the event after those that count as handled.
LEMMA NextIsNew == TimeForEach /\ Types /\ InPlace /\ Handle => next = events + 1
<1> SUFFICES ASSUME TimeForEach, Types, InPlace, Handle PROVE next = events + 1
  OBVIOUS
<1>0. /\ next \in Nat /\ events \in Nat /\ now \in Nat /\ Len(Tape) \in Nat
      /\ resumeAfter \in Nat \cup {Unknown} /\ \A e \in Places : Tape[e].ts \in Nat
  <2>1. /\ next \in Nat /\ events \in Nat /\ now \in Nat /\ resumeAfter \in Nat \cup {Unknown}
    BY Limits DEF Types, TypeOK
  <2>2. \A e \in Places : Tape[e].ts \in Nat
    BY Limits DEF Event
  <2> QED
    BY <2>1, <2>2, Limits
<1>1. /\ phase = "next" /\ next \in Places /\ ~Done(Tape[next])
      /\ events \in 0 .. Len(Tape) /\ next - 1 <= events
      /\ events > 0 => now = Tape[events].ts
  BY DEF Handle, InPlace
<1>2. ~ next - 1 < events
  <2> SUFFICES ASSUME next - 1 < events PROVE FALSE
    OBVIOUS
  <2>1. resumeAfter = now
    BY <1>1 DEF InPlace
  <2>2. events \in Places /\ next \in Places /\ next <= events
    BY <1>0, <1>1, Limits
  <2>3. Tape[next].ts <= Tape[events].ts
    <3>1. CASE next = events
      BY <1>0, <2>2, <3>1
    <3>2. CASE next < events
      <4>1. Tape[next].ts < Tape[events].ts
        BY <2>2, <3>2 DEF TimeForEach
      <4> QED
        BY <1>0, <2>2, <4>1
    <3> QED
      BY <1>0, <2>2, <3>1, <3>2
  <2>4. resumeAfter # Unknown /\ Tape[next].ts <= resumeAfter
    BY <1>0, <1>1, <2>1, <2>2, <2>3, Limits
  <2> QED
    BY <1>1, <2>4 DEF Done
<1> QED
  BY <1>0, <1>1, <1>2

LEMMA InPlaceKept == TimeForEach /\ Types /\ Phased /\ MarksTrue /\ InPlace /\ [Next]_vars => InPlace'
<1> SUFFICES ASSUME TimeForEach, Types, Phased, MarksTrue, InPlace, [Next]_vars PROVE InPlace'
  OBVIOUS
<1>0. /\ next \in Nat /\ events \in Nat /\ Len(Tape) \in Nat /\ now \in Nat
      /\ resumeAfter \in Nat \cup {Unknown} /\ \A e \in Places : handled[e] \in Nat
      /\ \A e \in Places : Tape[e].ts \in Nat
  <2>1. /\ next \in Nat /\ events \in Nat /\ now \in Nat /\ resumeAfter \in Nat \cup {Unknown}
        /\ \A e \in Places : handled[e] \in Nat
    BY Limits DEF Types, TypeOK
  <2>2. \A e \in Places : Tape[e].ts \in Nat
    BY Limits DEF Event
  <2> QED
    BY <2>1, <2>2, Limits
<1>00. phase \in {"fills", "tick", "closing", "settled", "ending"} => ~ next - 1 < events
  BY DEF InPlace
<1>1. CASE Begin
  <2>1. /\ phase' = "next" /\ events' = 0 /\ next' = 1 /\ now' = 0 /\ resumeAfter' = Unknown
    BY <1>1 DEF Begin, memory, Phased
  <2> QED
    BY <1>0, <2>1 DEF InPlace
<1>2. CASE Resume
  <2>1. next' = 1 /\ phase' = "next" /\ handled' = handled
    BY <1>2 DEF Resume, Phased
  <2>2. CASE Marks = {}
    <3>1. events' = 0 /\ now' = 0 /\ resumeAfter' = Unknown
      BY <1>2, <2>2 DEF Resume, Marks
    <3> QED
      BY <1>0, <2>1, <3>1 DEF InPlace
  <2>3. CASE Marks # {}
    <3>1. /\ Max(Marks) \in Marks /\ Checkpoint = entries[Max(Marks)] /\ Checkpoint \in MarkRecord
      BY <2>3, CheckpointIs DEF Types
    <3>2. PICK m \in MarkRecord : m = Checkpoint
      BY <3>1
    <3>3. /\ m.events \in 0 .. Len(Tape)
          /\ m.events = 0 => Len(Tape) = 0
          /\ m.events > 0 => m.ts = Tape[m.events].ts
          /\ \A e \in 1 .. m.events : handled[e] > 0
      BY <3>1, <3>2 DEF MarksTrue
    <3>4. events' = m.events /\ now' = m.ts /\ resumeAfter' = m.ts
      BY <1>2, <2>3, <3>2 DEF Resume, Marks
    <3>5. m.ts \in Nat
      BY DEF MarkRecord
    <3> QED
      BY <1>0, <2>1, <3>3, <3>4, <3>5 DEF InPlace
  <2> QED
    BY <2>2, <2>3
<1>3. CASE Skip
  <2>1. /\ phase = "next" /\ next \in Places /\ resumeAfter # Unknown /\ Tape[next].ts <= resumeAfter
        /\ next' = next + 1 /\ UNCHANGED <<phase, events, now, resumeAfter, handled, halted>>
    BY <1>3 DEF Skip, Done, history
  <2>2. /\ events \in 0 .. Len(Tape) /\ next - 1 <= events
        /\ events > 0 => now = Tape[events].ts
        /\ resumeAfter <= now /\ (events = 0 => Len(Tape) = 0)
    BY <2>1 DEF InPlace
  <2>3. next - 1 # events
    <3> SUFFICES ASSUME next - 1 = events PROVE FALSE
      OBVIOUS
    <3>1. events \in Places /\ next \in Places /\ events < next
      BY <1>0, <2>1, <2>2, Limits
    <3>2. Tape[events].ts < Tape[next].ts
      BY <3>1 DEF TimeForEach
    <3>3. PICK a \in Nat, b \in Nat : a = Tape[events].ts /\ b = Tape[next].ts
      BY <1>0, <3>1
    <3> QED
      BY <1>0, <2>1, <2>2, <3>1, <3>2, <3>3, Limits
  <2>4. next' - 1 <= events
    BY <1>0, <2>1, <2>2, <2>3
  <2>5. next' - 1 < events => resumeAfter = now
    <3>1. next - 1 < events
      BY <1>0, <2>2, <2>3
    <3> QED
      BY <2>1, <3>1 DEF InPlace
  <2> QED
    BY <2>1, <2>4, <2>5 DEF InPlace
<1>4. CASE Handle
  <2>1. /\ phase = "next" /\ next \in Places /\ ~Done(Tape[next])
        /\ now' = IF Tape[next].kind = "trade" /\ events > 0 /\ now > Tape[next].ts
                  THEN now ELSE Tape[next].ts
        /\ next' = next + 1 /\ events' = events + 1
        /\ handled' = [handled EXCEPT ![next] = @ + 1]
        /\ phase' = "fills" /\ UNCHANGED resumeAfter
    BY <1>4 DEF Handle
  <2>2. /\ events \in 0 .. Len(Tape) /\ next - 1 <= events
        /\ events > 0 => now = Tape[events].ts
        /\ resumeAfter # Unknown => resumeAfter <= now /\ (events = 0 => Len(Tape) = 0)
        /\ \A e \in 1 .. events : handled[e] > 0
    BY <2>1 DEF InPlace
  <2>4. next = events + 1 /\ events + 1 \in Places
    BY <1>4, <2>1, NextIsNew
  <2>5. events > 0 => now < Tape[next].ts
    <3> SUFFICES ASSUME events > 0 PROVE now < Tape[next].ts
      OBVIOUS
    <3>1. events \in Places /\ events < next
      BY <1>0, <2>2, <2>4, Limits
    <3> QED
      BY <2>1, <2>2, <3>1 DEF TimeForEach
  <2>6. PICK t \in Nat : t = Tape[next].ts
    BY <1>0, <2>1
  <2>7. now' = Tape[events'].ts /\ now' = t
    BY <1>0, <2>1, <2>4, <2>5, <2>6
  <2>8. resumeAfter # Unknown => resumeAfter <= now'
    <3>1. CASE events > 0
      BY <1>0, <2>2, <2>5, <2>6, <2>7, <3>1
    <3>2. CASE events = 0
      BY <1>0, <2>2, <2>4, <3>2, Limits
    <3> QED
      BY <1>0, <3>1, <3>2
  <2>9. \A e \in 1 .. events' : handled'[e] > 0
    <3> TAKE e \in 1 .. events'
    <3>1. e \in Places
      BY <1>0, <2>1, <2>4, Limits
    <3>2. handled \in [Places -> Nat]
      BY DEF Types, TypeOK
    <3>3. CASE e = next
      BY <1>0, <2>1, <3>1, <3>2, <3>3
    <3>4. CASE e # next
      <4>1. e \in 1 .. events
        BY <1>0, <2>1, <2>4, <3>4
      <4> QED
        BY <2>1, <2>2, <3>1, <3>2, <3>4, <4>1
    <3> QED
      BY <3>3, <3>4
  <2>10. events' \in 0 .. Len(Tape) /\ next' - 1 = events' /\ events' > 0
    BY <1>0, <2>1, <2>4, Limits
  <2> QED
    BY <1>0, <2>1, <2>7, <2>8, <2>9, <2>10 DEF InPlace
<1>5. ASSUME NEW lean, NEW finds, Submit(lean, finds) PROVE InPlace'
  BY <1>5, PlaceKept DEF Submit, history, InPlace
<1>6. CASE Apply
  BY <1>6, PlaceKept DEF Apply, history, InPlace
<1>7. CASE RecordFill
  BY <1>7, PlaceKept DEF RecordFill, memory, history, InPlace
<1>8. CASE ForceMark
  <2>1. phase \in {"fills", "tick"}
    BY <1>8 DEF ForceMark, Phased
  <2> QED
    BY <1>8, <2>1, PlaceKept DEF ForceMark, history
<1>9. CASE HaltRun \/ Evaluate \/ TickDone
  BY <1>00, <1>9, PlaceKept DEF HaltRun, Evaluate, TickDone, history
<1>10. CASE SettleRun
  <2>1. phase # "down" /\ (halted = "no" => events = Len(Tape)) /\ (events = 0 => Len(Tape) = 0)
    BY <1>10, AllHandled DEF SettleRun
  <2>2. ~ next - 1 < events
    <3>1. events <= Len(Tape) /\ (phase = "closing" \/ next > Len(Tape))
      BY <1>10, <2>1 DEF SettleRun, AtEnd, InPlace
    <3> QED
      BY <1>0, <1>00, <3>1
  <2> QED
    BY <1>10, <2>1, <2>2, PlaceKept DEF SettleRun
<1>11. CASE LastMark
  <2>1. CASE phase = "settled"
    BY <1>00, <1>11, <2>1, PlaceKept DEF LastMark, history, InPlace
  <2>2. CASE AtEnd
    <3>1. phase # "down" /\ (halted = "no" => events = Len(Tape)) /\ (events = 0 => Len(Tape) = 0)
      BY <2>2, AllHandled
    <3>2. ~ next - 1 < events
      <4>1. events <= Len(Tape) /\ (phase = "closing" \/ next > Len(Tape))
        BY <2>2, <3>1 DEF AtEnd, InPlace
      <4> QED
        BY <1>0, <1>00, <4>1
    <3> QED
      BY <1>11, <3>1, <3>2, PlaceKept DEF LastMark, history
  <2> QED
    BY <1>11, <2>1, <2>2 DEF LastMark
<1>12. CASE EndRun \/ Crash
  BY <1>12 DEF EndRun, Crash, Exit, InPlace
<1>13. CASE RaiseKill \/ RemoveKill \/ UNCHANGED vars
  BY <1>13 DEF RaiseKill, RemoveKill, vars, memory, history, InPlace
<1> QED
  BY <1>1, <1>2, <1>3, <1>4, <1>5, <1>6, <1>7, <1>8, <1>9, <1>10, <1>11, <1>12, <1>13
     DEF Next, Loop, Submits

\* What a step writes to the journal.
LEMMA Writes ==
  ASSUME Types, Phased, InPlace, [Next]_vars
  PROVE  \/ UNCHANGED entries
         \/ \E r \in Entry : r.kind \notin {"fill", "mark"} /\ Append1(r)
         \/ RecordFill /\ \E r \in FillRecord :
              /\ r.event = next - 1 /\ r.run = run /\ Append1(r)
              /\ phase \in {"fills", "tick"} /\ baseline # Unknown
         \/ /\ Append1(MarkEntry(baseline)) /\ phase # "down"
            /\ events = 0 => Len(Tape) = 0
<1>1. CASE Begin \/ Resume \/ EndRun
  <2>0. run \in 0 .. MaxRuns
    BY DEF Types, TypeOK
  <2>1. run + 1 \in Nat
    BY <2>0, Limits
  <2> QED
    BY <1>1, <2>1, Appendable, EntryKinds DEF Begin, Resume, EndRun
<1>2. CASE Skip \/ Handle \/ Apply \/ Evaluate \/ Crash \/ RaiseKill \/ RemoveKill \/ UNCHANGED vars
  BY <1>2 DEF Skip, Handle, Apply, Evaluate, Crash, RaiseKill, RemoveKill, vars, disk
<1>3. ASSUME NEW lean \in Leans, NEW finds, Submit(lean, finds)
      PROVE  \E r \in Entry : r.kind \notin {"fill", "mark"} /\ Append1(r)
  <2>1. Submitted(lean) \in Entry /\ Submitted(lean).kind = "order_submitted"
    BY Appendable, EntryKinds, Limits
  <2> QED
    BY <1>3, <2>1 DEF Submit
<1>4. CASE RecordFill
  <2>1. submitted \in Nat /\ \A order \in 1 .. submitted : order \in Nat
    BY Limits DEF Types, TypeOK
  <2>2. PICK order \in Nat, l \in {"maker", "taker"} :
          Append1(FillEntry(order, l, FeeNow)) /\ (phase = "tick" \/ order \in 1 .. submitted)
    BY <1>4, <2>1 DEF RecordFill
  <2>3. PICK r \in FillRecord : r = FillEntry(order, l, FeeNow)
    BY Appendable
  <2>4. r.event = next - 1 /\ r.run = run
    BY <2>3 DEF FillEntry
  <2>5. phase \in {"fills", "tick"}
    BY <1>4 DEF RecordFill
  <2>6. baseline # Unknown
    <3>1. phase = "tick" \/ submitted > 0
      BY <2>1, <2>2
    <3> QED
      BY <3>1 DEF Phased
  <2> QED
    BY <1>4, <2>2, <2>3, <2>4, <2>5, <2>6
<1>5. CASE ForceMark \/ HaltRun \/ TickDone
  <2>1. phase \in {"fills", "tick"}
    BY <1>5 DEF ForceMark, HaltRun, TickDone, Phased
  <2>2. events > 0
    BY <2>1 DEF InPlace
  <2> QED
    BY <1>5, <2>1, <2>2 DEF ForceMark, HaltRun, TickDone
<1>6. CASE SettleRun
  <2>1. PICK payout \in Payouts \ {Unknown} : Append1(Settled(payout))
    BY <1>6 DEF SettleRun
  <2>2. Settled(payout) \in Entry /\ Settled(payout).kind = "settle"
    BY RecoveryAssumption, Appendable, EntryKinds
  <2> QED
    BY <2>1, <2>2
<1>7. CASE LastMark
  <2>1. phase # "down" /\ (events = 0 => Len(Tape) = 0)
    <3>1. CASE phase = "settled"
      BY <3>1 DEF InPlace
    <3>2. CASE AtEnd
      BY <3>2, AllHandled
    <3> QED
      BY <1>7, <3>1, <3>2 DEF LastMark
  <2> QED
    BY <1>7, <2>1 DEF LastMark
<1> QED
  BY <1>1, <1>2, <1>3, <1>4, <1>5, <1>6, <1>7 DEF Next, Loop, Submits

LEMMA MarksKept ==
  Types /\ Types' /\ Phased /\ MarksTrue /\ InPlace /\ [Next]_vars => MarksTrue'
<1> SUFFICES ASSUME Types, Types', Phased, MarksTrue, InPlace, [Next]_vars PROVE MarksTrue'
  OBVIOUS
<1>0. entries \in Seq(Entry)
  BY DEF Types
<1>1. \A e \in Places : handled'[e] \in Nat /\ handled'[e] >= handled[e]
  <2>1. handled \in [Places -> Nat] /\ handled' \in [Places -> Nat]
    BY DEF Types, TypeOK
  <2>2. handled' = handled \/ \E i : handled' = [handled EXCEPT ![i] = @ + 1]
    BY DEF Next, Loop, Begin, Resume, Skip, Handle, Submits, Submit, Apply, RecordFill, ForceMark,
           HaltRun, Evaluate, TickDone, SettleRun, LastMark, EndRun, Crash, RaiseKill,
           RemoveKill, history, vars
  <2> QED
    BY <2>1, <2>2
<1>2. CASE Marks' = Marks /\ \A i \in Marks : entries'[i] = entries[i]
  BY <1>1, <1>2, MarksTrueKept
<1>3. CASE Append1(MarkEntry(baseline)) /\ phase # "down" /\ (events = 0 => Len(Tape) = 0)
  BY <1>1, <1>3, MarksTrueKept
<1> QED
  BY <1>0, <1>2, <1>3, Writes, QuietJournal, FillJournal

LEMMA WholeKept ==
  Types /\ Types' /\ Phased /\ InPlace /\ Whole /\ [Next]_vars => Whole'
<1> SUFFICES ASSUME Types, Types', Phased, InPlace, Whole, [Next]_vars PROVE Whole'
  OBVIOUS
<1>1. handled \in [Places -> Nat] /\ handled' \in [Places -> Nat]
  BY DEF Types, TypeOK
<1>2. CASE Begin \/ Resume \/ Skip \/ Submits \/ Apply \/ RecordFill \/ ForceMark \/ HaltRun \/ Evaluate
           \/ TickDone \/ LastMark \/ Crash \/ RaiseKill \/ RemoveKill \/ UNCHANGED vars
  BY <1>2 DEF Begin, Resume, Skip, Submits, Submit, Apply, RecordFill, ForceMark, HaltRun,
              Evaluate, TickDone, LastMark, Crash, RaiseKill, RemoveKill, history, vars, Whole
<1>3. CASE Handle
  BY <1>1, <1>3 DEF Handle, Whole
<1>4. CASE SettleRun
  <2>1. /\ halted = "no" => events = Len(Tape)
        /\ phase # "down" /\ handled' = handled /\ over' = (over \/ halted = "no")
    BY <1>4, AllHandled DEF SettleRun
  <2> QED
    BY <2>1, Limits DEF InPlace, Whole
<1>5. CASE EndRun
  <2>1. phase = "ending" /\ handled' = handled /\ over' = (over \/ halted = "no")
    BY <1>5 DEF EndRun
  <2>2. halted = "no" => events = Len(Tape)
    BY <2>1 DEF InPlace
  <2> QED
    BY <2>1, <2>2, Limits DEF InPlace, Whole
<1> QED
  BY <1>2, <1>3, <1>4, <1>5 DEF Next, Loop

-----------------------------------------------------------------------------
(* The start equity. *)

\* What is held when nothing was filled is worth the capital.
LEMMA StartIsCapital ==
  ASSUME entries \in Seq(Entry), OfKind("fill") = {}, NEW m \in Int
  PROVE  Equity(Left(Cardinality(OfKind("fill")), FeesRecorded), m) = Capital
<1>1. Cardinality(OfKind("fill")) = 0 /\ FeesRecorded = 0
  BY FS_EmptySet, SumOfNone DEF FeesRecorded
<1>2. Left(0, 0).held = 0 /\ Left(0, 0).cash = Capital
  BY Limits DEF Left
<1>3. 0 * m = 0 /\ Capital + 0 = Capital
  BY Limits
<1> QED
  BY <1>1, <1>2, <1>3 DEF Equity

\* A resume without a mark that knows the start equity.
LEMMA ResumedAnew ==
  ASSUME Types, BasesTrue, Resume, Marks = {} \/ Checkpoint.base = Unknown
  PROVE  baseline' = Capital \/ (OfKind("fill") # {} /\ ResumedBeforeMark')
<1>0. entries \in Seq(Entry) /\ run + 1 \in Nat /\ Resumed(run + 1) \in Entry
      /\ Resumed(run + 1).kind = "resume"
  BY Appendable, Limits DEF Types, TypeOK
<1>1. CASE OfKind("fill") = {}
  <2>1. portfolio' = Left(Cardinality(OfKind("fill")), FeesRecorded)
    BY <1>0, RebuiltIsLeft DEF Resume
  <2>2. baseline' = Equity(portfolio', worth')
    BY DEF Resume, Restored, Marks
  <2>3. worth' \in Int
    BY ResumeTyped DEF Types, TypeOK
  <2> QED
    BY <1>0, <1>1, <2>1, <2>2, <2>3, StartIsCapital
<1>2. CASE OfKind("fill") # {}
  <2>1. \A k \in Marks : entries[k].base = Unknown
    <3> TAKE k \in Marks
    <3>1. Max(Marks) \in Marks /\ k <= Max(Marks) /\ Checkpoint = entries[Max(Marks)]
      BY <1>0, CheckpointIs
    <3>2. k \in Nat /\ Max(Marks) \in Nat
      BY <1>0, <3>1 DEF Marks, OfKind
    <3>3. k = Max(Marks) \/ k < Max(Marks)
      BY <3>1, <3>2
    <3> QED
      BY <3>1, <3>3 DEF BasesTrue
  <2>2. PICK i \in Nat : i = Len(entries) + 1
    BY <1>0
  <2>3. PICK j : j \in OfKind("fill")
    BY <1>2
  <2>4. Append1(Resumed(run + 1))
    BY DEF Resume
  <2>5. /\ i \in OfKind("resume")' /\ Marks' = Marks
        /\ \A k \in Marks : entries'[k] = entries[k]
        /\ OfKind("fill")' = OfKind("fill") /\ OfKind("fill") \subseteq 1 .. Len(entries)
    BY <1>0, <2>2, <2>4, KindsGrown DEF Append1, Marks
  <2>6. j \in OfKind("fill")' /\ j < i
    BY <1>0, <2>2, <2>3, <2>5
  <2>7. \A k \in OfKind("mark")' : k < i => entries'[k].base = Unknown
    BY <2>1, <2>5 DEF Marks
  <2> QED
    BY <1>2, <2>5, <2>6, <2>7 DEF ResumedBeforeMark
<1> QED
  BY <1>1, <1>2

LEMMA BasesInit == Init => MarksTrue /\ InPlace /\ BasesTrue /\ Whole
<1> SUFFICES ASSUME Init PROVE MarksTrue /\ InPlace /\ BasesTrue /\ Whole
  OBVIOUS
<1>1. Marks = {}
  <2>1. \A i \in DOMAIN entries : FALSE
    BY DEF Init
  <2> QED
    BY <2>1 DEF Marks, OfKind
<1>2. phase = "down" /\ baseline = Unknown /\ ~over
  BY DEF Init
<1> QED
  BY <1>1, <1>2 DEF MarksTrue, InPlace, BasesTrue, Whole

\* What a resume takes for the start equity is known.
LEMMA ResumeKnows == Types /\ Resume => baseline' # Unknown
<1> SUFFICES ASSUME Types, Resume PROVE baseline' # Unknown
  OBVIOUS
<1>1. portfolio' \in Holding /\ worth' \in Int
  BY ResumeTyped DEF Types, TypeOK, Holding
<1>2. Equity(portfolio', worth') \in Int
  BY <1>1, EquityType
<1> QED
  BY <1>2, Limits DEF Resume, Restored

\* The start equity as a process comes to know it.
LEMMA BaselineKept ==
  ASSUME Types, Types', Phased, Books, BasesTrue, [Next]_vars
  PROVE  \/ UNCHANGED baseline
         \/ baseline' \in {Unknown, Capital} /\ (phase' = "down" \/ baseline' # Unknown)
         \/ Resume
<1>0. entries \in Seq(Entry)
  BY DEF Types
<1>1. CASE Evaluate
  <2>1. CASE baseline = Unknown
    <3>1. OfKind("fill") = {} /\ batch # "applied" /\ Working
      BY <1>1, <2>1 DEF Evaluate, BasesTrue, Working
    <3>2. portfolio = Left(Cardinality(OfKind("fill")), FeesRecorded)
      BY <3>1, BooksAre DEF Bought0
    <3>3. baseline' = Capital
      <4>1. worth \in Int
        BY DEF Types, TypeOK
      <4> QED
        BY <1>0, <1>1, <2>1, <3>1, <3>2, <4>1, StartIsCapital DEF Evaluate
    <3> QED
      BY <3>3, Limits
  <2> QED
    BY <1>1, <2>1 DEF Evaluate
<1>2. CASE EndRun \/ Crash
  BY <1>2 DEF EndRun, Crash, Exit
<1>3. CASE Begin \/ Skip \/ Handle \/ Submits \/ Apply \/ RecordFill \/ ForceMark \/ HaltRun
           \/ TickDone \/ SettleRun \/ LastMark \/ RaiseKill \/ RemoveKill \/ UNCHANGED vars
  BY <1>3 DEF Begin, Skip, Handle, Submits, Submit, Apply, RecordFill, ForceMark, HaltRun,
              TickDone, SettleRun, LastMark, RaiseKill, RemoveKill, memory, vars
<1> QED
  BY <1>1, <1>2, <1>3 DEF Next, Loop

LEMMA BasesKept ==
  Types /\ Types' /\ Phased /\ Phased' /\ Books /\ InPlace /\ BasesTrue /\ [Next]_vars => BasesTrue'
<1> SUFFICES ASSUME Types, Types', Phased, Phased', Books, InPlace, BasesTrue, [Next]_vars
             PROVE  BasesTrue'
  OBVIOUS
<1>0. entries \in Seq(Entry)
  BY DEF Types
<1>1. ResumedBeforeMark => ResumedBeforeMark'
  BY <1>0, Writes, QuietJournal, FillJournal, MarkJournal, Appendable
<1>2. baseline' \in {Unknown, Capital} \/ ResumedBeforeMark'
  <2>1. CASE Resume
    <3>1. CASE Marks = {} \/ Checkpoint.base = Unknown
      BY <2>1, <3>1, ResumedAnew
    <3>2. CASE Marks # {} /\ Checkpoint.base # Unknown
      <4>1. baseline' = Checkpoint.base
        BY <2>1, <3>2 DEF Resume, Restored, Marks
      <4> QED
        BY <1>0, <1>1, <3>2, <4>1, CheckpointIs DEF BasesTrue
    <3> QED
      BY <3>1, <3>2
  <2> QED
    BY <1>1, <2>1, BaselineKept DEF BasesTrue
<1>3. phase' # "down" /\ baseline' = Unknown => (phase # "down" /\ baseline = Unknown) \/ Begin
  <2>1. phase = "down" /\ phase' # "down" => Begin \/ Resume
    BY DEF Next, Loop, Skip, Handle, Submits, Submit, Apply, RecordFill, ForceMark, HaltRun, Evaluate,
           TickDone, SettleRun, LastMark, EndRun, Exit, Crash, RaiseKill, RemoveKill, vars,
           AtEnd, Phased
  <2> QED
    BY <2>1, BaselineKept, ResumeKnows
<1>4. Begin => OfKind("fill") = {} /\ Marks = {}
  <2> SUFFICES ASSUME Begin PROVE OfKind("fill") = {} /\ Marks = {}
    OBVIOUS
  <2>1. \A i \in DOMAIN entries : FALSE
    BY DEF Begin, Phased
  <2> QED
    BY <2>1 DEF Marks, OfKind
<1>5. CASE \/ UNCHANGED entries
           \/ \E r \in Entry : r.kind \notin {"fill", "mark"} /\ Append1(r)
  <2>1. /\ OfKind("fill")' = OfKind("fill") /\ Marks' = Marks
        /\ \A i \in Marks : entries'[i] = entries[i]
    BY <1>0, <1>5, QuietJournal
  <2> QED
    BY <1>1, <1>2, <1>3, <1>4, <2>1 DEF BasesTrue
<1>6. ASSUME NEW r \in FillRecord, RecordFill, Append1(r), phase \in {"fills", "tick"},
             baseline # Unknown
      PROVE  BasesTrue'
  <2>1. /\ Marks' = Marks /\ \A i \in Marks : entries'[i] = entries[i]
    BY <1>0, <1>6, FillJournal
  <2>2. baseline' # Unknown
    BY <1>6 DEF RecordFill, memory
  <2> QED
    BY <1>1, <1>2, <2>1, <2>2 DEF BasesTrue
<1>7. CASE Append1(MarkEntry(baseline)) /\ phase # "down"
  <2>1. PICK k \in Nat : k = Len(entries) + 1
    BY <1>0
  <2>2. /\ Marks' = Marks \cup {k} /\ entries'[k] = MarkEntry(baseline)
        /\ \A i \in Marks : entries'[i] = entries[i]
        /\ OfKind("fill")' = OfKind("fill") /\ \A i \in Marks : i \in Nat /\ i < k
    <3>1. /\ Marks' = Marks \cup {k} /\ entries'[k] = MarkEntry(baseline)
          /\ \A i \in Marks : entries'[i] = entries[i]
          /\ OfKind("fill")' = OfKind("fill") /\ Marks \subseteq 1 .. Len(entries)
          /\ Len(entries) \in Nat
      BY <1>0, <1>7, <2>1, Appendable, MarkJournal
    <3>2. \A i \in 1 .. Len(entries) : i \in Nat /\ i < k
      BY <2>1, <3>1
    <3> QED
      BY <3>1, <3>2
  <2>3. entries'[k].base = baseline
    BY <2>2 DEF MarkEntry
  <2>4. \A i \in Marks' : entries'[i].base \in {Unknown, Capital} \/ ResumedBeforeMark'
    BY <1>1, <2>2, <2>3 DEF BasesTrue
  <2>5. ASSUME NEW i \in Marks', NEW j \in Marks', i < j, entries'[i].base # Unknown
        PROVE  entries'[j].base # Unknown
    <3>1. i \in Marks
      BY <2>2, <2>5
    <3>2. CASE j \in Marks
      BY <2>2, <2>5, <3>1, <3>2 DEF BasesTrue
    <3>3. CASE j = k
      BY <1>7, <2>2, <2>3, <2>5, <3>1, <3>3 DEF BasesTrue
    <3> QED
      BY <2>2, <3>2, <3>3
  <2>6. phase' # "down" /\ baseline' = Unknown =>
          OfKind("fill")' = {} /\ \A i \in Marks' : entries'[i].base = Unknown
    <3> SUFFICES ASSUME phase' # "down", baseline' = Unknown
                 PROVE  OfKind("fill")' = {} /\ \A i \in Marks' : entries'[i].base = Unknown
      OBVIOUS
    <3>1. baseline = Unknown
      BY <1>3, <1>7 DEF Begin
    <3> QED
      BY <1>7, <2>2, <2>3, <3>1 DEF BasesTrue
  <2> QED
    BY <1>2, <2>4, <2>5, <2>6 DEF BasesTrue
<1> QED
  BY <1>5, <1>6, <1>7, Writes

-----------------------------------------------------------------------------
(* Runs that were halted and did not crash. *)

\* Where the parts of the argument meet: what holds before a step.
Sound ==
  /\ TimeForEach /\ Types /\ Types' /\ Phased /\ Books /\ MarksTrue /\ InPlace /\ BasesTrue
  /\ crashes = 0 /\ crashes' = 0 /\ Once /\ FromCapital /\ Ahead /\ Covered /\ FillsOfOneProcess

LEMMA OnceKept == Sound /\ [Next]_vars => Once'
<1> SUFFICES ASSUME Sound, [Next]_vars PROVE Once'
  OBVIOUS
<1> USE DEF Sound
<1>1. CASE Handle
  <2>1. next \in Places /\ next = events + 1 /\ phase # "down" /\ handled' = [handled EXCEPT ![next] = @ + 1]
    BY <1>1, NextIsNew DEF Handle
  <2>2. events \in Nat /\ handled \in [Places -> Nat]
    BY DEF Types, TypeOK
  <2>3. handled[next] = 0
    BY <2>1, <2>2 DEF Ahead
  <2> QED
    BY <2>1, <2>2, <2>3 DEF Once
<1>2. CASE UNCHANGED handled
  BY <1>2 DEF Once
<1>3. [Next]_vars => Handle \/ UNCHANGED handled
  BY DEF Next, Loop, Begin, Resume, Skip, Submits, Submit, Apply, RecordFill, ForceMark,
         HaltRun, Evaluate, TickDone, SettleRun, LastMark, EndRun, Crash, RaiseKill,
         RemoveKill, history, vars
<1> QED
  BY <1>1, <1>2, <1>3

LEMMA FromCapitalKept == Sound /\ [Next]_vars => FromCapital'
<1> SUFFICES ASSUME Sound, [Next]_vars PROVE FromCapital'
  OBVIOUS
<1> USE DEF Sound
<1>0. entries \in Seq(Entry)
  BY DEF Types
<1>1. baseline' \in {Unknown, Capital}
  <2>1. CASE Resume
    <3>1. phase = "down" /\ run > 0 /\ run \in Nat
      BY <2>1, Limits DEF Resume, Types, TypeOK
    <3>2. Marks # {} /\ (Checkpoint.base = Unknown => OfKind("fill") = {})
      BY <3>1 DEF Covered
    <3>3. CASE Checkpoint.base = Unknown
      BY <2>1, <3>2, <3>3, ResumedAnew
    <3>4. CASE Checkpoint.base # Unknown
      <4>1. baseline' = Checkpoint.base
        BY <2>1, <3>2, <3>4 DEF Resume, Restored, Marks
      <4> QED
        BY <1>0, <3>2, <4>1, CheckpointIs DEF FromCapital
    <3> QED
      BY <3>3, <3>4
  <2> QED
    BY <2>1, BaselineKept DEF FromCapital
<1>2. \A i \in Marks' : entries'[i].base \in {Unknown, Capital}
  <2>1. CASE Marks' = Marks /\ \A i \in Marks : entries'[i] = entries[i]
    BY <2>1 DEF FromCapital
  <2>2. CASE Append1(MarkEntry(baseline))
    <3>1. PICK k : /\ Marks' = Marks \cup {k} /\ entries'[k] = MarkEntry(baseline)
                   /\ \A i \in Marks : entries'[i] = entries[i]
      BY <1>0, <2>2, Appendable, MarkJournal
    <3>2. entries'[k].base = baseline
      BY <3>1 DEF MarkEntry
    <3> QED
      BY <3>1, <3>2 DEF FromCapital
  <2> QED
    BY <1>0, <2>1, <2>2, Writes, QuietJournal, FillJournal
<1> QED
  BY <1>1, <1>2 DEF FromCapital

\* Fills are recorded for the event that was handled last.
LEMMA FillsAreNew ==
  ASSUME Types, InPlace, phase \in {"fills", "tick", "closing"}
  PROVE  next - 1 = events
<1>1. next \in Nat /\ events \in Nat
  BY Limits DEF Types, TypeOK
<1>2. next - 1 <= events /\ ~ next - 1 < events
  BY DEF InPlace
<1> QED
  BY <1>1, <1>2

LEMMA FillTypes ==
  ASSUME Types
  PROVE  \A i \in OfKind("fill") : entries[i].event \in Nat /\ entries[i].run \in Nat
  BY Records DEF Types, FillRecord

\* Steps of a process that leave its place on the tape, and fill nothing.
LEMMA AheadSame ==
  ASSUME Sound, phase # "down", UNCHANGED <<events, handled, run>>,
         OfKind("fill")' = OfKind("fill"), \A i \in OfKind("fill") : entries'[i] = entries[i],
         phase' \in {"fills", "tick"} => phase \in {"fills", "tick"}
  PROVE  Ahead'
  BY DEF Sound, Ahead

LEMMA AheadKept == Sound /\ Phased' /\ [Next]_vars => Ahead'
<1> SUFFICES ASSUME Sound, Phased', [Next]_vars PROVE Ahead'
  OBVIOUS
<1>a. /\ TimeForEach /\ Types /\ Phased /\ MarksTrue /\ InPlace /\ Ahead /\ Covered
      /\ crashes = 0 /\ crashes' = 0 /\ entries \in Seq(Entry) /\ run \in Nat /\ events \in Nat
      /\ next \in Nat
  <2>1. run \in 0 .. MaxRuns /\ next \in 1 .. Len(Tape) + 1 /\ events \in Nat
    BY DEF Sound, Types, TypeOK
  <2>2. run \in Nat /\ next \in Nat
    BY <2>1, Limits
  <2> QED
    BY <2>1, <2>2 DEF Sound, Types
<1>1. CASE Begin
  <2>1. \A i \in DOMAIN entries : FALSE
    BY <1>1, <1>a DEF Begin, Phased
  <2>2. OfKind("fill")' = OfKind("fill") /\ OfKind("fill") = {}
    BY <1>1, <1>a, <2>1, Appendable, QuietJournal DEF Begin, OfKind
  <2>3. handled' = handled /\ \A i \in Places : handled[i] = 0
    BY <1>1, <1>a DEF Begin, Phased
  <2> QED
    BY <2>2, <2>3 DEF Ahead
<1>2. CASE Resume
  <2>1. Resumed(run + 1) \in Entry /\ Resumed(run + 1).kind = "resume"
    BY <1>a, Appendable
  <2>2. /\ OfKind("fill")' = OfKind("fill") /\ \A i \in OfKind("fill") : entries'[i] = entries[i]
    BY <1>2, <1>a, <2>1, QuietJournal DEF Resume
  <2>3. /\ Marks # {} /\ \A i \in Places : i > Checkpoint.events => handled[i] = 0
        /\ \A i \in OfKind("fill") : entries[i].event <= Checkpoint.events
    BY <1>2, <1>a DEF Resume, Covered
  <2>4. events' = Checkpoint.events /\ handled' = handled /\ phase' = "next"
    BY <1>2, <2>3 DEF Resume, Marks
  <2> QED
    BY <2>2, <2>3, <2>4 DEF Ahead
<1>3. CASE Handle
  <2>1. /\ next = events + 1 /\ events' = events + 1 /\ phase = "next"
        /\ handled' = [handled EXCEPT ![next] = @ + 1]
    BY <1>3, <1>a, NextIsNew DEF Handle
  <2>2. OfKind("fill")' = OfKind("fill") /\ \A i \in OfKind("fill") : entries'[i] = entries[i]
    BY <1>3, <1>a, QuietJournal DEF Handle, disk
  <2>3. \A i \in Places : i > events' => handled'[i] = 0
    <3>1. \A i \in Places : i > events => handled[i] = 0
      BY <1>a, <2>1 DEF Ahead
    <3>2. handled \in [Places -> Nat]
      BY <1>a DEF Types, TypeOK
    <3>3. \A i \in Places : i \in Nat
      BY DEF Places
    <3>4. \A i \in Places : i > events' => i > events /\ i # next
      BY <1>a, <2>1, <3>3
    <3> QED
      BY <2>1, <3>1, <3>2, <3>4
  <2>4. \A i \in OfKind("fill") : entries[i].event <= events /\ entries[i].event < events'
    <3>1. \A i \in OfKind("fill") : entries[i].event <= events /\ entries[i].event \in Nat
      BY <1>a, <2>1, FillTypes DEF Ahead
    <3> QED
      BY <1>a, <2>1, <3>1
  <2>5. \A i \in OfKind("fill") : entries[i].event <= events'
    <3>1. \A i \in OfKind("fill") : entries[i].event \in Nat
      BY <1>a, FillTypes
    <3> QED
      BY <1>a, <2>1, <2>4, <3>1
  <2> QED
    BY <2>2, <2>3, <2>4, <2>5 DEF Ahead
<1>4. CASE RecordFill
  <2>1. PICK r \in FillRecord :
          /\ r.event = next - 1 /\ r.run = run /\ Append1(r) /\ phase \in {"fills", "tick"}
    <3>1. submitted \in Nat /\ \A order \in 1 .. submitted : order \in Nat
      BY <1>a, Limits DEF Types, TypeOK
    <3>2. PICK order \in Nat, l \in {"maker", "taker"} : Append1(FillEntry(order, l, FeeNow))
      BY <1>4, <3>1 DEF RecordFill
    <3>3. PICK r \in FillRecord : r = FillEntry(order, l, FeeNow)
      BY <1>a, Appendable
    <3>4. r.event = next - 1 /\ r.run = run
      BY <3>3 DEF FillEntry
    <3> QED
      BY <1>4, <3>2, <3>3, <3>4 DEF RecordFill
  <2>2. next - 1 = events /\ UNCHANGED <<events, handled, run, phase>>
    BY <1>4, <1>a, <2>1, FillsAreNew DEF RecordFill, memory, history
  <2>3. PICK k : /\ OfKind("fill")' = OfKind("fill") \cup {k} /\ entries'[k] = r
                 /\ \A i \in OfKind("fill") : entries'[i] = entries[i]
    BY <1>a, <2>1, FillJournal
  <2>4. r.event <= events /\ r.run = run
    BY <1>a, <2>1, <2>2
  <2> QED
    BY <1>a, <2>1, <2>2, <2>3, <2>4 DEF Ahead
<1>5. CASE \/ Skip \/ Submits \/ Apply \/ ForceMark \/ HaltRun \/ Evaluate \/ TickDone \/ SettleRun
           \/ LastMark
  <2>1. ~ RecordFill /\ phase # "down"
    BY <1>5, <1>a, AllHandled
       DEF Skip, Submits, Submit, Apply, RecordFill, ForceMark, HaltRun, Evaluate, TickDone, SettleRun,
           LastMark, Phased
  <2>2. OfKind("fill")' = OfKind("fill") /\ \A i \in OfKind("fill") : entries'[i] = entries[i]
    BY <1>a, <2>1, Writes, QuietJournal, MarkJournal, Appendable
  <2>3. /\ UNCHANGED <<events, handled, run>>
        /\ phase' \in {"fills", "tick"} => phase \in {"fills", "tick"}
    BY <1>5 DEF Skip, Submits, Submit, Apply, ForceMark, HaltRun, Evaluate, TickDone, SettleRun,
                LastMark, history
  <2> QED
    BY <2>1, <2>2, <2>3, AheadSame
<1>6. CASE EndRun \/ Crash
  BY <1>6 DEF EndRun, Crash, Exit, Ahead
<1>7. CASE RaiseKill \/ RemoveKill \/ UNCHANGED vars
  BY <1>7, <1>a DEF RaiseKill, RemoveKill, vars, disk, memory, history, Ahead, OfKind
<1> QED
  BY <1>1, <1>2, <1>3, <1>4, <1>5, <1>6, <1>7 DEF Next, Loop

LEMMA CoveredKept == Sound /\ Phased' /\ [Next]_vars => Covered'
<1> SUFFICES ASSUME Sound, Phased', [Next]_vars PROVE Covered'
  OBVIOUS
<1>a. /\ Types /\ Phased /\ InPlace /\ BasesTrue /\ Ahead /\ Covered
      /\ crashes = 0 /\ crashes' = 0 /\ entries \in Seq(Entry) /\ run \in Nat
  BY Limits DEF Sound, Types, TypeOK
<1>1. CASE LastMark
  <2>1. phase # "down" /\ Append1(MarkEntry(baseline)) /\ phase' = "ending"
        /\ UNCHANGED <<events, handled, baseline>>
    BY <1>1, <1>a, AllHandled DEF LastMark, history
  <2>2. /\ Marks' # {} /\ Checkpoint' = MarkEntry(baseline)
        /\ OfKind("fill")' = OfKind("fill")
        /\ \A i \in OfKind("fill") : entries'[i] = entries[i]
    BY <1>a, <2>1, Appendable, MarkJournal
  <2>3. Checkpoint'.events = events /\ Checkpoint'.base = baseline
    BY <2>2 DEF MarkEntry
  <2>4. baseline = Unknown => OfKind("fill") = {}
    BY <1>a, <2>1 DEF BasesTrue
  <2>5. /\ \A i \in Places : i > events => handled[i] = 0
        /\ \A i \in OfKind("fill") : entries[i].event <= events
    BY <1>a, <2>1 DEF Ahead
  <2> QED
    BY <2>1, <2>2, <2>3, <2>4, <2>5 DEF Covered
<1>2. CASE EndRun
  <2>1. phase = "ending" /\ handled' = handled
    BY <1>2 DEF EndRun
  <2>2. Ended \in Entry /\ Ended.kind = "run_end" /\ Append1(Ended)
    BY <1>2, <1>a, Appendable, EntryKinds DEF EndRun
  <2>3. Marks # {}
    BY <1>a, <2>1 DEF Covered
  <2>4. /\ OfKind("fill")' = OfKind("fill") /\ Marks' = Marks /\ Checkpoint' = Checkpoint
        /\ \A i \in OfKind("fill") : entries'[i] = entries[i]
    BY <1>a, <2>2, <2>3, QuietJournal
  <2>5. phase' = "down"
    BY <1>2 DEF EndRun, Exit
  <2> QED
    BY <1>a, <2>1, <2>3, <2>4, <2>5 DEF Covered
<1>3. CASE RaiseKill \/ RemoveKill \/ UNCHANGED vars
  BY <1>3, <1>a
     DEF RaiseKill, RemoveKill, vars, disk, memory, history, Covered, Marks, OfKind, Checkpoint
<1>4. CASE Crash
  BY <1>4, <1>a DEF Crash
<1>5. CASE \/ Begin \/ Resume \/ Skip \/ Handle \/ Submits \/ Apply \/ RecordFill \/ ForceMark
           \/ HaltRun \/ Evaluate \/ TickDone \/ SettleRun
  <2>1. phase' \notin {"ending", "down"}
    BY <1>5, <1>a DEF Begin, Resume, Skip, Handle, Submits, Submit, Apply, RecordFill,
       ForceMark, HaltRun, Evaluate, TickDone, SettleRun, Phased
  <2> QED
    BY <2>1 DEF Covered
<1> QED
  BY <1>1, <1>2, <1>3, <1>4, <1>5 DEF Next, Loop

LEMMA OneProcessKept == Sound /\ [Next]_vars => FillsOfOneProcess'
<1> SUFFICES ASSUME Sound, [Next]_vars PROVE FillsOfOneProcess'
  OBVIOUS
<1>a. /\ Types /\ Phased /\ InPlace /\ Ahead /\ FillsOfOneProcess /\ entries \in Seq(Entry)
  BY DEF Sound, Types
<1>1. CASE /\ OfKind("fill")' = OfKind("fill")
           /\ \A i \in OfKind("fill") : entries'[i] = entries[i]
  BY <1>1, <1>a DEF FillsOfOneProcess
<1>2. ASSUME NEW r \in FillRecord, r.event = next - 1, r.run = run, Append1(r),
             phase \in {"fills", "tick"}
      PROVE  FillsOfOneProcess'
  <2>1. PICK k : /\ OfKind("fill")' = OfKind("fill") \cup {k} /\ entries'[k] = r
                 /\ \A i \in OfKind("fill") : entries'[i] = entries[i]
    BY <1>2, <1>a, FillJournal
  <2>2. r.event = events /\ events \in Nat
    BY <1>2, <1>a, FillsAreNew DEF Types, TypeOK
  <2>3. \A i \in OfKind("fill") : entries[i].event = r.event => entries[i].run = r.run
    <3> SUFFICES ASSUME NEW i \in OfKind("fill"), entries[i].event = r.event, entries[i].run # run
                 PROVE  FALSE
      BY <1>2
    <3>1. entries[i].event < events
      BY <1>2, <1>a DEF Ahead
    <3> QED
      BY <2>2, <3>1
  <2> QED
    BY <1>a, <2>1, <2>3 DEF FillsOfOneProcess
<1> QED
  BY <1>1, <1>2, <1>a, Writes, QuietJournal, MarkJournal, Appendable

LEMMA HarmlessKept == RInv /\ Types' /\ Phased' /\ [Next]_vars => Harmless'
<1> SUFFICES ASSUME RInv, Types', Phased', [Next]_vars, crashes' = 0
             PROVE  (Once /\ FromCapital /\ Ahead /\ Covered /\ FillsOfOneProcess)'
  BY DEF Harmless
<1>1. crashes = 0
  <2>1. crashes \in Nat
    BY Limits DEF RInv, Types, TypeOK
  <2>2. crashes' = crashes \/ crashes' = crashes + 1
    BY DEF Next, Loop, Begin, Resume, Skip, Handle, Submits, Submit, Apply, RecordFill, ForceMark,
           HaltRun, Evaluate, TickDone, SettleRun, LastMark, EndRun, Crash, RaiseKill,
           RemoveKill, history, vars
  <2> QED
    BY <2>1, <2>2
<1>2. Sound
  BY <1>1 DEF Sound, RInv, Harmless
<1> QED
  BY <1>2, OnceKept, FromCapitalKept, AheadKept, CoveredKept, OneProcessKept

\* An event that is handled lies ahead, and what lies ahead was handled by processes that crashed.
LEMMA AgainKept ==
  TimeForEach /\ Types /\ Types' /\ Phased /\ InPlace /\ Again /\ [Next]_vars => Again'
<1> SUFFICES ASSUME TimeForEach, Types, Types', Phased, InPlace, Again, [Next]_vars PROVE Again'
  OBVIOUS
<1>a. /\ entries \in Seq(Entry) /\ run \in Nat /\ events \in Nat /\ crashes \in Nat
      /\ handled \in [Places -> Nat] /\ \A i \in Places : i \in Nat /\ handled[i] \in Nat
  <2>1. run \in 0 .. MaxRuns /\ crashes \in 0 .. MaxCrashes /\ events \in Nat /\ handled \in [Places -> Nat]
    BY DEF Types, TypeOK
  <2> QED
    BY <2>1, Limits, SMTT(60) DEF Types
<1>b. /\ \A i \in Places : handled[i] <= 1 + crashes
      /\ phase # "down" => \A i \in Places : i > events => handled[i] <= crashes
      /\ phase = "ending" => Marks # {} /\ Checkpoint.events = events
      /\ phase = "down" /\ run > 0 =>
           \A i \in Places : Marks = {} \/ i > Checkpoint.events => handled[i] <= crashes
  BY DEF Again
<1>1. CASE Begin
  <2>1. handled' = handled /\ crashes' = crashes /\ phase' = "next" /\ \A i \in Places : handled[i] = 0
    BY <1>1 DEF Begin, Phased
  <2> QED
    BY <1>a, <2>1 DEF Again
<1>2. CASE Resume
  <2>1. /\ phase = "down" /\ run > 0 /\ phase' = "next" /\ handled' = handled /\ crashes' = crashes
    BY <1>2 DEF Resume
  <2>2. Marks = {} => events' = 0
    BY <1>2 DEF Resume, Marks
  <2>3. Marks # {} => events' = Checkpoint.events
    BY <1>2 DEF Resume, Marks
  <2> QED
    BY <1>b, <2>1, <2>2, <2>3 DEF Again
<1>3. CASE Handle
  <2>1. /\ next = events + 1 /\ events' = events + 1 /\ phase = "next" /\ phase' = "fills"
        /\ next \in Places /\ handled' = [handled EXCEPT ![next] = @ + 1] /\ crashes' = crashes
    BY <1>3, NextIsNew DEF Handle
  <2>2. handled[next] <= crashes
    BY <1>a, <1>b, <2>1
  <2>3. handled'[next] <= 1 + crashes
    BY <1>a, <2>1, <2>2
  <2>4. \A i \in Places : i # next => handled'[i] = handled[i]
    BY <1>a, <2>1
  <2>5. \A i \in Places : i > events' => i > events /\ i # next
    BY <1>a, <2>1
  <2> QED
    BY <1>b, <2>1, <2>3, <2>4, <2>5 DEF Again
<1>4. CASE LastMark
  <2>1. phase # "down" /\ Append1(MarkEntry(baseline)) /\ phase' = "ending"
        /\ UNCHANGED <<events, handled, crashes>>
    BY <1>4, AllHandled DEF LastMark, history
  <2>2. Marks' # {} /\ Checkpoint' = MarkEntry(baseline)
    BY <1>a, <2>1, Appendable, MarkJournal
  <2>3. Checkpoint'.events = events
    BY <2>2 DEF MarkEntry
  <2> QED
    BY <1>b, <2>1, <2>2, <2>3 DEF Again
<1>5. CASE EndRun
  <2>1. phase = "ending" /\ handled' = handled /\ crashes' = crashes /\ phase' = "down"
    BY <1>5 DEF EndRun, Exit
  <2>2. Ended \in Entry /\ Ended.kind = "run_end" /\ Append1(Ended)
    BY <1>5, Appendable, EntryKinds DEF EndRun
  <2>3. Marks' = Marks /\ Checkpoint' = Checkpoint /\ Marks # {} /\ Checkpoint.events = events
    BY <1>a, <1>b, <2>1, <2>2, QuietJournal
  <2> QED
    BY <1>b, <2>1, <2>3 DEF Again
<1>6. CASE Crash
  <2>1. handled' = handled /\ crashes' = crashes + 1 /\ phase' = "down"
    BY <1>6 DEF Crash, Exit
  <2>2. \A i \in Places : handled'[i] <= crashes' /\ handled'[i] <= 1 + crashes'
    BY <1>a, <1>b, <2>1
  <2> QED
    BY <2>1, <2>2 DEF Again
<1>7. CASE \/ Skip \/ Submits \/ Apply \/ RecordFill \/ ForceMark \/ HaltRun \/ Evaluate \/ TickDone
           \/ SettleRun
  <2>1. phase # "down" /\ phase' \notin {"ending", "down"} /\ UNCHANGED <<events, handled, crashes>>
    BY <1>7, AllHandled DEF Skip, Submits, Submit, Apply, RecordFill, ForceMark, HaltRun, Evaluate,
       TickDone, SettleRun, Phased, memory, history
  <2> QED
    BY <1>b, <2>1 DEF Again
<1>8. CASE RaiseKill \/ RemoveKill \/ UNCHANGED vars
  BY <1>8, <1>b DEF RaiseKill, RemoveKill, vars, disk, memory, history, Again, Marks, OfKind, Checkpoint
<1> QED
  BY <1>1, <1>2, <1>3, <1>4, <1>5, <1>6, <1>7, <1>8 DEF Next, Loop

-----------------------------------------------------------------------------
(* The theorems about resumed runs. *)

LEMMA RInvInit == TimeForEach /\ Init => RInv
<1> SUFFICES ASSUME TimeForEach, Init PROVE RInv
  OBVIOUS
<1>1. \A i \in DOMAIN entries : FALSE
  BY DEF Init
<1>2. OfKind("fill") = {} /\ Marks = {}
  BY <1>1 DEF OfKind, Marks
<1>3. Harmless
  <2>1. phase = "down" /\ run = 0 /\ baseline = Unknown /\ \A i \in Places : handled[i] = 0
    BY DEF Init
  <2> QED
    BY <1>2, <2>1 DEF Harmless, Once, FromCapital, Ahead, Covered, FillsOfOneProcess
<1>4. Again
  BY DEF Init, Again
<1> QED
  BY <1>3, <1>4, TypesInit, PhasedInit, BooksInit, BasesInit DEF RInv

LEMMA RInvNext == RInv /\ [Next]_vars => RInv'
<1> SUFFICES ASSUME RInv, [Next]_vars PROVE RInv'
  OBVIOUS
<1>1. Types'
  BY TypesKept DEF RInv
<1>2. Phased' /\ SettledLast'
  BY PhasedKept, SettledKept DEF RInv
<1>3. Books' /\ MarksTrue' /\ InPlace' /\ BasesTrue' /\ Whole'
  BY <1>1, <1>2, BooksKept, MarksKept, InPlaceKept, BasesKept, WholeKept DEF RInv
<1>4. Harmless'
  BY <1>1, <1>2, HarmlessKept
<1>5. TimeForEach'
  BY DEF RInv, TimeForEach, Places
<1>6. Again'
  BY <1>1, AgainKept DEF RInv
<1> QED
  BY <1>1, <1>2, <1>3, <1>4, <1>5, <1>6 DEF RInv

\* What is proved of every state, on a tape with a time for each event.
THEOREM RecoveryInv == TimeForEach => (Spec => []RInv)
<1>1. TimeForEach /\ Spec => []RInv
  BY RInvInit, RInvNext, PTL DEF Spec
<1> QED
  BY <1>1

(***************************************************************************)
(* Whatever crashes and resumes came before, a process has the shares, the *)
(* fees and the cash that the journal's fills leave, counts the events of  *)
(* the tape as they are, and measures losses from the capital, or was      *)
(* resumed from fills before a mark knew the start equity.                 *)
(***************************************************************************)
THEOREM ResumesExactly == TimeForEach => (Spec => []ResumedExactly)
<1>1. RInv => ResumedExactly
  <2> SUFFICES ASSUME RInv PROVE ResumedExactly
    OBVIOUS
  <2>1. Working =>
          LET pending == IF batch = "applied" THEN 1 ELSE 0
              shares  == Cardinality(OfKind("fill")) + pending
              fees    == FeesRecorded + pending * FeeNow
          IN  portfolio = [held |-> shares, cash |-> Capital - shares - fees, cost |-> shares + fees,
                           fees |-> fees, realized |-> 0]
    BY DEF RInv, Books, Left
  <2>2. phase \in {"fills", "tick", "closing"} => events = next - 1
    BY FillsAreNew DEF RInv
  <2> QED
    BY <2>1, <2>2 DEF RInv, Types, BasesTrue, ResumedExactly
<1> QED
  BY <1>1, RecoveryInv, PTL

(***************************************************************************)
(* Once a process came to the end of the tape no event was left out by all *)
(* of them; each crash lets an event be handled once more, and nothing     *)
(* else does; and nothing is traded after a settlement.                    *)
(***************************************************************************)
THEOREM WholeOnce == TimeForEach => (Spec => []WholeAndOnce)
<1>1. RInv => WholeAndOnce
  BY DEF RInv, Whole, Again, SettledLast, WholeAndOnce
<1> QED
  BY <1>1, RecoveryInv, PTL

(***************************************************************************)
(* Runs that were halted and resumed, and did not crash, handled every     *)
(* event once, filled each event in one process, and kept the capital for  *)
(* their start equity.                                                     *)
(***************************************************************************)
THEOREM HaltsHarmNothing == TimeForEach => (Spec => []HaltsAreHarmless)
<1>1. RInv => HaltsAreHarmless
  <2> SUFFICES ASSUME RInv, crashes = 0 PROVE HandledOnce /\ FillsOfOneProcess /\ StartEquityKept
    BY DEF HaltsAreHarmless
  <2>1. handled \in [Places -> Nat] /\ Once /\ Whole /\ FillsOfOneProcess /\ FromCapital
    BY DEF RInv, Harmless, Types, TypeOK
  <2>2. HandledOnce
    BY <2>1 DEF HandledOnce, Once, Whole
  <2> QED
    BY <2>1, <2>2 DEF FromCapital, StartEquityKept
<1> QED
  BY <1>1, RecoveryInv, PTL

(***************************************************************************)
(* On tapes of any kind, the portfolio of a process is what the fills on   *)
(* record leave, and a settlement ends the trading.                        *)
(***************************************************************************)
Accounts == Types /\ Phased /\ SettledLast /\ Books

LEMMA AccountsInit == Init => Accounts
  BY TypesInit, PhasedInit, BooksInit DEF Accounts

LEMMA AccountsNext == Accounts /\ [Next]_vars => Accounts'
  BY TypesKept, PhasedKept, SettledKept, BooksKept DEF Accounts

THEOREM AccountsHold == Spec => []Accounts
  BY AccountsInit, AccountsNext, PTL DEF Spec

\* Fills, settlements and ends are written by one action each.
LEMMA OtherWrites ==
  ASSUME Types, [Next]_vars, ~ RecordFill
  PROVE  \/ UNCHANGED entries
         \/ \E r \in Entry : /\ Append1(r) /\ r.kind # "fill"
                             /\ r.kind = "settle" => SettleRun
                             /\ r.kind = "run_end" => EndRun
<1>1. CASE Begin \/ Resume
  <2>0. run \in 0 .. MaxRuns
    BY DEF Types, TypeOK
  <2>1. run + 1 \in Nat
    BY <2>0, Limits
  <2> QED
    BY <1>1, <2>1, Appendable DEF Begin, Resume
<1>2. CASE Skip \/ Handle \/ Apply \/ Evaluate \/ Crash \/ RaiseKill \/ RemoveKill \/ UNCHANGED vars
  BY <1>2 DEF Skip, Handle, Apply, Evaluate, Crash, RaiseKill, RemoveKill, vars, disk
<1>3. ASSUME NEW lean \in Leans, NEW finds, Submit(lean, finds)
      PROVE  \E r \in Entry : r.kind = "order_submitted" /\ Append1(r)
  <2>1. Submitted(lean) \in Entry /\ Submitted(lean).kind = "order_submitted"
    BY Appendable, EntryKinds, Limits
  <2> QED
    BY <1>3, <2>1 DEF Submit
<1>4. CASE ForceMark \/ HaltRun \/ TickDone \/ LastMark
  BY <1>4, Appendable, EntryKinds DEF ForceMark, HaltRun, TickDone, LastMark
<1>5. CASE SettleRun
  <2>1. PICK payout \in Payouts \ {Unknown} : Append1(Settled(payout))
    BY <1>5 DEF SettleRun
  <2>2. Settled(payout) \in Entry /\ Settled(payout).kind = "settle"
    BY RecoveryAssumption, Appendable, EntryKinds
  <2> QED
    BY <1>5, <2>1, <2>2
<1>6. CASE EndRun
  <2>1. Ended \in Entry /\ Ended.kind = "run_end" /\ Append1(Ended)
    BY <1>6, Appendable, EntryKinds DEF EndRun
  <2> QED
    BY <1>6, <2>1
<1> QED
  BY <1>1, <1>2, <1>3, <1>4, <1>5, <1>6 DEF Next, Loop, Submits

-----------------------------------------------------------------------------
(* The report: fills and their orders. *)

\* The journal's entries are in the order of the processes, ...
InOrder ==
  /\ \A i \in DOMAIN entries : entries[i].run \in Nat /\ entries[i].run <= run
  /\ \A i, j \in DOMAIN entries : i < j => entries[i].run <= entries[j].run

\* ... an order id was submitted by the process that uses it, ...
Known ==
  /\ \A o \in 1 .. submitted :
       \E j \in OfKind("order_submitted") : entries[j].run = run /\ entries[j].order = o
  /\ phase = "tick" /\ batch # "idle" => submitted > 0

\* ... and before it is filled.
Named ==
  \A i \in Fills : \E j \in OfKind("order_submitted") :
    j < i /\ entries[j].run = entries[i].run /\ entries[j].order = entries[i].order

\* Every entry carries the process that writes it.
LEMMA RunOfEntries ==
  ASSUME Types, Phased, [Next]_vars
  PROVE  \/ UNCHANGED entries /\ run' = run
         \/ \E r \in Entry : r.run = run' /\ Append1(r) /\ run <= run'
<1>1. run \in Nat
  <2>1. run \in 0 .. MaxRuns
    BY DEF Types, TypeOK
  <2> QED
    BY <2>1, Limits
<1>2. CASE Begin \/ Resume
  <2>1. \A k \in Nat : Start(k).run = k /\ Resumed(k).run = k
    BY DEF Start, Resumed
  <2>2. run + 1 \in Nat /\ run <= run + 1
    BY <1>1
  <2>3. \A k \in Nat : Start(k) \in Entry /\ Resumed(k) \in Entry
    BY Appendable
  <2> QED
    BY <1>1, <1>2, <2>1, <2>2, <2>3 DEF Begin, Resume
<1>3. CASE Skip \/ Handle \/ Apply \/ Evaluate \/ Crash \/ RaiseKill \/ RemoveKill \/ UNCHANGED vars
  BY <1>3 DEF Skip, Handle, Apply, Evaluate, Crash, RaiseKill, RemoveKill, vars, disk, history
<1>4. ASSUME NEW lean \in Leans, NEW finds, Submit(lean, finds)
      PROVE  \E r \in Entry : r.run = run' /\ Append1(r) /\ run <= run'
  <2>1. Submitted(lean) \in Entry /\ Submitted(lean).run = run
    BY Appendable, EntryKinds, Limits DEF Submitted
  <2> QED
    BY <1>1, <1>4, <2>1 DEF Submit, history
<1>5. CASE RecordFill
  <2>1. submitted \in Nat /\ \A order \in 1 .. submitted : order \in Nat
    BY Limits DEF Types, TypeOK
  <2>2. PICK order \in Nat, l \in {"maker", "taker"} : Append1(FillEntry(order, l, FeeNow))
    BY <1>5, <2>1 DEF RecordFill
  <2>3. FillEntry(order, l, FeeNow) \in Entry /\ FillEntry(order, l, FeeNow).run = run
    BY Appendable, EntryKinds DEF FillEntry
  <2> QED
    BY <1>1, <1>5, <2>2, <2>3 DEF RecordFill, history
<1>6. CASE ForceMark \/ HaltRun \/ TickDone \/ LastMark
  <2>1. MarkEntry(baseline) \in Entry /\ MarkEntry(baseline).run = run
    BY Appendable, EntryKinds DEF MarkEntry
  <2> QED
    BY <1>1, <1>6, <2>1 DEF ForceMark, HaltRun, TickDone, LastMark, history
<1>7. CASE SettleRun
  <2>1. PICK payout \in Payouts \ {Unknown} : Append1(Settled(payout))
    BY <1>7 DEF SettleRun
  <2>2. Settled(payout) \in Entry /\ Settled(payout).run = run
    BY RecoveryAssumption, Appendable, EntryKinds DEF Settled
  <2> QED
    BY <1>1, <1>7, <2>1, <2>2 DEF SettleRun
<1>8. CASE EndRun
  <2>1. Ended \in Entry /\ Ended.run = run
    BY Appendable, EntryKinds DEF Ended
  <2> QED
    BY <1>1, <1>8, <2>1 DEF EndRun
<1> QED
  BY <1>2, <1>3, <1>4, <1>5, <1>6, <1>7, <1>8 DEF Next, Loop, Submits

LEMMA InOrderKept == Types /\ Types' /\ Phased /\ InOrder /\ [Next]_vars => InOrder'
<1> SUFFICES ASSUME Types, Types', Phased, InOrder, [Next]_vars PROVE InOrder'
  OBVIOUS
<1>1. CASE UNCHANGED entries /\ run' = run
  BY <1>1 DEF InOrder
<1>2. ASSUME NEW r \in Entry, r.run = run', Append1(r), run <= run'
      PROVE  InOrder'
  <2>1. run \in Nat /\ run' \in Nat
    <3>1. run \in 0 .. MaxRuns /\ run' \in 0 .. MaxRuns
      BY DEF Types, TypeOK
    <3> QED
      BY <3>1, Limits
  <2>2. PICK n \in Nat : n = Len(entries)
    BY DEF Types
  <2>3. /\ DOMAIN entries = 1 .. n /\ DOMAIN entries' = 1 .. n + 1
        /\ \A i \in 1 .. n : entries'[i] = entries[i]
        /\ entries'[n + 1] = r
    BY <1>2, <2>2, Grown DEF Types, Append1
  <2>4. \A i \in 1 .. n : entries'[i].run \in Nat /\ entries'[i].run <= run'
    <3>1. \A i \in 1 .. n : entries'[i].run \in Nat /\ entries'[i].run <= run
      BY <2>3 DEF InOrder
    <3> QED
      BY <1>2, <2>1, <3>1
  <2>5. \A i, j \in 1 .. n : i < j => entries'[i].run <= entries'[j].run
    BY <2>3 DEF InOrder
  <2>6. \A i \in 1 .. n + 1 : i \in 1 .. n \/ i = n + 1
    OBVIOUS
  <2>7. \A i \in 1 .. n + 1 : entries'[i].run \in Nat /\ entries'[i].run <= run'
    BY <1>2, <2>1, <2>3, <2>4, <2>6
  <2>8. \A i, j \in 1 .. n + 1 : i < j => entries'[i].run <= entries'[j].run
    <3> SUFFICES ASSUME NEW i \in 1 .. n + 1, NEW j \in 1 .. n + 1, i < j
                 PROVE  entries'[i].run <= entries'[j].run
      OBVIOUS
    <3>1. i \in 1 .. n
      OBVIOUS
    <3>2. CASE j \in 1 .. n
      BY <2>5, <3>1, <3>2
    <3>3. CASE j = n + 1
      BY <1>2, <2>3, <2>4, <3>1, <3>3
    <3> QED
      BY <2>6, <3>2, <3>3
  <2> QED
    BY <2>3, <2>7, <2>8 DEF InOrder
<1> QED
  BY <1>1, <1>2, RunOfEntries

\* What is submitted stays on record.
LEMMA OrdersStay ==
  ASSUME Types, \/ UNCHANGED entries
                \/ \E r \in Entry : Append1(r)
  PROVE  /\ OfKind("order_submitted") \subseteq OfKind("order_submitted")'
         /\ \A i \in DOMAIN entries : i \in DOMAIN entries' /\ entries'[i] = entries[i]
<1>1. CASE UNCHANGED entries
  BY <1>1 DEF OfKind
<1>2. ASSUME NEW r \in Entry, Append1(r)
      PROVE  /\ OfKind("order_submitted") \subseteq OfKind("order_submitted")'
             /\ \A i \in DOMAIN entries : i \in DOMAIN entries' /\ entries'[i] = entries[i]
  <2>1. /\ DOMAIN entries \subseteq DOMAIN entries'
        /\ \A i \in DOMAIN entries : entries'[i] = entries[i]
    BY <1>2, Grown DEF Types, Append1
  <2> QED
    BY <2>1 DEF OfKind
<1> QED
  BY <1>1, <1>2

LEMMA KnownKept == Types /\ Phased /\ Known /\ [Next]_vars => Known'
<1> SUFFICES ASSUME Types, Phased, Known, [Next]_vars PROVE Known'
  OBVIOUS
<1>0. /\ OfKind("order_submitted") \subseteq OfKind("order_submitted")'
      /\ \A i \in DOMAIN entries : entries'[i] = entries[i]
  BY RunOfEntries, OrdersStay
<1>1. CASE submitted' = 0 /\ phase' # "tick"
  BY <1>1 DEF Known
<1>2. CASE submitted' = submitted /\ run' = run /\ (phase' = "tick" /\ batch' # "idle" =>
                                                    phase = "tick" /\ batch # "idle")
  BY <1>0, <1>2 DEF Known, OfKind
<1>3. ASSUME NEW lean \in Leans, NEW finds, Submit(lean, finds) PROVE Known'
  <2>1. submitted' = submitted + 1 /\ run' = run /\ submitted \in Nat
    BY <1>3, Limits DEF Submit, history, Types, TypeOK
  <2>2. Submitted(lean) \in Entry /\ Submitted(lean).kind = "order_submitted"
        /\ Submitted(lean).run = run /\ Submitted(lean).order = submitted + 1
    BY Appendable, EntryKinds, Limits DEF Submitted
  <2>3. PICK k : /\ OfKind("order_submitted")' = OfKind("order_submitted") \cup {k}
                 /\ entries'[k] = Submitted(lean)
    BY <1>3, <2>2, KindsGrown DEF Types, Submit, Append1
  <2>4. \A o \in 1 .. submitted :
          \E j \in OfKind("order_submitted")' : entries'[j].run = run' /\ entries'[j].order = o
    BY <1>0, <2>1 DEF Known, OfKind
  <2>5. \E j \in OfKind("order_submitted")' :
          entries'[j].run = run' /\ entries'[j].order = submitted + 1
    BY <2>1, <2>2, <2>3
  <2>6. \A o \in 1 .. submitted' : o \in 1 .. submitted \/ o = submitted + 1
    BY <2>1
  <2> QED
    BY <2>1, <2>4, <2>5, <2>6 DEF Known
<1>4. CASE Begin \/ Resume \/ EndRun \/ Crash
  BY <1>1, <1>4 DEF Begin, Resume, EndRun, Crash, Exit, memory, Phased
<1>5. CASE \/ Skip \/ Handle \/ Apply \/ RecordFill \/ ForceMark \/ HaltRun \/ Evaluate \/ TickDone
           \/ SettleRun \/ LastMark \/ RaiseKill \/ RemoveKill \/ UNCHANGED vars
  <2>1. submitted' = submitted /\ run' = run
    BY <1>5 DEF Skip, Handle, Apply, RecordFill, ForceMark, HaltRun, Evaluate, TickDone, SettleRun,
                LastMark, RaiseKill, RemoveKill, memory, history, vars
  <2>2. phase' = "tick" /\ batch' # "idle" => phase = "tick" /\ batch # "idle"
    BY <1>5 DEF Skip, Handle, Apply, RecordFill, ForceMark, HaltRun, Evaluate, TickDone, SettleRun,
                LastMark, RaiseKill, RemoveKill, memory, history, vars
  <2> QED
    BY <1>2, <2>1, <2>2
<1> QED
  BY <1>3, <1>4, <1>5 DEF Next, Loop, Submits

LEMMA NamedKept == Types /\ Phased /\ Known /\ Named /\ [Next]_vars => Named'
<1> SUFFICES ASSUME Types, Phased, Known, Named, [Next]_vars PROVE Named'
  OBVIOUS
<1>0. /\ OfKind("order_submitted") \subseteq OfKind("order_submitted")'
      /\ \A i \in DOMAIN entries : entries'[i] = entries[i]
  BY RunOfEntries, OrdersStay
<1>1. CASE Fills' = Fills
  BY <1>0, <1>1 DEF Named, Fills, OfKind
<1>2. CASE RecordFill
  <2>0. submitted \in 0 .. MaxOrders
    BY DEF Types, TypeOK
  <2>1. submitted \in Nat /\ \A order \in 1 .. submitted : order \in Nat
    BY <2>0, Limits
  <2>2. PICK o \in 1 .. submitted, l \in {"maker", "taker"} : Append1(FillEntry(o, l, FeeNow))
    <3>1. CASE phase = "tick"
      <4>1. submitted \in 1 .. submitted
        BY <1>2, <2>1, <3>1 DEF RecordFill, Known
      <4> QED
        BY <1>2, <3>1, <4>1 DEF RecordFill
    <3>2. CASE phase # "tick"
      BY <1>2, <3>2 DEF RecordFill
    <3> QED
      BY <3>1, <3>2
  <2>3. PICK r \in FillRecord : r = FillEntry(o, l, FeeNow)
    BY <2>1, Appendable
  <2>4. r.run = run /\ r.order = o /\ r \in Entry /\ r.kind = "fill"
    BY <2>3, EntryKinds DEF FillEntry
  <2>5. PICK k : /\ Fills' = Fills \cup {k} /\ entries'[k] = r /\ k = Len(entries) + 1
    BY <2>2, <2>3, <2>4, KindsGrown DEF Types, Append1, Fills
  <2>6. PICK j \in OfKind("order_submitted") : entries[j].run = run /\ entries[j].order = o
    BY DEF Known
  <2>7. j < k /\ j \in DOMAIN entries
    BY <2>5 DEF Types, OfKind
  <2>8. j \in OfKind("order_submitted")' /\ entries'[j] = entries[j]
    BY <1>0, <2>7
  <2>9. \A i \in Fills : \E m \in OfKind("order_submitted")' :
          m < i /\ entries'[m].run = entries'[i].run /\ entries'[m].order = entries'[i].order
    BY <1>0 DEF Named, Fills, OfKind
  <2> QED
    BY <2>4, <2>5, <2>6, <2>7, <2>8, <2>9 DEF Named
<1>3. Fills' = Fills \/ RecordFill
  <2>1. CASE UNCHANGED entries
    BY <2>1 DEF Fills, OfKind
  <2>2. ASSUME ~ RecordFill, ~ UNCHANGED entries PROVE Fills' = Fills
    <3>1. PICK r \in Entry : Append1(r) /\ r.kind # "fill"
      BY <2>2, OtherWrites
    <3> QED
      BY <3>1, KindsGrown DEF Types, Append1, Fills
  <2> QED
    BY <2>1, <2>2
<1> QED
  BY <1>1, <1>2, <1>3

(***************************************************************************)
(* A fill is counted for an order of the process that filled it, and the   *)
(* fill rate is never too high.                                            *)
(***************************************************************************)
Attributed == Accounts /\ InOrder /\ Known /\ Named

LEMMA AttributedInit == Init => Attributed
<1> SUFFICES ASSUME Init PROVE Attributed
  OBVIOUS
<1>1. \A i \in DOMAIN entries : FALSE
  BY DEF Init
<1>2. submitted = 0 /\ phase = "down"
  BY DEF Init
<1> QED
  BY <1>1, <1>2, AccountsInit DEF Attributed, InOrder, Known, Named, Fills, OfKind

LEMMA AttributedNext == Attributed /\ [Next]_vars => Attributed'
<1> SUFFICES ASSUME Attributed, [Next]_vars PROVE Attributed'
  OBVIOUS
<1>1. Accounts /\ Accounts'
  BY AccountsNext DEF Attributed
<1> QED
  BY <1>1, InOrderKept, KnownKept, NamedKept DEF Attributed, Accounts

LEMMA RateIsLow ==
  ASSUME Types
  PROVE  FillRate[1] <= Cardinality({<<entries[i].run, entries[i].order>> : i \in Fills})
<1> DEFINE Pairs == {<<entries[i].run, entries[i].order>> : i \in Fills}
           g == [i \in Fills |-> <<entries[i].run, entries[i].order>>]
           f == [p \in Pairs |-> p[2]]
<1>1. IsFiniteSet(Fills)
  BY KindsFinite DEF Types, Fills
<1>2. IsFiniteSet(Pairs)
  <2>1. g \in Surjection(Fills, Pairs)
    BY DEF Surjection
  <2> QED
    BY <1>1, <2>1, FS_Surjection
<1>3. f \in Surjection(Pairs, FilledOrders)
  <2>1. \A p \in Pairs : f[p] \in FilledOrders
    BY DEF FilledOrders
  <2>2. ASSUME NEW o \in FilledOrders PROVE \E p \in Pairs : f[p] = o
    <3>1. PICK i \in Fills : o = entries[i].order
      BY DEF FilledOrders
    <3> DEFINE p == <<entries[i].run, entries[i].order>>
    <3>2. p \in Pairs
      OBVIOUS
    <3>3. p[2] = o
      BY <3>1
    <3> HIDE DEF p, Pairs
    <3>4. f[p] = p[2]
      BY <3>2
    <3> QED
      BY <3>2, <3>3, <3>4
  <2> QED
    BY <2>1, <2>2 DEF Surjection
<1>4. Cardinality(FilledOrders) <= Cardinality(Pairs)
  BY <1>2, <1>3, FS_Surjection
<1> QED
  BY <1>4 DEF FillRate

THEOREM FillsFindOrders == Spec => []FillsAttributed
<1>1. Attributed => FillsAttributed
  <2> SUFFICES ASSUME Attributed PROVE FillsAttributed
    OBVIOUS
  <2>0. Types
    BY DEF Attributed, Accounts
  <2>1. ASSUME NEW i \in Fills
        PROVE  \E j \in OfKind("order_submitted") :
                 /\ j < i /\ entries[j].run = entries[i].run /\ entries[j].order = entries[i].order
                 /\ Bucket(LeanOf(i)) = Bucket(entries[j].lean)
    <3> DEFINE named == {j \in OfKind("order_submitted") : j < i /\ entries[j].order = entries[i].order}
               m == Max(named)
    <3>1. PICK j \in named : entries[j].run = entries[i].run
      BY DEF Attributed, Named
    <3>2. PICK n \in Nat : n = Len(entries)
      BY <2>0 DEF Types
    <3>3. named \subseteq 1 .. n /\ i \in 1 .. n /\ DOMAIN entries = 1 .. n
      BY <2>0, <3>2 DEF Types, Fills, OfKind
    <3>4. m \in named /\ j <= m
      <4> HIDE DEF named
      <4> QED
        BY <3>1, <3>3, Greatest
    <3>5. m \in OfKind("order_submitted") /\ m < i /\ entries[m].order = entries[i].order
      BY <3>4
    <3>6. LeanOf(i) = entries[m].lean
      BY <3>4 DEF LeanOf
    <3> HIDE DEF m
    <3>7. m \in 1 .. n /\ j \in 1 .. n
      BY <3>1, <3>3, <3>4
    <3>8. /\ entries[m].run <= entries[i].run
          /\ m = j \/ entries[j].run <= entries[m].run
      <4>1. m = j \/ j < m
        BY <3>4, <3>7
      <4> QED
        BY <3>3, <3>5, <3>7, <4>1 DEF Attributed, InOrder
    <3>9. entries[m].run \in Nat /\ entries[i].run \in Nat
      BY <3>3, <3>7 DEF Attributed, InOrder
    <3>10. entries[m].run = entries[i].run
      BY <3>1, <3>8, <3>9
    <3> QED
      BY <3>5, <3>6, <3>10
  <2> QED
    BY <2>0, <2>1, RateIsLow DEF FillsAttributed
<1>2. Spec => []Attributed
  BY AttributedInit, AttributedNext, PTL DEF Spec
<1> QED
  BY <1>1, <1>2, PTL

-----------------------------------------------------------------------------
(* The report: totals and the state of the run. *)

\* A recorded fill is an entry of that kind.
LEMMA FillWritten ==
  ASSUME Types, RecordFill
  PROVE  \E r \in Entry : Append1(r) /\ r.kind = "fill"
<1>1. submitted \in Nat /\ \A order \in 1 .. submitted : order \in Nat
  BY Limits DEF Types, TypeOK
<1>2. PICK order \in Nat, l \in {"maker", "taker"} : Append1(FillEntry(order, l, FeeNow))
  BY <1>1 DEF RecordFill
<1> QED
  BY <1>2, Appendable, EntryKinds

\* The last place of a kind is one of that kind.
LEMMA LastPlace ==
  ASSUME entries \in Seq(Entry), NEW kind
  PROVE  OfKind(kind) # {} =>
           Max(OfKind(kind)) \in OfKind(kind) /\ \A i \in OfKind(kind) : i <= Max(OfKind(kind))
<1>1. Len(entries) \in Nat /\ OfKind(kind) \subseteq 1 .. Len(entries)
  BY DEF OfKind
<1> QED
  BY <1>1, Greatest

\* The last entry of a kind is the one appended, ...
LEMMA LastAdded ==
  ASSUME entries \in Seq(Entry), NEW r \in Entry, Append1(r), NEW kind, r.kind = kind
  PROVE  /\ OfKind(kind)' # {} /\ LastOf(kind)' = r
         /\ OfKind(kind)' = OfKind(kind) \cup {Len(entries) + 1}
         /\ \A i \in OfKind(kind) : entries'[i] = entries[i] /\ i < Len(entries) + 1
<1>1. PICK n \in Nat : n = Len(entries)
  OBVIOUS
<1> DEFINE S == OfKind(kind)
           T == S \cup {n + 1}
<1>2. /\ OfKind(kind)' = T /\ S \subseteq 1 .. n /\ entries'[n + 1] = r
      /\ \A i \in S : entries'[i] = entries[i]
  BY <1>1, KindsGrown DEF Append1
<1> HIDE DEF S
<1>3. n + 1 \in Nat /\ T \subseteq 1 .. n + 1 /\ T # {} /\ n + 1 \in T
  BY <1>2
<1>4. Max(T) = n + 1
  <2> HIDE DEF T
  <2>1. Max(T) \in T /\ \A k \in T : k <= Max(T)
    BY <1>3, Greatest
  <2>2. Max(T) \in 1 .. n + 1 /\ n + 1 <= Max(T)
    BY <1>3, <2>1
  <2> QED
    BY <2>2
<1>5. LastOf(kind)' = entries'[Max(OfKind(kind)')]
  BY DEF LastOf
<1>6. \A i \in S : i < n + 1
  BY <1>2
<1> QED
  BY <1>1, <1>2, <1>3, <1>4, <1>5, <1>6 DEF S

\* ... or the one that was the last before.
LEMMA LastStays ==
  ASSUME entries \in Seq(Entry), NEW kind,
         \/ UNCHANGED entries
         \/ \E r \in Entry : Append1(r) /\ r.kind # kind
  PROVE  /\ OfKind(kind)' = OfKind(kind) /\ (Has(kind)' <=> Has(kind))
         /\ \A i \in OfKind(kind) : entries'[i] = entries[i]
         /\ Has(kind) => LastOf(kind)' = LastOf(kind)
<1>1. OfKind(kind)' = OfKind(kind) /\ \A i \in OfKind(kind) : entries'[i] = entries[i]
  <2>1. CASE UNCHANGED entries
    BY <2>1 DEF OfKind
  <2>2. CASE \E r \in Entry : Append1(r) /\ r.kind # kind
    BY <2>2, KindsGrown DEF Append1
  <2> QED
    BY <2>1, <2>2
<1>2. OfKind(kind) # {} => Max(OfKind(kind)) \in OfKind(kind)
  BY LastPlace
<1>3. OfKind(kind) # {} => LastOf(kind)' = LastOf(kind)
  <2>1. Max(OfKind(kind))' = Max(OfKind(kind)')
    OBVIOUS
  <2>2. LastOf(kind)' = entries'[Max(OfKind(kind)')] /\ LastOf(kind) = entries[Max(OfKind(kind))]
    BY DEF LastOf
  <2> QED
    BY <1>1, <1>2, <2>2
<1> QED
  BY <1>1, <1>3 DEF Has

\* What a settled run has paid, and what the others hold.
Closed ==
  LET left == Left(Cardinality(Fills), FeesRecorded)
  IN  phase \in {"settled", "ending"} =>
        IF Has("settle") THEN portfolio = Paid(left, LastOf("settle").payout) ELSE portfolio = left

\* A settlement belongs to the process that is at work, which was not killed.
OwnSettlement ==
  /\ phase # "down" => \A i \in OfKind("settle") : entries[i].run = run
  /\ halted = "kill" => ~Has("settle")

\* The last mark of a process is of what it leaves.
LastMarked ==
  phase = "ending" =>
    Has("mark") /\ LastOf("mark").worth = worth /\ LastOf("mark").equity = Equity(portfolio, worth)

\* A run_end has the fees of the fills before it, ...
EndsFees ==
  \A i \in OfKind("run_end") : entries[i].fees = SumFunctionOnSet(FeesOf, {j \in Fills : j < i})

\* ... and the P&L of a settled run for good.
SettledEnd ==
  Has("run_end") /\ LastOf("run_end").settled => Has("settle") /\ LastOf("run_end").realized = PnlFromFills

\* What a journal that ends with a run_end says.
AtRest ==
  entries # << >> /\ Last(entries).kind = "run_end" =>
    /\ phase = "down" /\ (End.halted = "no" => over) /\ (End.halted = "kill" => ~Has("settle"))
    /\ End.settled <=> Has("settle")
    /\ End.realized + Unrealized = FinalEquity - Capital

Reported == Accounts /\ Closed /\ OwnSettlement /\ LastMarked /\ EndsFees /\ SettledEnd /\ AtRest

\* What a process holds that comes to its end, before anything is settled.
LEMMA HeldAtEnd ==
  ASSUME Accounts, AtEnd
  PROVE  portfolio = Left(Cardinality(Fills), FeesRecorded) /\ ~Has("settle") /\ phase # "down"
<1>1. phase \in {"next", "closing"}
  BY DEF AtEnd
<1>2. Bought0
  BY <1>1, BooksAre DEF Accounts, Phased
<1> QED
  BY <1>1, <1>2 DEF Bought0, Working, Fills, Has, Accounts, SettledLast

LEMMA ClosedKept == Accounts /\ Closed /\ [Next]_vars => Closed'
<1> SUFFICES ASSUME Accounts, Closed, [Next]_vars PROVE Closed'
  OBVIOUS
<1>0. Types /\ entries \in Seq(Entry)
  BY DEF Accounts, Types
<1>1. CASE SettleRun
  <2>1. PICK payout \in Payouts \ {Unknown} :
          Append1(Settled(payout)) /\ portfolio' = Paid(portfolio, payout)
    BY <1>1 DEF SettleRun
  <2>2. PICK r \in Entry : r = Settled(payout)
    BY <1>0, RecoveryAssumption, Appendable, EntryKinds
  <2>3. r.kind = "settle" /\ r.payout = payout
    BY <2>2 DEF Settled
  <2>4. Has("settle")' /\ LastOf("settle")'.payout = payout
    BY <1>0, <2>1, <2>2, <2>3, LastAdded DEF Has
  <2>5. Fills' = Fills /\ FeesRecorded' = FeesRecorded
    BY <1>0, <2>1, <2>2, <2>3, QuietJournal DEF Fills
  <2>6. portfolio = Left(Cardinality(Fills), FeesRecorded)
    BY <1>1, HeldAtEnd DEF SettleRun
  <2> QED
    BY <2>1, <2>4, <2>5, <2>6 DEF Closed
<1>2. CASE LastMark
  <2>1. PICK r \in Entry : r = MarkEntry(baseline) /\ r.kind = "mark" /\ r \in MarkRecord
    BY <1>0, Appendable, EntryKinds
  <2>2. Append1(r) /\ portfolio' = portfolio
    BY <1>2, <2>1 DEF LastMark
  <2>3. /\ Has("settle")' <=> Has("settle")
        /\ Has("settle") => LastOf("settle")' = LastOf("settle")
    BY <1>0, <2>1, <2>2, LastStays
  <2>4. Fills' = Fills /\ FeesRecorded' = FeesRecorded
    BY <1>0, <2>1, <2>2, MarkJournal DEF Fills
  <2>5. IF Has("settle") THEN portfolio = Paid(Left(Cardinality(Fills), FeesRecorded), LastOf("settle").payout)
        ELSE portfolio = Left(Cardinality(Fills), FeesRecorded)
    BY <1>2, HeldAtEnd DEF LastMark, Closed
  <2> QED
    BY <2>2, <2>3, <2>4, <2>5 DEF Closed
<1>3. CASE \/ Begin \/ Resume \/ Skip \/ Handle \/ Submits \/ Apply \/ RecordFill \/ ForceMark
           \/ HaltRun \/ Evaluate \/ TickDone \/ EndRun \/ Crash
  <2>1. phase' \notin {"settled", "ending"}
    BY <1>3 DEF Begin, Resume, Skip, Handle, Submits, Submit, Apply, RecordFill, ForceMark,
                HaltRun, Evaluate, TickDone, EndRun, Crash, Exit, Accounts, Phased
  <2> QED
    BY <2>1 DEF Closed
<1>4. CASE RaiseKill \/ RemoveKill \/ UNCHANGED vars
  <2>1. UNCHANGED <<entries, phase, portfolio>>
    BY <1>4 DEF RaiseKill, RemoveKill, memory, vars, disk
  <2> QED
    BY <2>1 DEF Closed, Has, LastOf, Fills, OfKind, FeesRecorded, FeesOf
<1> QED
  BY <1>1, <1>2, <1>3, <1>4 DEF Next, Loop

LEMMA OwnSettlementKept == Accounts /\ OwnSettlement /\ [Next]_vars => OwnSettlement'
<1> SUFFICES ASSUME Accounts, OwnSettlement, [Next]_vars PROVE OwnSettlement'
  OBVIOUS
<1>0. Types /\ entries \in Seq(Entry) /\ Phased /\ SettledLast
  BY DEF Accounts, Types
<1>1. CASE SettleRun
  <2>1. PICK payout \in Payouts \ {Unknown} : Append1(Settled(payout))
    BY <1>1 DEF SettleRun
  <2>2. PICK r \in Entry : r = Settled(payout)
    BY <1>0, RecoveryAssumption, Appendable, EntryKinds
  <2>3. r.kind = "settle" /\ r.run = run
    BY <2>2 DEF Settled
  <2>4. ~Has("settle") /\ OfKind("settle")' = OfKind("settle") \cup {Len(entries) + 1}
        /\ entries'[Len(entries) + 1] = r
    BY <1>0, <1>1, <2>1, <2>2, <2>3, HeldAtEnd, KindsGrown DEF SettleRun, Append1
  <2> QED
    BY <1>1, <2>3, <2>4 DEF SettleRun, OwnSettlement, Has
<1>2. ASSUME ~ SettleRun PROVE OwnSettlement'
  <2>1. OfKind("settle")' = OfKind("settle") /\ \A i \in OfKind("settle") : entries'[i] = entries[i]
    <3>1. CASE RecordFill
      <4>1. PICK r \in Entry : Append1(r) /\ r.kind = "fill"
        BY <1>0, <3>1, FillWritten
      <4> QED
        BY <1>0, <4>1, LastStays
    <3>2. CASE ~ RecordFill
      BY <1>0, <1>2, <3>2, OtherWrites, LastStays
    <3> QED
      BY <3>1, <3>2
  <2>2. \/ OfKind("settle") = {}
        \/ run' = run /\ (phase' # "down" => phase # "down")
           /\ (halted' = "kill" => halted = "kill")
    <3>1. CASE Begin
      <4>1. \A i \in DOMAIN entries : FALSE
        BY <1>0, <3>1 DEF Begin, Phased
      <4> QED
        BY <4>1 DEF OfKind
    <3>2. CASE Resume
      BY <3>2 DEF Resume, Resumable
    <3>3. CASE HaltRun
      BY <1>0, <3>3 DEF HaltRun, SettledLast
    <3>4. CASE \/ Skip \/ Handle \/ Submits \/ Apply \/ RecordFill \/ ForceMark \/ Evaluate \/ TickDone
               \/ LastMark \/ EndRun \/ Crash \/ RaiseKill \/ RemoveKill \/ UNCHANGED vars
      <4>1. run' = run /\ (halted' = "kill" => halted = "kill")
        BY <3>4 DEF Skip, Handle, Submits, Submit, Apply, RecordFill, ForceMark, Evaluate, TickDone,
                    LastMark, EndRun, Crash, Exit, RaiseKill, RemoveKill, memory, history, vars
      <4>2. phase' # "down" => phase # "down"
        BY <1>0, <3>4, HeldAtEnd DEF Skip, Handle, Submits, Submit, Apply, RecordFill, ForceMark,
                    Evaluate, TickDone, LastMark, EndRun, Crash, Exit, RaiseKill, RemoveKill,
                    vars, Phased
      <4> QED
        BY <4>1, <4>2
    <3> QED
      BY <1>2, <3>1, <3>2, <3>3, <3>4 DEF Next, Loop
  <2> QED
    BY <2>1, <2>2 DEF OwnSettlement, Has
<1> QED
  BY <1>1, <1>2

LEMMA LastMarkedKept == Accounts /\ LastMarked /\ [Next]_vars => LastMarked'
<1> SUFFICES ASSUME Accounts, LastMarked, [Next]_vars PROVE LastMarked'
  OBVIOUS
<1>0. Types /\ entries \in Seq(Entry)
  BY DEF Accounts, Types
<1>1. CASE LastMark
  <2>1. PICK r \in Entry : r = MarkEntry(baseline) /\ r.kind = "mark"
    BY <1>0, Appendable, EntryKinds
  <2>2. Append1(r) /\ UNCHANGED <<portfolio, worth>>
    BY <1>1, <2>1 DEF LastMark
  <2>3. Has("mark")' /\ LastOf("mark")' = r
    BY <1>0, <2>1, <2>2, LastAdded DEF Has
  <2>4. r.worth = worth /\ r.equity = Equity(portfolio, worth)
    BY <2>1 DEF MarkEntry
  <2> QED
    BY <2>2, <2>3, <2>4 DEF LastMarked, Equity
<1>2. CASE RaiseKill \/ RemoveKill \/ UNCHANGED vars
  <2>1. UNCHANGED <<entries, phase, portfolio, worth>>
    BY <1>2 DEF RaiseKill, RemoveKill, memory, vars, disk
  <2> QED
    BY <2>1 DEF LastMarked, Has, LastOf, OfKind, Equity
<1>3. CASE \/ Begin \/ Resume \/ Skip \/ Handle \/ Submits \/ Apply \/ RecordFill \/ ForceMark
           \/ HaltRun \/ Evaluate \/ TickDone \/ SettleRun \/ EndRun \/ Crash
  <2>1. phase' # "ending"
    BY <1>3 DEF Begin, Resume, Skip, Handle, Submits, Submit, Apply, RecordFill, ForceMark,
                HaltRun, Evaluate, TickDone, SettleRun, EndRun, Crash, Exit, Accounts, Phased
  <2> QED
    BY <2>1 DEF LastMarked
<1> QED
  BY <1>1, <1>2, <1>3 DEF Next, Loop

\* What a process holds at its end, in numbers.
LEMMA FeesOfClosed ==
  ASSUME Types, Closed, phase = "ending"
  PROVE  /\ portfolio.fees = FeesRecorded
         /\ Has("settle") =>
              LET paid == Cardinality(Fills) * LastOf("settle").payout
                  cost == Cardinality(Fills) + FeesRecorded
              IN  /\ paid \in Int /\ portfolio.realized = paid - cost
                  /\ portfolio.cash = Capital - cost + paid
         /\ ~Has("settle") => portfolio = Left(Cardinality(Fills), FeesRecorded)
<1>0. entries \in Seq(Entry)
  BY DEF Types
<1> DEFINE s == Cardinality(Fills)
           f == FeesRecorded
           left == Left(s, f)
<1>1. s \in Nat /\ f \in Nat /\ Capital \in Nat
  BY <1>0, KindsFinite, FeesType, Limits DEF Fills
<1> HIDE DEF s, f
<1>2. /\ left \in Holding /\ left.held = s /\ left.cash = Capital - s - f /\ left.cost = s + f
      /\ left.fees = f /\ left.realized = 0
  BY <1>1, LeftType DEF Left
<1> HIDE DEF left
<1>3. CASE Has("settle")
  <2>1. PICK p \in Nat : p = LastOf("settle").payout
    <3>1. LastOf("settle") \in SettleRecord
      BY <1>0, <1>3, LastPlace, Records DEF Has, LastOf
    <3> QED
      BY <3>1 DEF SettleRecord
  <2>2. portfolio = Paid(left, p)
    BY <1>3, <2>1 DEF Closed, left, s, f
  <2>3. /\ Paid(left, p).cash = left.cash + left.held * p /\ Paid(left, p).fees = left.fees
        /\ Paid(left, p).realized = left.realized + left.held * p - left.cost
    BY <1>2, PaidIs
  <2> DEFINE paid == s * p
  <2>4. paid \in Int
    BY <1>1, TimesInt
  <2>5. /\ portfolio.cash = Capital - s - f + paid /\ portfolio.fees = f
        /\ portfolio.realized = 0 + paid - (s + f)
    BY <1>2, <2>2, <2>3
  <2> HIDE DEF paid
  <2>6. /\ Capital - s - f + paid = Capital - (s + f) + paid
        /\ 0 + paid - (s + f) = paid - (s + f)
    BY <1>1, <2>4
  <2> QED
    BY <1>3, <2>1, <2>4, <2>5, <2>6 DEF paid, s, f
<1>4. CASE ~Has("settle")
  BY <1>2, <1>4 DEF Closed, left, s, f
<1> QED
  BY <1>3, <1>4

LEMMA EndsFeesKept == Accounts /\ Closed /\ EndsFees /\ [Next]_vars => EndsFees'
<1> SUFFICES ASSUME Accounts, Closed, EndsFees, [Next]_vars PROVE EndsFees'
  OBVIOUS
<1>0. Types /\ entries \in Seq(Entry)
  BY DEF Accounts, Types
<1>1. /\ Fills \subseteq Fills' /\ \A i \in Fills : FeesOf'[i] = FeesOf[i] /\ FeesOf[i] \in Nat
      /\ \A i \in OfKind("run_end") : entries'[i] = entries[i] /\ i \in 1 .. Len(entries)
      /\ Fills' = Fills \/ Fills' = Fills \cup {Len(entries) + 1}
  <2>1. CASE UNCHANGED entries
    BY <1>0, <2>1, FeesType DEF Fills, OfKind, FeesOf
  <2>2. ASSUME NEW r \in Entry, Append1(r)
        PROVE  /\ Fills \subseteq Fills' /\ \A i \in Fills : FeesOf'[i] = FeesOf[i] /\ FeesOf[i] \in Nat
               /\ \A i \in OfKind("run_end") : entries'[i] = entries[i] /\ i \in 1 .. Len(entries)
               /\ Fills' = Fills \/ Fills' = Fills \cup {Len(entries) + 1}
    <3>1. /\ OfKind("run_end") \subseteq 1 .. Len(entries)
          /\ \A i \in OfKind("run_end") : entries'[i] = entries[i]
      BY <1>0, <2>2, KindsGrown DEF Append1
    <3>2. /\ Fills' = Fills \/ Fills' = Fills \cup {Len(entries) + 1}
          /\ \A i \in Fills : entries'[i] = entries[i]
      BY <1>0, <2>2, KindsGrown DEF Append1, Fills
    <3>3. \A i \in Fills : FeesOf'[i] = FeesOf[i] /\ FeesOf[i] \in Nat
      BY <1>0, <3>2, FeesType DEF FeesOf, Fills
    <3> QED
      BY <3>1, <3>2, <3>3
  <2> QED
    BY <1>0, <2>1, <2>2, RunOfEntries DEF Accounts
<1>2. IsFiniteSet(Fills)
  BY <1>0, KindsFinite DEF Fills
<1>3. ASSUME NEW i \in OfKind("run_end")
      PROVE  entries'[i].fees = SumFunctionOnSet(FeesOf', {j \in Fills' : j < i})
  <2> DEFINE S == {j \in Fills : j < i}
  <2>1. {j \in Fills' : j < i} = S
    <3>1. PICK n \in Nat : n = Len(entries)
      BY <1>0
    <3>2. i \in 1 .. n /\ ~ n + 1 < i
      BY <1>1, <3>1
    <3> QED
      BY <1>1, <3>1, <3>2
  <2>2. IsFiniteSet(S) /\ \A j \in S : FeesOf'[j] = FeesOf[j] /\ FeesOf[j] \in Int /\ FeesOf'[j] \in Int
    BY <1>1, <1>2, FS_Subset
  <2>3. entries[i].fees = SumFunctionOnSet(FeesOf, S)
    BY DEF EndsFees
  <2> HIDE DEF S
  <2>4. SumFunctionOnSet(FeesOf', S) = SumFunctionOnSet(FeesOf, S)
    BY <2>2, SumOfEqual
  <2> QED
    BY <1>1, <2>1, <2>3, <2>4
<1>4. CASE EndRun
  <2>1. PICK r \in Entry : r = Ended /\ r.kind = "run_end" /\ Append1(r) /\ r.fees = portfolio.fees
    BY <1>0, <1>4, Appendable, EntryKinds DEF EndRun, Ended
  <2>2. PICK n \in Nat : n = Len(entries)
    BY <1>0
  <2>3. /\ OfKind("run_end")' = OfKind("run_end") \cup {n + 1} /\ entries'[n + 1] = r
        /\ Fills' = Fills /\ Fills \subseteq 1 .. n
    BY <1>0, <2>1, <2>2, KindsGrown DEF Append1, Fills
  <2>4. portfolio.fees = FeesRecorded
    BY <1>0, <1>4, FeesOfClosed DEF EndRun
  <2>5. {j \in Fills' : j < n + 1} = Fills
    <3>1. \A j \in Fills : j < n + 1
      BY <2>3
    <3> QED
      BY <2>3, <3>1
  <2>6. SumFunctionOnSet(FeesOf', Fills) = SumFunctionOnSet(FeesOf, Fills)
    <3>1. \A i \in Fills : FeesOf'[i] = FeesOf[i] /\ FeesOf[i] \in Int /\ FeesOf'[i] \in Int
      BY <1>1
    <3> QED
      BY <1>2, <3>1, SumOfEqual
  <2>7. entries'[n + 1].fees = SumFunctionOnSet(FeesOf', {j \in Fills' : j < n + 1})
    BY <2>1, <2>3, <2>4, <2>5, <2>6 DEF FeesRecorded, Fills
  <2> QED
    BY <1>3, <2>3, <2>7 DEF EndsFees
<1>5. CASE ~ EndRun
  <2>1. OfKind("run_end")' = OfKind("run_end")
    <3>1. CASE RecordFill
      BY <1>0, <3>1, FillWritten, LastStays
    <3>2. CASE ~ RecordFill
      BY <1>0, <1>5, <3>2, OtherWrites, LastStays
    <3> QED
      BY <3>1, <3>2
  <2> QED
    BY <1>3, <2>1 DEF EndsFees
<1> QED
  BY <1>4, <1>5

\* What the report makes of a journal that a process has ended.
LEMMA EndsWell ==
  ASSUME Accounts, Closed, OwnSettlement, LastMarked, EndRun
  PROVE  /\ (End.settled <=> Has("settle"))' /\ (Has("settle")' <=> Has("settle"))
         /\ Has("run_end")' /\ End' = LastOf("run_end")' /\ End'.halted = halted
         /\ End'.settled => Has("settle")' /\ LastOf("run_end")'.realized = PnlFromFills'
         /\ (End.realized + Unrealized = FinalEquity - Capital)'
<1>0. Types /\ entries \in Seq(Entry) /\ phase = "ending"
  BY DEF Accounts, Types, EndRun
<1>1. PICK r \in Entry : /\ Append1(r) /\ r.kind = "run_end" /\ r.fees = portfolio.fees
                         /\ r.realized = portfolio.realized /\ r.cash = portfolio.cash
                         /\ r.halted = halted /\ r.settled = SettledHere
  BY <1>0, Appendable, EntryKinds DEF EndRun, Ended
<1>2. Has("run_end")' /\ End' = r /\ LastOf("run_end")' = r
  BY <1>0, <1>1, LastAdded DEF Has, End
<1>3. /\ Has("settle")' <=> Has("settle")
      /\ Has("settle") => LastOf("settle")' = LastOf("settle")
      /\ Has("mark")' <=> Has("mark")
      /\ Has("mark") => LastOf("mark")' = LastOf("mark")
  BY <1>0, <1>1, LastStays
<1>4. Fills' = Fills /\ FeesFromFills' = FeesRecorded
  BY <1>0, <1>1, QuietJournal DEF Fills, FeesFromFills, FeesRecorded
<1> DEFINE s == Cardinality(Fills)
           f == FeesRecorded
<1>5. s \in Nat /\ f \in Nat /\ Capital \in Nat /\ Cost' = s + f
  BY <1>0, <1>4, KindsFinite, FeesType, Limits DEF Fills, Cost
<1> HIDE DEF s, f
<1>6. CASE Has("settle")
  <2>1. SettledHere
    BY <1>0, <1>6 DEF SettledHere, OwnSettlement, Has
  <2>2. PICK paid \in Int : paid = s * LastOf("settle").payout
    BY <1>0, <1>6, FeesOfClosed DEF s
  <2>3. portfolio.realized = paid - (s + f) /\ portfolio.cash = Capital - (s + f) + paid
    BY <1>0, <1>6, <2>2, FeesOfClosed DEF s, f
  <2>4. PnlFromFills' = paid - (s + f)
    BY <1>3, <1>4, <1>5, <1>6, <2>2 DEF PnlFromFills, s
  <2>5. Unrealized' = 0 /\ FinalEquity' = r.cash
    BY <1>1, <1>2, <2>1 DEF Unrealized, FinalEquity
  <2>6. paid - (s + f) + 0 = Capital - (s + f) + paid - Capital
    BY <1>5, <2>2
  <2>7. (End.realized + Unrealized = FinalEquity - Capital)'
    BY <1>1, <1>2, <1>5, <2>2, <2>3, <2>5, <2>6
  <2> QED
    BY <1>1, <1>2, <1>3, <1>6, <2>1, <2>3, <2>4, <2>7
<1>7. CASE ~Has("settle")
  <2>1. ~SettledHere
    BY <1>7 DEF SettledHere, Has
  <2>2. portfolio = Left(s, f)
    BY <1>0, <1>7, FeesOfClosed DEF s, f
  <2>3. portfolio.realized = 0 /\ portfolio.held = s /\ portfolio.cash = Capital - s - f
    BY <2>2 DEF Left
  <2>4. Has("mark") /\ LastOf("mark").worth = worth /\ LastOf("mark").equity = Equity(portfolio, worth)
    BY <1>0 DEF LastMarked
  <2>5. LastPrice' = worth
    BY <1>3, <2>4 DEF LastPrice
  <2>6. PICK x \in Int : x = s * worth
    <3>1. worth \in Int
      BY <1>0 DEF Types, TypeOK
    <3> QED
      BY <1>5, <3>1, TimesInt
  <2>7. Unrealized' = x - (s + f)
    BY <1>1, <1>2, <1>4, <1>5, <2>1, <2>5, <2>6 DEF Unrealized, s
  <2>8. FinalEquity' = Capital - s - f + x
    BY <1>1, <1>2, <1>3, <2>1, <2>3, <2>4, <2>6 DEF FinalEquity, Equity
  <2>9. 0 + (x - (s + f)) = Capital - s - f + x - Capital
    BY <1>5, <2>6
  <2>10. (End.realized + Unrealized = FinalEquity - Capital)'
    BY <1>1, <1>2, <1>5, <2>3, <2>6, <2>7, <2>8, <2>9
  <2> QED
    BY <1>1, <1>2, <1>3, <1>7, <2>1, <2>10
<1> QED
  BY <1>1, <1>2, <1>6, <1>7

LEMMA SettledEndKept ==
  Accounts /\ Closed /\ OwnSettlement /\ LastMarked /\ SettledEnd /\ [Next]_vars => SettledEnd'
<1> SUFFICES ASSUME Accounts, Closed, OwnSettlement, LastMarked, SettledEnd, [Next]_vars
             PROVE  SettledEnd'
  OBVIOUS
<1>0. Types /\ entries \in Seq(Entry) /\ SettledLast
  BY DEF Accounts, Types
<1>1. CASE EndRun
  BY <1>1, EndsWell DEF SettledEnd
<1>2. CASE SettleRun
  <2>1. PICK payout \in Payouts \ {Unknown} : Append1(Settled(payout))
    BY <1>2 DEF SettleRun
  <2>2. PICK r \in Entry : r = Settled(payout) /\ r.kind = "settle"
    BY <1>0, RecoveryAssumption, Appendable, EntryKinds
  <2>3. /\ Has("run_end")' <=> Has("run_end")
        /\ Has("run_end") => LastOf("run_end")' = LastOf("run_end")
    BY <1>0, <2>1, <2>2, LastStays
  <2>4. ~Has("settle")
    BY <1>2, HeldAtEnd DEF SettleRun
  <2> QED
    BY <2>3, <2>4 DEF SettledEnd
<1>3. CASE RecordFill
  <2>1. /\ Has("run_end")' <=> Has("run_end")
        /\ Has("run_end") => LastOf("run_end")' = LastOf("run_end")
    BY <1>0, <1>3, FillWritten, LastStays
  <2>2. phase \in {"fills", "tick"}
    BY <1>3 DEF RecordFill
  <2>3. ~Has("settle")
    BY <1>0, <2>2 DEF SettledLast, Has
  <2> QED
    BY <2>1, <2>3 DEF SettledEnd
<1>4. CASE ~EndRun /\ ~SettleRun /\ ~RecordFill
  <2>1. /\ Has("run_end")' <=> Has("run_end")
        /\ Has("run_end") => LastOf("run_end")' = LastOf("run_end")
        /\ Has("settle")' <=> Has("settle")
        /\ Has("settle") => LastOf("settle")' = LastOf("settle")
        /\ Fills' = Fills /\ \A i \in Fills : entries'[i] = entries[i]
    BY <1>0, <1>4, OtherWrites, LastStays DEF Fills
  <2>2. FeesFromFills' = FeesFromFills
    BY <1>0, <2>1, FeesKept DEF FeesFromFills, FeesRecorded, Fills
  <2>3. Has("settle") => PnlFromFills' = PnlFromFills
    BY <2>1, <2>2 DEF PnlFromFills, Cost
  <2> QED
    BY <2>1, <2>3 DEF SettledEnd
<1> QED
  BY <1>1, <1>2, <1>3, <1>4

LEMMA AtRestKept ==
  Accounts /\ Closed /\ OwnSettlement /\ LastMarked /\ AtRest /\ [Next]_vars => AtRest'
<1> SUFFICES ASSUME Accounts, Closed, OwnSettlement, LastMarked, AtRest, [Next]_vars PROVE AtRest'
  OBVIOUS
<1>0. Types /\ entries \in Seq(Entry) /\ SettledLast
  BY DEF Accounts, Types
<1>1. CASE EndRun
  <2>1. phase' = "down" /\ over' = (over \/ halted = "no")
    BY <1>1 DEF EndRun, Exit
  <2>2. halted = "kill" => ~Has("settle")
    BY DEF OwnSettlement
  <2> QED
    BY <1>1, <2>1, <2>2, EndsWell DEF AtRest
<1>2. CASE UNCHANGED entries /\ (phase = "down" => phase' = "down") /\ (over => over')
  BY <1>2 DEF AtRest, End, Unrealized, FinalEquity, Cost, LastPrice, FeesFromFills, Fills, FeesOf,
              LastOf, Has, OfKind
<1>3. ASSUME NEW r \in Entry, Append1(r), r.kind # "run_end" PROVE AtRest'
  <2>1. Len(entries) \in Nat /\ Len(entries') = Len(entries) + 1 /\ entries'[Len(entries) + 1] = r
    BY <1>0, <1>3, Grown DEF Append1
  <2>2. Last(entries)' = r
    BY <2>1 DEF Last
  <2> QED
    BY <1>3, <2>2 DEF AtRest
<1>4. CASE RecordFill
  BY <1>0, <1>3, <1>4, FillWritten
<1>5. CASE ~EndRun /\ ~RecordFill
  <2>1. \/ UNCHANGED entries
        \/ \E r \in Entry : Append1(r) /\ r.kind # "run_end"
    BY <1>0, <1>5, OtherWrites
  <2>2. UNCHANGED entries => (phase = "down" => phase' = "down") /\ (over => over')
    <3>1. CASE Begin \/ Resume
      <4>1. PICK r \in Entry : Append1(r)
        <5>0. run \in 0 .. MaxRuns
          BY <1>0 DEF Types, TypeOK
        <5>1. run + 1 \in Nat
          BY <5>0, Limits
        <5> QED
          BY <1>0, <3>1, <5>1, Appendable DEF Begin, Resume
      <4>2. Len(entries) \in Nat /\ Len(entries') = Len(entries) + 1
        BY <1>0, <4>1, Grown DEF Append1
      <4> QED
        BY <4>2
    <3>2. CASE \/ Skip \/ Handle \/ Submits \/ Apply \/ ForceMark \/ HaltRun \/ Evaluate \/ TickDone
               \/ SettleRun \/ LastMark \/ Crash \/ RaiseKill \/ RemoveKill \/ UNCHANGED vars
      <4>1. phase = "down" => phase' = "down"
        BY <3>2, HeldAtEnd DEF Skip, Handle, Submits, Submit, Apply, ForceMark, HaltRun, Evaluate, TickDone,
           SettleRun, LastMark, Crash, Exit, RaiseKill, RemoveKill, vars, Accounts, Phased
      <4>2. over => over'
        BY <3>2 DEF Skip, Handle, Submits, Submit, Apply, ForceMark, HaltRun, Evaluate, TickDone,
           SettleRun, LastMark, Crash, RaiseKill, RemoveKill, history, vars
      <4> QED
        BY <4>1, <4>2
    <3> QED
      BY <1>5, <3>1, <3>2 DEF Next, Loop
  <2> QED
    BY <1>2, <1>3, <2>1, <2>2
<1> QED
  BY <1>1, <1>4, <1>5

-----------------------------------------------------------------------------
(* The drawdown. *)

\* A number that no other of a set exceeds is its greatest.
LEMMA MaxIs ==
  ASSUME NEW W, W \subseteq Int, NEW d \in W, \A w \in W : w <= d
  PROVE  Max(W) = d
<1>1. \E x \in W : \A y \in W : x >= y
  <2>1. \A y \in W : d >= y
    OBVIOUS
  <2> QED
    BY <2>1
<1>2. Max(W) \in W /\ \A y \in W : Max(W) >= y
  BY <1>1 DEF Max
<1>3. PICK m \in W : m = Max(W)
  BY <1>2
<1>4. m \in Int /\ d \in Int /\ m >= d /\ m <= d
  BY <1>2, <1>3
<1> QED
  BY <1>3, <1>4

LEMMA MaxOfTwo == \A a \in Int, b \in Int : Max({a, b}) = IF a >= b THEN a ELSE b
<1> SUFFICES ASSUME NEW a \in Int, NEW b \in Int
             PROVE  Max({a, b}) = IF a >= b THEN a ELSE b
  OBVIOUS
<1>1. CASE a >= b
  <2>0. a <= a /\ b <= a
    BY <1>1
  <2>1. a \in {a, b} /\ {a, b} \subseteq Int /\ \A w \in {a, b} : w <= a
    <3>1. \A w \in {a, b} : w = a \/ w = b
      OBVIOUS
    <3>2. \A w \in {a, b} : w <= a
      BY <2>0, <3>1
    <3> QED
      BY <3>2
  <2>2. Max({a, b}) = a
    BY <2>1, MaxIs
  <2> QED
    BY <1>1, <2>2
<1>2. CASE ~ a >= b
  <2>0. a <= b /\ b <= b
    BY <1>2
  <2>1. b \in {a, b} /\ {a, b} \subseteq Int /\ \A w \in {a, b} : w <= b
    <3>1. \A w \in {a, b} : w = a \/ w = b
      OBVIOUS
    <3>2. \A w \in {a, b} : w <= b
      BY <2>0, <3>1
    <3> QED
      BY <3>2
  <2>2. Max({a, b}) = b
    BY <2>1, MaxIs
  <2> QED
    BY <1>2, <2>2
<1> QED
  BY <1>1, <1>2

Scans == [peak : Int, drawdown : Nat]

\* What the pass has found in the marks of a set of places, which begins with
\* the first mark of all.
Found(scan, T) ==
  LET seen == {Min(Marks)} \cup (T \cap Marks)
  IN  /\ \E i \in seen : scan.peak = EquityCurve[i]
      /\ \A i \in seen : EquityCurve[i] <= scan.peak
      /\ \A i \in seen, j \in T \cap Marks :
           i <= j => EquityCurve[i] - EquityCurve[j] <= scan.drawdown
      /\ \/ scan.drawdown = 0
         \/ \E i \in seen, j \in T \cap Marks :
              i <= j /\ scan.drawdown = EquityCurve[i] - EquityCurve[j]

LEMMA CurveType ==
  ASSUME entries \in Seq(Entry)
  PROVE  \A i \in Marks : EquityCurve[i] \in Int /\ EquityCurve[i] = entries[i].equity
  BY Records DEF Marks, EquityCurve, MarkRecord

LEMMA FirstMark ==
  ASSUME entries \in Seq(Entry), Marks # {}
  PROVE  Min(Marks) \in Marks /\ \A k \in Marks : Min(Marks) <= k
<1>1. Marks \subseteq Nat
  BY DEF Marks, OfKind
<1>2. \E x \in Marks : \A y \in Marks : x <= y
  BY <1>1, LeastNumber
<1> QED
  BY <1>2 DEF Min

\* There is one thing to find.
LEMMA FoundOnce ==
  ASSUME entries \in Seq(Entry), Marks # {}, NEW T, NEW s \in Scans, NEW t \in Scans,
         Found(s, T), Found(t, T)
  PROVE  s = t
<1> DEFINE c == EquityCurve
           M == T \cap Marks
           seen == {Min(Marks)} \cup M
<1>1. /\ s.peak \in Int /\ s.drawdown \in Nat /\ t.peak \in Int /\ t.drawdown \in Nat
      /\ s = [peak |-> s.peak, drawdown |-> s.drawdown]
      /\ t = [peak |-> t.peak, drawdown |-> t.drawdown]
  BY DEF Scans
<1>2. /\ \E i \in seen : s.peak = c[i]
      /\ \A i \in seen : c[i] <= s.peak
      /\ \A i \in seen, j \in M : i <= j => c[i] - c[j] <= s.drawdown
      /\ s.drawdown = 0 \/ \E i \in seen, j \in M : i <= j /\ s.drawdown = c[i] - c[j]
  BY DEF Found
<1>3. /\ \E i \in seen : t.peak = c[i]
      /\ \A i \in seen : c[i] <= t.peak
      /\ \A i \in seen, j \in M : i <= j => c[i] - c[j] <= t.drawdown
      /\ t.drawdown = 0 \/ \E i \in seen, j \in M : i <= j /\ t.drawdown = c[i] - c[j]
  BY DEF Found
<1> HIDE DEF c, M, seen
<1>4. s.peak = t.peak
  <2>1. s.peak <= t.peak /\ t.peak <= s.peak
    BY <1>2, <1>3
  <2> QED
    BY <1>1, <2>1
<1>5. s.drawdown <= t.drawdown
  BY <1>1, <1>2, <1>3
<1>6. t.drawdown <= s.drawdown
  BY <1>1, <1>2, <1>3
<1>7. s.drawdown = t.drawdown
  BY <1>1, <1>5, <1>6
<1> QED
  BY <1>1, <1>4, <1>7

LEMMA FoundNext ==
  ASSUME entries \in Seq(Entry), Marks # {}, NEW T \in SUBSET DOMAIN entries, T # {},
         NEW scan \in Scans, Found(scan, T \ {Max(T)})
  PROVE  /\ DrawdownStep(scan, entries[Max(T)]) \in Scans
         /\ Found(DrawdownStep(scan, entries[Max(T)]), T)
<1> DEFINE U == T \ {Max(T)}
<1>1. PICK x \in T : x = Max(T) /\ \A k \in T : k <= x
  <2>1. Len(entries) \in Nat /\ T \subseteq 1 .. Len(entries)
    OBVIOUS
  <2> QED
    BY <2>1, Greatest
<1>2. U = T \ {x}
  BY <1>1
<1> DEFINE c == EquityCurve
           M == U \cap Marks
           seen == {Min(Marks)} \cup M
<1>3. /\ scan.peak \in Int /\ scan.drawdown \in Nat
      /\ \E i \in seen : scan.peak = c[i]
      /\ \A i \in seen : c[i] <= scan.peak
      /\ \A i \in seen, j \in M : i <= j => c[i] - c[j] <= scan.drawdown
      /\ scan.drawdown = 0 \/ \E i \in seen, j \in M : i <= j /\ scan.drawdown = c[i] - c[j]
  BY DEF Found, Scans
<1>4. CASE x \notin Marks
  <2>1. DrawdownStep(scan, entries[x]) = scan
    BY <1>4 DEF DrawdownStep, Marks, OfKind
  <2>2. T \cap Marks = M
    BY <1>2, <1>4
  <2>3. Found(scan, T)
    <3> HIDE DEF c, M
    <3> QED
      BY <1>3, <2>2 DEF Found, c
  <2> QED
    BY <1>1, <2>1, <2>3
<1>5. CASE x \in Marks
  <2>1. T \cap Marks = M \cup {x} /\ {Min(Marks)} \cup (T \cap Marks) = seen \cup {x}
    BY <1>2, <1>5
  <2>2. PICK v \in Int : v = c[x] /\ v = entries[x].equity
    BY <1>5, CurveType
  <2>3. PICK p \in Int, d \in Nat : p = scan.peak /\ d = scan.drawdown
    BY <1>3
  <2> DEFINE q == Max({p, v})
             e == Max({d, q - v})
             s == [peak |-> q, drawdown |-> e]
  <2>4. DrawdownStep(scan, entries[x]) = s
    BY <1>5, <2>2, <2>3 DEF DrawdownStep, Marks, OfKind
  <2>5. q = (IF p >= v THEN p ELSE v) /\ q \in Int
    BY MaxOfTwo
  <2>6. e = (IF d >= q - v THEN d ELSE q - v) /\ e \in Nat
    <3> HIDE DEF q
    <3>1. q - v \in Int /\ e = IF d >= q - v THEN d ELSE q - v
      BY <2>5, MaxOfTwo
    <3> HIDE DEF e
    <3> QED
      BY <2>5, <3>1
  <2> HIDE DEF q, e
  <2>7. \A i \in seen : i \in Nat /\ i <= x /\ c[i] \in Int
    <3>1. \A i \in Marks : i \in Nat
      BY DEF Marks, OfKind
    <3>2. Min(Marks) \in Marks /\ Min(Marks) <= x
      BY <1>5, FirstMark
    <3>3. \A i \in M : i \in Marks /\ i <= x
      BY <1>1
    <3> QED
      BY <3>1, <3>2, <3>3, CurveType
  <2>8. x \in Nat /\ \A i \in M : i \in seen /\ i # x
    BY <1>2, <1>5 DEF Marks, OfKind
  <2> HIDE DEF c, M, seen
  <2>9. \E i \in seen \cup {x} : q = c[i]
    BY <1>3, <2>2, <2>3, <2>5
  <2>10. p <= q /\ v <= q
    BY <2>5
  <2>11. \A i \in seen \cup {x} : c[i] <= q
    <3>1. \A i \in seen : c[i] <= q
      BY <1>3, <2>3, <2>5, <2>7, <2>10
    <3> QED
      BY <2>2, <2>10, <3>1
  <2>12. \A i \in seen \cup {x}, j \in M \cup {x} : i <= j => c[i] - c[j] <= e
    <3> SUFFICES ASSUME NEW i \in seen \cup {x}, NEW j \in M \cup {x}, i <= j PROVE c[i] - c[j] <= e
      OBVIOUS
    <3>1. d <= e /\ q - v <= e
      BY <2>5, <2>6
    <3>2. c[i] \in Int /\ c[j] \in Int /\ c[i] <= q
      BY <2>2, <2>7, <2>8, <2>11
    <3>3. CASE j = x
      <4>0. c[j] = v
        BY <2>2, <3>3
      <4>3. e \in Nat
        BY <2>6
      <4>1. c[j] = v /\ q \in Int /\ e \in Int
        BY <2>5, <4>0, <4>3
      <4>2. c[i] - v <= q - v
        BY <3>2, <4>1
      <4> QED
        BY <3>1, <3>2, <4>1, <4>2
    <3>4. CASE j # x
      <4>1. j \in M /\ i \in seen
        <5>1. j \in M /\ j <= x /\ j \in Nat
          BY <2>7, <2>8, <3>4
        <5>2. i # x
          BY <2>8, <3>4, <5>1
        <5> QED
          BY <5>1, <5>2
      <4>2. c[i] - c[j] <= d
        BY <1>3, <2>3, <4>1
      <4> QED
        BY <2>6, <3>1, <3>2, <4>2
    <3> QED
      BY <3>3, <3>4
  <2>13. e = 0 \/ \E i \in seen \cup {x}, j \in M \cup {x} : i <= j /\ e = c[i] - c[j]
    <3>1. CASE e = d
      BY <1>3, <2>3, <3>1
    <3>2. CASE e = q - v
      <4>1. PICK i \in seen \cup {x} : q = c[i]
        BY <2>9
      <4>2. i <= x
        BY <2>7, <2>8
      <4>3. e = c[i] - c[x]
        BY <2>2, <3>2, <4>1
      <4> QED
        BY <4>2, <4>3
    <3> QED
      BY <2>6, <3>1, <3>2
  <2>14. s.peak = q /\ s.drawdown = e /\ s \in Scans
    BY <2>5, <2>6 DEF Scans
  <2> HIDE DEF s
  <2>15. Found(s, T)
    BY <2>1, <2>9, <2>11, <2>12, <2>13, <2>14 DEF Found, c
  <2> QED
    BY <1>1, <2>4, <2>14, <2>15
<1> QED
  BY <1>4, <1>5

Scan(it, start) ==
  [T \in SUBSET DOMAIN entries |->
     IF T = {} THEN start ELSE DrawdownStep(it[T \ {Max(T)}], entries[Max(T)])]

LEMMA FoundAtStart ==
  ASSUME entries \in Seq(Entry), Marks # {}
  PROVE  LET start == [peak |-> EquityCurve[Min(Marks)], drawdown |-> 0]
         IN  start \in Scans /\ Found(start, {})
<1> DEFINE start == [peak |-> EquityCurve[Min(Marks)], drawdown |-> 0]
<1>1. /\ start.peak = EquityCurve[Min(Marks)] /\ start.drawdown = 0
      /\ start.peak \in Int /\ start \in Scans
  BY FirstMark, CurveType DEF Scans
<1> HIDE DEF start
<1>2. start.peak <= start.peak
  BY <1>1
<1>3. Found(start, {})
  BY <1>1, <1>2 DEF Found
<1> QED
  BY <1>1, <1>3 DEF start

LEMMA PlacesEnd ==
  ASSUME entries \in Seq(Entry)
  PROVE  /\ IsFiniteSet(DOMAIN entries)
         /\ \A T \in SUBSET DOMAIN entries : T # {} => Max(T) \in T
<1>1. Len(entries) \in Nat /\ DOMAIN entries = 1 .. Len(entries)
  OBVIOUS
<1>2. IsFiniteSet(DOMAIN entries)
  BY <1>1, FS_Interval
<1>3. \A T \in SUBSET DOMAIN entries : T # {} => Max(T) \in T
  BY <1>1, Greatest
<1> QED
  BY <1>2, <1>3

\* There is a pass over the journal that finds it.
LEMMA ScanExists ==
  ASSUME entries \in Seq(Entry), Marks # {}
  PROVE  LET start == [peak |-> EquityCurve[Min(Marks)], drawdown |-> 0]
         IN  \E it : it = Scan(it, start)
<1> DEFINE start == [peak |-> EquityCurve[Min(Marks)], drawdown |-> 0]
           D == DOMAIN entries
           Best(T) == CHOOSE s \in Scans : Found(s, T)
           it == [T \in SUBSET D |-> Best(T)]
<1>0. start \in Scans /\ Found(start, {})
  BY FoundAtStart
<1> HIDE DEF start
<1>1. ASSUME NEW T \in SUBSET D PROVE \E s \in Scans : Found(s, T)
  <2> DEFINE C == {R \in SUBSET D : ~ \E s \in Scans : Found(s, R)}
  <2>1. SUFFICES ASSUME C # {} PROVE FALSE
    OBVIOUS
  <2>2. PICK R \in C : \A U \in C : U \subseteq R => U = R
    <3>1. C \subseteq SUBSET D
      OBVIOUS
    <3> HIDE DEF C, D
    <3> QED
      BY <2>1, <3>1, PlacesEnd, SmallestSubset DEF D
  <2>3. R # {}
    BY <1>0
  <2>4. \E s \in Scans : Found(s, R \ {Max(R)})
    <3>1. Max(R) \in R /\ R \ {Max(R)} \in SUBSET D
      BY <2>3, PlacesEnd
    <3>2. R \ {Max(R)} \notin C
      <4> HIDE DEF C
      <4> QED
        BY <2>2, <3>1
    <3> QED
      BY <3>1, <3>2
  <2> QED
    BY <2>3, <2>4, FoundNext
<1>2. ASSUME NEW T \in SUBSET D
      PROVE  Best(T) = IF T = {} THEN start ELSE DrawdownStep(it[T \ {Max(T)}], entries[Max(T)])
  <2>1. Best(T) \in Scans /\ Found(Best(T), T)
    BY <1>1
  <2>2. CASE T = {}
    <3> HIDE DEF Best
    <3> QED
      BY <1>0, <2>1, <2>2, FoundOnce
  <2>3. CASE T # {}
    <3> DEFINE U == T \ {Max(T)}
    <3>1. U \in SUBSET D /\ it[U] = Best(U) /\ Best(U) \in Scans /\ Found(Best(U), U)
      BY <1>1
    <3> HIDE DEF Best, it
    <3>2. /\ DrawdownStep(it[U], entries[Max(T)]) \in Scans
          /\ Found(DrawdownStep(it[U], entries[Max(T)]), T)
      BY <2>3, <3>1, FoundNext
    <3>3. Best(T) = DrawdownStep(it[U], entries[Max(T)])
      BY <2>1, <3>2, FoundOnce
    <3> QED
      BY <2>3, <3>3
  <2> QED
    BY <2>2, <2>3
<1>3. it = Scan(it, start)
  <2>1. Scan(it, start) = [T \in SUBSET D |->
          IF T = {} THEN start ELSE DrawdownStep(it[T \ {Max(T)}], entries[Max(T)])]
    BY DEF Scan
  <2> HIDE DEF Best, it
  <2>2. it = [T \in SUBSET D |-> Best(T)]
    BY DEF it
  <2> QED
    BY <1>2, <2>1, <2>2
<1> QED
  BY <1>3 DEF start

\* The worst fall that one pass over the marks finds is the worst between any two.
LEMMA DrawdownIsWorstFall ==
  ASSUME entries \in Seq(Entry)
  PROVE  MaxDrawdown = WorstFall
<1> DEFINE W == {0} \cup {EquityCurve[p[1]] - EquityCurve[p[2]] : p \in {q \in Marks \X Marks : q[1] <= q[2]}}
<1>1. WorstFall = Max(W)
  BY DEF WorstFall, Marks
<1>2. CASE Marks = {}
  <2>1. W = {0} /\ MaxDrawdown = 0
    BY <1>2 DEF MaxDrawdown, Has, Marks
  <2>2. Max({0}) = 0
    BY MaxIs
  <2> QED
    BY <1>1, <2>1, <2>2
<1>3. CASE Marks # {}
  <2> DEFINE start == [peak |-> EquityCurve[Min(Marks)], drawdown |-> 0]
             D == DOMAIN entries
             it == CHOOSE g : g = Scan(g, start)
  <2>1. MaxDrawdown = it[D].drawdown
    BY <1>3 DEF MaxDrawdown, Has, Marks, FoldLeft, MapThenFoldSet, Scan
  <2>2. IsFiniteSet(D) /\ \A T \in SUBSET D : T # {} => Max(T) \in T
    BY PlacesEnd
  <2>3. start \in Scans /\ Found(start, {})
    BY <1>3, FoundAtStart
  <2>4. \E g : g = Scan(g, start)
    BY <1>3, ScanExists
  <2> HIDE DEF start
  <2>5. it = Scan(it, start)
    BY <2>4
  <2> HIDE DEF it
  <2> DEFINE Fine(T) == it[T] \in Scans /\ Found(it[T], T)
  <2>6. Fine(D)
    <3> DEFINE C == {T \in SUBSET D : ~Fine(T)}
    <3>1. SUFFICES ASSUME C # {} PROVE FALSE
      OBVIOUS
    <3>2. PICK T \in C : \A U \in C : U \subseteq T => U = T
      <4>1. C \subseteq SUBSET D
        OBVIOUS
      <4> HIDE DEF C, D
      <4> QED
        BY <2>2, <3>1, <4>1, SmallestSubset
    <3>3. it[T] = IF T = {} THEN start ELSE DrawdownStep(it[T \ {Max(T)}], entries[Max(T)])
      <4>1. T \in SUBSET D
        OBVIOUS
      <4> QED
        BY <2>5, <4>1 DEF Scan
    <3>4. CASE T = {}
      BY <2>3, <3>3, <3>4
    <3>5. CASE T # {}
      <4>1. Fine(T \ {Max(T)})
        BY <2>2, <3>2, <3>5
      <4> QED
        BY <1>3, <3>3, <3>5, <4>1, FoundNext
    <3> QED
      BY <3>4, <3>5
  <2>7. D \cap Marks = Marks /\ {Min(Marks)} \cup (D \cap Marks) = Marks
    <3>1. D \cap Marks = Marks
      BY DEF Marks, OfKind
    <3> HIDE DEF D
    <3> QED
      BY <1>3, <3>1, FirstMark
  <2> DEFINE d == it[D].drawdown
             c == EquityCurve
  <2>8. /\ d \in Nat /\ \A i, j \in Marks : i <= j => c[i] - c[j] <= d
        /\ d = 0 \/ \E i \in Marks, j \in Marks : i <= j /\ d = c[i] - c[j]
    BY <2>6, <2>7 DEF Found, Scans
  <2> HIDE DEF d
  <2>9. \A i \in Marks : c[i] \in Int
    BY CurveType
  <2> HIDE DEF c
  <2> DEFINE V == {0} \cup {c[p[1]] - c[p[2]] : p \in {q \in Marks \X Marks : q[1] <= q[2]}}
  <2>10. V \subseteq Int /\ \A w \in V : w <= d
    BY <2>8, <2>9
  <2>11. d \in V
    <3>1. CASE d = 0
      BY <3>1
    <3>2. ASSUME NEW i \in Marks, NEW j \in Marks, i <= j, d = c[i] - c[j] PROVE d \in V
      <4>1. <<i, j>> \in {q \in Marks \X Marks : q[1] <= q[2]}
        BY <3>2
      <4> QED
        BY <3>2, <4>1
    <3> QED
      BY <2>8, <3>1, <3>2
  <2>12. Max(V) = d
    <3> HIDE DEF V
    <3> QED
      BY <2>10, <2>11, MaxIs
  <2> QED
    BY <1>1, <2>1, <2>12 DEF c, d
<1> QED
  BY <1>2, <1>3

-----------------------------------------------------------------------------
(* The theorems about the report. *)

\* The fees of some fills are those of all unless one of the others cost something.
LEMMA FeesOver ==
  ASSUME Types, NEW R \in SUBSET Fills
  PROVE  FeesFromFills # SumFunctionOnSet(FeesOf, R) <=> \E i \in Fills \ R : entries[i].fee > 0
<1>1. /\ IsFiniteSet(Fills)
      /\ \A i \in Fills : FeesOf[i] \in Nat /\ FeesOf[i] = entries[i].fee
  BY KindsFinite, FeesType DEF Types, Fills, FeesOf
<1>2. CASE \A i \in Fills \ R : FeesOf[i] = 0
  <2>1. SumFunctionOnSet(FeesOf, Fills) = SumFunctionOnSet(FeesOf, R)
    <3>1. \A i \in Fills : FeesOf[i] \in Int
      BY <1>1
    <3> QED
      BY <1>1, <1>2, <3>1, SumWithoutZeros
  <2> QED
    BY <1>1, <1>2, <2>1 DEF FeesFromFills
<1>3. ASSUME NEW i \in Fills \ R, FeesOf[i] # 0
      PROVE  FeesFromFills # SumFunctionOnSet(FeesOf, R) /\ entries[i].fee > 0
  <2> DEFINE S == Fills \ {i}
  <2>1. IsFiniteSet(S) /\ R \in SUBSET S /\ \A k \in S : FeesOf[k] \in Nat
    BY <1>1, FS_Subset
  <2>2. SumFunctionOnSet(FeesOf, R) <= SumFunctionOnSet(FeesOf, S)
    BY <2>1, SumOfFewer
  <2>3. SumFunctionOnSet(FeesOf, Fills) = FeesOf[i] + SumFunctionOnSet(FeesOf, S)
    <3>1. \A k \in Fills : FeesOf[k] \in Int
      BY <1>1
    <3> QED
      BY <1>1, <3>1, SumWithout
  <2>4. SumFunctionOnSet(FeesOf, S) \in Nat /\ SumFunctionOnSet(FeesOf, R) \in Nat
    <3>1. IsFiniteSet(R) /\ \A k \in R : FeesOf[k] \in Nat
      BY <1>1, FS_Subset
    <3> QED
      BY <2>1, <3>1, SumIsNat
  <2> HIDE DEF S
  <2>5. FeesOf[i] \in Nat /\ FeesOf[i] > 0 /\ entries[i].fee = FeesOf[i]
    BY <1>1, <1>3
  <2> QED
    BY <2>2, <2>3, <2>4, <2>5 DEF FeesFromFills
<1> QED
  BY <1>1, <1>2, <1>3

LEMMA FeesFoundWrong ==
  ASSUME Types, EndsFees
  PROVE  "fees" \in EngineMismatch <=> FeesSinceEnd
<1>0. entries \in Seq(Entry)
  BY DEF Types
<1>1. "fees" \in EngineMismatch <=> FeesFromFills # End.fees
  BY DEF EngineMismatch
<1> DEFINE E == OfKind("run_end")
           R == {j \in Fills : \E e \in E : j < e}
<1>2. End.fees = SumFunctionOnSet(FeesOf, R)
  <2>1. CASE E = {}
    <3>1. R = {} /\ End.fees = 0
      BY <2>1 DEF End, Has
    <3> QED
      BY <3>1, SumOfNone
  <2>2. CASE E # {}
    <3>1. PICK e \in E : e = Max(E) /\ \A i \in E : i <= e
      BY <1>0, <2>2, LastPlace
    <3>2. R = {j \in Fills : j < e}
      <4>1. \A i \in E : i \in Nat
        BY <1>0 DEF OfKind
      <4>2. \A j \in Fills : j \in Nat
        BY <1>0 DEF Fills, OfKind
      <4> HIDE DEF E
      <4> QED
        BY <3>1, <4>1, <4>2
    <3>3. End.fees = entries[e].fees
      BY <2>2, <3>1 DEF End, Has, LastOf
    <3> QED
      BY <3>2, <3>3 DEF EndsFees
  <2> QED
    BY <2>1, <2>2
<1>3. \A i \in Fills : i \notin R <=> \A j \in E : j < i
  <2>1. \A j \in E : j \in Nat /\ j \notin Fills
    BY <1>0 DEF Fills, OfKind
  <2>2. \A i \in Fills : i \in Nat
    BY <1>0 DEF Fills, OfKind
  <2> HIDE DEF E
  <2>3. \A i \in Fills, j \in E : j < i <=> ~ i < j
    <3> SUFFICES ASSUME NEW i \in Fills, NEW j \in E PROVE j < i <=> ~ i < j
      OBVIOUS
    <3>1. i # j
      BY <2>1
    <3> QED
      BY <2>1, <2>2, <3>1
  <2> QED
    BY <2>3
<1>4. R \in SUBSET Fills
  OBVIOUS
<1> HIDE DEF R
<1>5. FeesFromFills # SumFunctionOnSet(FeesOf, R) <=> \E i \in Fills \ R : entries[i].fee > 0
  BY <1>4, FeesOver
<1> QED
  BY <1>1, <1>2, <1>3, <1>5 DEF FeesSinceEnd

LEMMA ReportedInit == Init => Reported
<1> SUFFICES ASSUME Init PROVE Reported
  OBVIOUS
<1>1. \A i \in DOMAIN entries : FALSE
  BY DEF Init
<1>2. \A kind : OfKind(kind) = {}
  BY <1>1 DEF OfKind
<1>3. phase = "down" /\ halted = "no" /\ entries = << >>
  BY DEF Init
<1>4. Closed /\ OwnSettlement /\ LastMarked
  BY <1>2, <1>3 DEF Closed, OwnSettlement, LastMarked, Has
<1>5. EndsFees /\ SettledEnd /\ AtRest
  BY <1>2, <1>3 DEF EndsFees, SettledEnd, AtRest, Has
<1> QED
  BY <1>4, <1>5, AccountsInit DEF Reported

LEMMA ReportedNext == Reported /\ [Next]_vars => Reported'
<1> SUFFICES ASSUME Reported, [Next]_vars PROVE Reported'
  OBVIOUS
<1>1. Accounts /\ Closed /\ OwnSettlement /\ LastMarked /\ EndsFees /\ SettledEnd /\ AtRest
  BY DEF Reported
<1>2. Accounts' /\ Closed' /\ OwnSettlement' /\ LastMarked'
  BY <1>1, AccountsNext, ClosedKept, OwnSettlementKept, LastMarkedKept
<1>3. EndsFees' /\ SettledEnd' /\ AtRest'
  BY <1>1, EndsFeesKept, SettledEndKept, AtRestKept
<1> QED
  BY <1>2, <1>3 DEF Reported

LEMMA ReportedInv == Spec => []Reported
  BY ReportedInit, ReportedNext, PTL DEF Spec

(***************************************************************************)
(* The dashboard says finished or halted only of journals that no process  *)
(* works on; finished runs came to the end, and of the halted ones only    *)
(* those that a loss breaker halted may be settled.                        *)
(***************************************************************************)
THEOREM StateShown == Spec => []StateIsTrue
<1>1. Reported => StateIsTrue
  <2> SUFFICES ASSUME Reported PROVE StateIsTrue
    OBVIOUS
  <2>1. RunState \in {"finished", "halted"} => entries # << >> /\ Last(entries).kind = "run_end"
    BY DEF RunState
  <2>2. RunState = "finished" => End.halted = "no"
    BY DEF RunState
  <2>3. RunState = "halted" => End.halted # "no"
    BY DEF RunState
  <2>4. AtRest /\ entries \in Seq(Entry)
    BY DEF Reported, Accounts, Types
  <2>5. Has("run_end") => End.halted \in {"no", "kill", "loss"}
    <3>1. Has("run_end") => LastOf("run_end") \in EndRecord
      BY <2>4, LastPlace, Records DEF Has, LastOf
    <3> QED
      BY <3>1 DEF End, EndRecord
  <2>6. End.halted \in {"no", "kill", "loss"}
    BY <2>5 DEF End
  <2> QED
    BY <2>1, <2>2, <2>3, <2>4, <2>6 DEF AtRest, StateIsTrue
<1> QED
  BY <1>1, ReportedInv, PTL

(***************************************************************************)
(* The report of a journal that ends with a run_end agrees with the fills  *)
(* and accounts for every cent, whatever halts, crashes and resumes are in *)
(* it; of the other journals it finds the fees wrong when fees were paid   *)
(* since the last run_end; and its drawdown is the worst fall.             *)
(***************************************************************************)
THEOREM ReportIsRight == Spec => []ReportAgrees
<1>1. Reported => ReportAgrees
  <2> SUFFICES ASSUME Reported PROVE ReportAgrees
    OBVIOUS
  <2>1. /\ Types /\ entries \in Seq(Entry) /\ EndsFees /\ SettledEnd /\ AtRest
    BY DEF Reported, Accounts, Types
  <2>2. "fees" \in EngineMismatch <=> FeesSinceEnd
    BY <2>1, FeesFoundWrong
  <2>3. "realized" \notin EngineMismatch
    BY <2>1 DEF EngineMismatch, SettledEnd, End
  <2>4. MaxDrawdown = WorstFall
    BY <2>1, DrawdownIsWorstFall
  <2>5. ASSUME entries # << >>, Last(entries).kind = "run_end" PROVE EngineMismatch = {}
    <3>1. PICK n \in Nat : n = Len(entries) /\ n > 0
      BY <2>1, <2>5
    <3>2. n \in OfKind("run_end") /\ \A i \in Fills : ~ n < i
      BY <2>1, <2>5, <3>1 DEF Last, OfKind, Fills
    <3>3. ~FeesSinceEnd
      BY <3>2 DEF FeesSinceEnd
    <3>4. EngineMismatch \subseteq {"fees", "realized"}
      BY DEF EngineMismatch
    <3> QED
      BY <2>2, <2>3, <3>3, <3>4
  <2> QED
    BY <2>1, <2>2, <2>3, <2>4, <2>5 DEF AtRest, ReportAgrees
<1> QED
  BY <1>1, ReportedInv, PTL
=============================================================================
