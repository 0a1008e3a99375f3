-------------------------------- MODULE Sums --------------------------------
(***************************************************************************)
(* Facts about finite sets and about sums over them, for the modules that  *)
(* prove theorems.  Induction is by the smallest counterexample, which the *)
(* library's theorem on well-founded orders provides.                      *)
(***************************************************************************)
EXTENDS Integers, Functions, FiniteSetTheorems, TLAPS

\* Of the subsets of a finite set that are in C, one is smallest.
LEMMA SmallestSubset ==
  ASSUME NEW S, IsFiniteSet(S), NEW C, C \subseteq SUBSET S, C # {}
  PROVE  \E T \in C : \A U \in C : U \subseteq T => U = T
<1>1. IsWellFoundedOn(StrictSubsetOrdering(S), FiniteSubsetsOf(S))
  BY FS_StrictSubsetOrderingWellFounded
<1>2. FiniteSubsetsOf(S) = SUBSET S
  BY FS_FiniteSubsetsOfFinite
<1>3. PICK T \in C : \A U \in C : <<U, T>> \notin StrictSubsetOrdering(S)
  BY <1>1, <1>2, WFMin
<1> QED
  BY <1>3 DEF StrictSubsetOrdering

\* Of the natural numbers in a set, one is least.
LEMMA LeastNumber ==
  ASSUME NEW C, C \subseteq Nat, C # {}
  PROVE  \E n \in C : \A m \in C : n <= m
<1>1. PICK c \in C : TRUE
  OBVIOUS
<1> DEFINE D == {0 .. m : m \in {k \in C : k <= c}}
<1>2. /\ IsFiniteSet(0 .. c) /\ D \subseteq SUBSET (0 .. c) /\ D # {}
  <2>1. IsFiniteSet(0 .. c)
    BY FS_Interval
  <2>2. 0 .. c \in D
    OBVIOUS
  <2> QED
    BY <2>1, <2>2
<1>3. PICK T \in D : \A U \in D : U \subseteq T => U = T
  <2> DEFINE S == 0 .. c
  <2>1. IsFiniteSet(S) /\ D \subseteq SUBSET S /\ D # {}
    BY <1>2
  <2> HIDE DEF D, S
  <2> QED
    BY <2>1, SmallestSubset
<1>4. PICK n \in C : n <= c /\ T = 0 .. n
  OBVIOUS
<1>5. SUFFICES ASSUME NEW m \in C, m < n PROVE FALSE
  BY <1>4
<1>6. 0 .. m \in D /\ 0 .. m \subseteq T /\ n \in T /\ n \notin 0 .. m
  BY <1>4, <1>5
<1> QED
  BY <1>3, <1>6

-----------------------------------------------------------------------------
(* SumFunctionOnSet is recursive.  What it chooses from a set, and the     *)
(* function that it goes by:                                               *)

Pick(S) == CHOOSE x \in S : TRUE

Body(f, S, it) ==
  [T \in SUBSET S |-> IF T = {} THEN 0 ELSE f[Pick(T)] + it[T \ {Pick(T)}]]

Iter(f, S) == CHOOSE it : it = Body(f, S, it)

LEMMA SumIsIter ==
  ASSUME NEW f, NEW S
  PROVE  SumFunctionOnSet(f, S) = Iter(f, S)[S]
  BY DEF SumFunctionOnSet, FoldFunctionOnSet, MapThenFoldSet, Iter, Body, Pick

\* A choice, once made, is made again in every subset that it is made from.
LEMMA PickIsMember ==
  ASSUME NEW S, S # {}
  PROVE  Pick(S) \in S
  BY DEF Pick

\* Functions with that body agree where both have a value.
LEMMA BodiesAgree ==
  ASSUME NEW f, NEW S, IsFiniteSet(S), NEW R, R \subseteq S,
         NEW g, g = Body(f, S, g), NEW h, h = Body(f, R, h)
  PROVE  g[R] = h[R]
<1>1. SUFFICES ASSUME g[R] # h[R] PROVE FALSE
  OBVIOUS
<1> DEFINE C == {T \in SUBSET R : g[T] # h[T]}
<1>2. C \subseteq SUBSET R /\ C # {} /\ IsFiniteSet(R)
  BY <1>1, FS_Subset
<1>3. PICK T \in C : \A U \in C : U \subseteq T => U = T
  <2> HIDE DEF C
  <2> QED
    BY <1>2, SmallestSubset
<1>4. T \in SUBSET R /\ T \in SUBSET S
  OBVIOUS
<1>5. /\ g[T] = IF T = {} THEN 0 ELSE f[Pick(T)] + g[T \ {Pick(T)}]
      /\ h[T] = IF T = {} THEN 0 ELSE f[Pick(T)] + h[T \ {Pick(T)}]
  BY <1>4 DEF Body
<1>6. T # {}
  BY <1>5
<1> DEFINE U == T \ {Pick(T)}
<1>7. U \subseteq T /\ U # T
  BY <1>6, PickIsMember
<1>8. g[U] = h[U]
  BY <1>3, <1>4, <1>7
<1> QED
  BY <1>5, <1>6, <1>8

\* The function is there.
LEMMA IterIsBody ==
  ASSUME NEW f, NEW S, IsFiniteSet(S)
  PROVE  Iter(f, S) = Body(f, S, Iter(f, S))
<1> DEFINE Fine(T) == Iter(f, T) = Body(f, T, Iter(f, T))
           C == {T \in SUBSET S : ~Fine(T)}
<1>1. SUFFICES ASSUME C # {} PROVE FALSE
  BY DEF Body
<1>2. PICK T \in C : \A U \in C : U \subseteq T => U = T
  <2>1. C \subseteq SUBSET S
    OBVIOUS
  <2> HIDE DEF C
  <2> QED
    BY <1>1, <2>1, SmallestSubset
<1>3. \A U \in SUBSET T : U # T => Fine(U)
  <2> HIDE DEF Fine
  <2> QED
    BY <1>2
<1>4. IsFiniteSet(T)
  BY FS_Subset
<1> HIDE DEF C, Fine
<1> DEFINE Rest(U) == U \ {Pick(U)}
           it == [U \in SUBSET T |->
                    IF U = {} THEN 0 ELSE f[Pick(U)] + Iter(f, Rest(U))[Rest(U)]]
<1>5. \A U \in SUBSET T : U # {} => Rest(U) \in SUBSET T /\ Rest(U) # T /\ Rest(U) # U
  BY PickIsMember
<1> HIDE DEF Rest
<1>6. \A U \in SUBSET T : U # T => it[U] = Iter(f, U)[U]
  <2> SUFFICES ASSUME NEW U \in SUBSET T, U # T PROVE it[U] = Iter(f, U)[U]
    OBVIOUS
  <2>1. Iter(f, U) = Body(f, U, Iter(f, U))
    BY <1>3 DEF Fine
  <2>2. Iter(f, U)[U] = IF U = {} THEN 0 ELSE f[Pick(U)] + Iter(f, U)[Rest(U)]
    <3>1. U \in SUBSET U
      OBVIOUS
    <3> DEFINE g == Iter(f, U)
    <3>2. g = [V \in SUBSET U |-> IF V = {} THEN 0 ELSE f[Pick(V)] + g[V \ {Pick(V)}]]
      BY <2>1 DEF Body
    <3> HIDE DEF g
    <3>3. g[U] = IF U = {} THEN 0 ELSE f[Pick(U)] + g[U \ {Pick(U)}]
      BY <3>1, <3>2
    <3> QED
      BY <3>3 DEF g, Rest
  <2>3. ASSUME U # {} PROVE Iter(f, U)[Rest(U)] = Iter(f, Rest(U))[Rest(U)]
    <3>1. Rest(U) \subseteq U /\ Rest(U) \in SUBSET T /\ Rest(U) # T
      BY <1>5, <2>3 DEF Rest
    <3>2. Iter(f, Rest(U)) = Body(f, Rest(U), Iter(f, Rest(U)))
      BY <1>3, <3>1 DEF Fine
    <3>3. IsFiniteSet(U)
      BY <1>4, FS_Subset
    <3> QED
      BY <2>1, <3>1, <3>2, <3>3, BodiesAgree
  <2> QED
    BY <2>2, <2>3
<1>7. it = Body(f, T, it)
  <2>1. \A U \in SUBSET T : U # {} => Iter(f, Rest(U))[Rest(U)] = it[Rest(U)]
    BY <1>5, <1>6
  <2>2. it = [U \in SUBSET T |-> IF U = {} THEN 0 ELSE f[Pick(U)] + it[Rest(U)]]
    BY <2>1
  <2> HIDE DEF it
  <2> QED
    BY <2>2 DEF Body, Rest
<1>8. Fine(T)
  <2> HIDE DEF it
  <2> QED
    BY <1>7 DEF Iter, Fine
<1> QED
  BY <1>2, <1>8 DEF C

-----------------------------------------------------------------------------
(* What is known of sums. *)

\* The sum over no element.
LEMMA SumOfNone ==
  ASSUME NEW f
  PROVE  SumFunctionOnSet(f, {}) = 0
<1> DEFINE g == Iter(f, {})
<1>1. g = Body(f, {}, g)
  BY FS_EmptySet, IterIsBody
<1> HIDE DEF g
<1>2. g[{}] = 0
  BY <1>1 DEF Body
<1> QED
  BY <1>2, SumIsIter DEF g

\* The element that is picked can be taken out of a sum.
LEMMA SumWithoutPick ==
  ASSUME NEW f, NEW S, IsFiniteSet(S), S # {}
  PROVE  SumFunctionOnSet(f, S) = f[Pick(S)] + SumFunctionOnSet(f, S \ {Pick(S)})
<1> DEFINE g == Iter(f, S)
           R == S \ {Pick(S)}
           h == Iter(f, R)
<1>1. IsFiniteSet(R)
  BY FS_RemoveElement
<1>2. g = Body(f, S, g) /\ h = Body(f, R, h)
  BY <1>1, IterIsBody
<1>3. g[R] = h[R]
  <2> HIDE DEF g, h
  <2> QED
    BY <1>2, BodiesAgree
<1>4. g[S] = f[Pick(S)] + g[R]
  <2> HIDE DEF g, h
  <2> QED
    BY <1>2 DEF Body
<1> QED
  BY <1>3, <1>4, SumIsIter

LEMMA SumIsInt ==
  ASSUME NEW S, IsFiniteSet(S), NEW f, \A x \in S : f[x] \in Int
  PROVE  SumFunctionOnSet(f, S) \in Int
<1> DEFINE C == {T \in SUBSET S : SumFunctionOnSet(f, T) \notin Int}
<1>1. SUFFICES ASSUME C # {} PROVE FALSE
  OBVIOUS
<1>2. PICK T \in C : \A U \in C : U \subseteq T => U = T
  <2>1. C \subseteq SUBSET S
    OBVIOUS
  <2> HIDE DEF C
  <2> QED
    BY <1>1, <2>1, SmallestSubset
<1>3. T # {}
  BY SumOfNone
<1>4. IsFiniteSet(T)
  BY FS_Subset
<1> DEFINE U == T \ {Pick(T)}
<1>5. SumFunctionOnSet(f, T) = f[Pick(T)] + SumFunctionOnSet(f, U)
  BY <1>3, <1>4, SumWithoutPick
<1>6. Pick(T) \in T /\ U \in SUBSET S /\ U \subseteq T /\ U # T
  BY <1>3, PickIsMember
<1>7. SumFunctionOnSet(f, U) \in Int
  BY <1>2, <1>6
<1> QED
  BY <1>5, <1>6, <1>7

\* Any element can be taken out of a sum.
LEMMA SumWithout ==
  ASSUME NEW S, IsFiniteSet(S), NEW f, \A y \in S : f[y] \in Int, NEW x \in S
  PROVE  SumFunctionOnSet(f, S) = f[x] + SumFunctionOnSet(f, S \ {x})
<1> DEFINE Sum(T) == SumFunctionOnSet(f, T)
           C == {T \in SUBSET S : \E y \in T : Sum(T) # f[y] + Sum(T \ {y})}
<1>1. SUFFICES ASSUME C # {} PROVE FALSE
  OBVIOUS
<1>2. PICK T \in C : \A U \in C : U \subseteq T => U = T
  <2>1. C \subseteq SUBSET S
    OBVIOUS
  <2> HIDE DEF C
  <2> QED
    BY <1>1, <2>1, SmallestSubset
<1>3. \A U \in SUBSET T : U # T => \A y \in U : Sum(U) = f[y] + Sum(U \ {y})
  <2> HIDE DEF Sum
  <2> QED
    BY <1>2
<1>4. \A U \in SUBSET S : IsFiniteSet(U) /\ Sum(U) \in Int
  <2> SUFFICES ASSUME NEW U \in SUBSET S PROVE IsFiniteSet(U) /\ Sum(U) \in Int
    OBVIOUS
  <2>1. IsFiniteSet(U)
    BY FS_Subset
  <2> QED
    BY <2>1, SumIsInt
<1>5. PICK y \in T : Sum(T) # f[y] + Sum(T \ {y})
  OBVIOUS
<1> DEFINE p == Pick(T)
<1>6. p \in T /\ Sum(T) = f[p] + Sum(T \ {p})
  BY <1>4, <1>5, PickIsMember, SumWithoutPick
<1> HIDE DEF Sum, p
<1>7. p # y
  BY <1>5, <1>6
<1>8. /\ Sum(T \ {p}) = f[y] + Sum((T \ {p}) \ {y})
      /\ Sum(T \ {y}) = f[p] + Sum((T \ {y}) \ {p})
  BY <1>3, <1>5, <1>6, <1>7
<1> DEFINE R == (T \ {p}) \ {y}
<1>9. (T \ {y}) \ {p} = R
  OBVIOUS
<1>10. f[y] \in Int /\ f[p] \in Int /\ Sum(R) \in Int
  <2>1. T \in SUBSET S /\ y \in S /\ p \in S /\ R \in SUBSET S
    BY <1>2, <1>5, <1>6
  <2> QED
    BY <1>4, <2>1
<1> HIDE DEF R
<1>11. Sum(T) = f[p] + (f[y] + Sum(R)) /\ Sum(T \ {y}) = f[p] + Sum(R)
  BY <1>6, <1>8, <1>9 DEF R
<1>12. f[p] + (f[y] + Sum(R)) = f[y] + (f[p] + Sum(R))
  BY <1>10
<1> QED
  BY <1>5, <1>11, <1>12

LEMMA SumWith ==
  ASSUME NEW S, IsFiniteSet(S), NEW x, x \notin S,
         NEW f, \A y \in S \cup {x} : f[y] \in Int
  PROVE  SumFunctionOnSet(f, S \cup {x}) = f[x] + SumFunctionOnSet(f, S)
<1>1. IsFiniteSet(S \cup {x}) /\ (S \cup {x}) \ {x} = S
  BY FS_AddElement
<1> QED
  BY <1>1, SumWithout

\* Sums compare as their terms do.
LEMMA SumIsMonotone ==
  ASSUME NEW S, IsFiniteSet(S),
         NEW f, NEW g, \A x \in S : f[x] \in Int /\ g[x] \in Int /\ f[x] <= g[x]
  PROVE  SumFunctionOnSet(f, S) <= SumFunctionOnSet(g, S)
<1> DEFINE C == {T \in SUBSET S : ~(SumFunctionOnSet(f, T) <= SumFunctionOnSet(g, T))}
<1>1. SUFFICES ASSUME C # {} PROVE FALSE
  OBVIOUS
<1>2. PICK T \in C : \A U \in C : U \subseteq T => U = T
  <2>1. C \subseteq SUBSET S
    OBVIOUS
  <2> HIDE DEF C
  <2> QED
    BY <1>1, <2>1, SmallestSubset
<1>3. T # {}
  BY SumOfNone
<1>4. PICK x \in T : TRUE
  BY <1>3
<1> DEFINE U == T \ {x}
<1>5. IsFiniteSet(T) /\ IsFiniteSet(U)
  BY FS_Subset
<1>6. /\ SumFunctionOnSet(f, T) = f[x] + SumFunctionOnSet(f, U)
      /\ SumFunctionOnSet(g, T) = g[x] + SumFunctionOnSet(g, U)
  BY <1>5, SumWithout
<1>7. SumFunctionOnSet(f, U) \in Int /\ SumFunctionOnSet(g, U) \in Int
  BY <1>5, SumIsInt
<1>8. SumFunctionOnSet(f, U) <= SumFunctionOnSet(g, U)
  BY <1>2, <1>4
<1> QED
  BY <1>6, <1>7, <1>8

LEMMA SumOfEqual ==
  ASSUME NEW S, IsFiniteSet(S),
         NEW f, NEW g, \A x \in S : f[x] \in Int /\ f[x] = g[x]
  PROVE  SumFunctionOnSet(f, S) = SumFunctionOnSet(g, S)
<1>1. /\ SumFunctionOnSet(f, S) <= SumFunctionOnSet(g, S)
      /\ SumFunctionOnSet(g, S) <= SumFunctionOnSet(f, S)
  BY SumIsMonotone
<1>2. SumFunctionOnSet(f, S) \in Int /\ SumFunctionOnSet(g, S) \in Int
  BY SumIsInt
<1> QED
  BY <1>1, <1>2

\* Terms that are not negative can be left out of a sum for less.
LEMMA SumOfFewer ==
  ASSUME NEW S, IsFiniteSet(S), NEW f, \A x \in S : f[x] \in Nat, NEW R \in SUBSET S
  PROVE  SumFunctionOnSet(f, R) <= SumFunctionOnSet(f, S)
<1> DEFINE C == {T \in SUBSET S : R \subseteq T /\ ~(SumFunctionOnSet(f, R) <= SumFunctionOnSet(f, T))}
<1>1. SUFFICES ASSUME C # {} PROVE FALSE
  OBVIOUS
<1>2. PICK T \in C : \A U \in C : U \subseteq T => U = T
  <2>1. C \subseteq SUBSET S
    OBVIOUS
  <2> HIDE DEF C
  <2> QED
    BY <1>1, <2>1, SmallestSubset
<1>3. \A U \in SUBSET S : SumFunctionOnSet(f, U) \in Int
  <2> SUFFICES ASSUME NEW U \in SUBSET S PROVE SumFunctionOnSet(f, U) \in Int
    OBVIOUS
  <2>1. IsFiniteSet(U)
    BY FS_Subset
  <2> QED
    BY <2>1, SumIsInt
<1>4. PICK x \in T : x \notin R
  BY <1>3
<1> DEFINE U == T \ {x}
<1>5. IsFiniteSet(T)
  BY FS_Subset
<1>6. SumFunctionOnSet(f, T) = f[x] + SumFunctionOnSet(f, U)
  BY <1>5, SumWithout
<1>7. SumFunctionOnSet(f, R) <= SumFunctionOnSet(f, U)
  BY <1>2, <1>4
<1>8. f[x] \in Nat /\ SumFunctionOnSet(f, U) \in Int /\ SumFunctionOnSet(f, R) \in Int
  BY <1>3
<1>9. SumFunctionOnSet(f, R) <= SumFunctionOnSet(f, T)
  BY <1>6, <1>7, <1>8
<1> QED
  BY <1>9

LEMMA SumIsNat ==
  ASSUME NEW S, IsFiniteSet(S), NEW f, \A x \in S : f[x] \in Nat
  PROVE  SumFunctionOnSet(f, S) \in Nat
<1>1. SumFunctionOnSet(f, {}) <= SumFunctionOnSet(f, S)
  BY SumOfFewer
<1>2. SumFunctionOnSet(f, S) \in Int
  BY SumIsInt
<1> QED
  BY <1>1, <1>2, SumOfNone

\* A sum of terms that are not negative shrinks with its terms and its set,
LEMMA SumShrinks ==
  ASSUME NEW S, IsFiniteSet(S), NEW f, NEW g,
         \A x \in S : f[x] \in Nat /\ g[x] \in Nat /\ g[x] <= f[x], NEW R \in SUBSET S
  PROVE  SumFunctionOnSet(g, R) <= SumFunctionOnSet(f, S)
<1>1. SumFunctionOnSet(g, R) <= SumFunctionOnSet(g, S)
  BY SumOfFewer
<1>2. SumFunctionOnSet(g, S) <= SumFunctionOnSet(f, S)
  BY SumIsMonotone
<1>3. IsFiniteSet(R) /\ \A x \in R : g[x] \in Nat
  BY FS_Subset
<1>4. /\ SumFunctionOnSet(g, R) \in Nat /\ SumFunctionOnSet(g, S) \in Nat
      /\ SumFunctionOnSet(f, S) \in Nat
  BY <1>3, SumIsNat
<1> QED
  BY <1>1, <1>2, <1>4

\* and by as much as one of them does.
LEMMA SumDrops ==
  ASSUME NEW S, IsFiniteSet(S), NEW f, NEW g,
         \A x \in S : f[x] \in Nat /\ g[x] \in Nat /\ g[x] <= f[x], NEW R \in SUBSET S,
         NEW i \in S, NEW d \in Nat, g[i] + d <= f[i]
  PROVE  SumFunctionOnSet(g, R) + d <= SumFunctionOnSet(f, S)
<1> DEFINE T == S \ {i}
<1>1. IsFiniteSet(T) /\ \A x \in T : f[x] \in Nat /\ g[x] \in Nat
  BY FS_RemoveElement
<1>2. /\ SumFunctionOnSet(g, S) = g[i] + SumFunctionOnSet(g, T)
      /\ SumFunctionOnSet(f, S) = f[i] + SumFunctionOnSet(f, T)
  BY SumWithout
<1>3. SumFunctionOnSet(g, T) <= SumFunctionOnSet(f, T)
  BY <1>1, SumIsMonotone
<1>4. SumFunctionOnSet(g, R) <= SumFunctionOnSet(g, S)
  BY SumOfFewer
<1>5. /\ SumFunctionOnSet(g, R) \in Nat /\ SumFunctionOnSet(g, T) \in Nat
      /\ SumFunctionOnSet(f, T) \in Nat
  <2>1. IsFiniteSet(R) /\ \A x \in R : g[x] \in Nat
    BY FS_Subset
  <2> QED
    BY <1>1, <2>1, SumIsNat
<1> QED
  BY <1>2, <1>3, <1>4, <1>5

\* Terms that are zero can be left out of a sum.
LEMMA SumWithoutZeros ==
  ASSUME NEW S, IsFiniteSet(S), NEW f, \A x \in S : f[x] \in Int,
         NEW R \in SUBSET S, \A x \in S \ R : f[x] = 0
  PROVE  SumFunctionOnSet(f, S) = SumFunctionOnSet(f, R)
<1> DEFINE C == {T \in SUBSET S : R \subseteq T /\ SumFunctionOnSet(f, T) # SumFunctionOnSet(f, R)}
<1>1. SUFFICES ASSUME C # {} PROVE FALSE
  OBVIOUS
<1>2. PICK T \in C : \A U \in C : U \subseteq T => U = T
  <2>1. C \subseteq SUBSET S
    OBVIOUS
  <2> HIDE DEF C
  <2> QED
    BY <1>1, <2>1, SmallestSubset
<1>3. PICK x \in T : x \notin R
  OBVIOUS
<1> DEFINE U == T \ {x}
<1>4. IsFiniteSet(T) /\ IsFiniteSet(U)
  BY FS_Subset
<1>5. SumFunctionOnSet(f, T) = f[x] + SumFunctionOnSet(f, U)
  BY <1>4, SumWithout
<1>6. f[x] = 0 /\ SumFunctionOnSet(f, U) \in Int
  BY <1>3, <1>4, SumIsInt
<1>7. SumFunctionOnSet(f, U) = SumFunctionOnSet(f, R)
  BY <1>2, <1>3
<1> QED
  BY <1>5, <1>6, <1>7
=============================================================================
