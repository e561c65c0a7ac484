----------------------------- MODULE SumLemmas ------------------------------
(***************************************************************************)
(* What the checksums of the jobs rest on: MapThenSumSet, a recursive      *)
(* function over the subsets of a set that takes out one element after     *)
(* another, is the sum of the weights, in whatever order it takes them.    *)
(* The weights are a function here, so that the lemmas can be cited for    *)
(* the sum of trip_ids of trips, of copies of trips, of events.            *)
(***************************************************************************)
EXTENDS Integers, FiniteSets, FiniteSetsExt, FiniteSetTheorems,
        WellFoundedInduction, TLAPS

\* F gives each subset of S the sum of its weights.
IsSum(F, w, S) ==
    /\ F \in [SUBSET S -> Nat]
    /\ F[{}] = 0
    /\ \A s \in SUBSET S : \A x \in s : F[s] = w[x] + F[s \ {x}]

\* f takes out the elements in the order of choice, as the fold does.
IsFold(f, w, S) ==
    \A s \in SUBSET S :
        f[s] = IF s = {} THEN 0
               ELSE w[CHOOSE x \in s : TRUE] + f[s \ {CHOOSE x \in s : TRUE}]

\* Of the subsets of a finite set that are bad in some way one is minimal.
LEMMA MinimalSubset ==
    ASSUME NEW S, IsFiniteSet(S), NEW Bad \in SUBSET SUBSET S, Bad # {}
    PROVE  \E X \in Bad : \A Y \in SUBSET X : Y # X => Y \notin Bad
<1>1. SUBSET S = FiniteSubsetsOf(S)
  BY FS_Subset DEF FiniteSubsetsOf
<1>2. IsWellFoundedOn(StrictSubsetOrdering(S), FiniteSubsetsOf(S))
  BY FS_StrictSubsetOrderingWellFounded
<1>a. Bad \in SUBSET FiniteSubsetsOf(S)
  BY <1>1
<1>3. PICK X \in Bad : \A Y \in Bad : ~(<<Y, X>> \in StrictSubsetOrdering(S))
  BY <1>2, <1>a, WFMin
<1>4. \A Y \in SUBSET X : Y # X => <<Y, X>> \in StrictSubsetOrdering(S)
  <2> SUFFICES ASSUME NEW Y \in SUBSET X, Y # X
               PROVE  <<Y, X>> \in StrictSubsetOrdering(S)
    OBVIOUS
  <2>1. X \in SUBSET S /\ Y \in SUBSET S
    OBVIOUS
  <2> QED BY <1>1, <2>1 DEF StrictSubsetOrdering
<1>5. \A Y \in SUBSET X : Y # X => Y \notin Bad
  BY <1>3, <1>4
<1> QED BY <1>5

\* Weights have a sum.
LEMMA SumExists ==
    ASSUME NEW S, IsFiniteSet(S), NEW w \in [S -> Nat]
    PROVE  \E F : IsSum(F, w, S)
<1> DEFINE Bad == {X \in SUBSET S : ~\E F : IsSum(F, w, X)}
<1>1. SUFFICES ASSUME Bad # {} PROVE FALSE
  OBVIOUS
<1>2. PICK X \in Bad : \A Y \in SUBSET X : Y # X => Y \notin Bad
  <2> HIDE DEF Bad
  <2>1. Bad \in SUBSET SUBSET S
    BY DEF Bad
  <2> QED BY <1>1, <2>1, MinimalSubset
<1>3. X # {}
  <2>1. IsSum([s \in SUBSET {} |-> 0], w, {})
    BY DEF IsSum
  <2> QED BY <2>1
<1>4. PICK a \in X : TRUE
  BY <1>3
<1> DEFINE Y == X \ {a}
<1>5. PICK G : IsSum(G, w, Y)
  <2>1. Y \in SUBSET X /\ Y # X /\ Y \in SUBSET S
    OBVIOUS
  <2> HIDE DEF Y
  <2> QED BY <1>2, <2>1
<1> DEFINE F == [s \in SUBSET X |-> IF a \in s THEN w[a] + G[s \ {a}] ELSE G[s]]
<1>6. w[a] \in Nat /\ \A x \in X : w[x] \in Nat
  BY <1>4
<1>7. /\ \A s \in SUBSET X : s \ {a} \in SUBSET Y
      /\ \A s \in SUBSET X : a \notin s => s \in SUBSET Y
      /\ \A s \in SUBSET Y : G[s] \in Nat
      /\ G[{}] = 0
      /\ \A s \in SUBSET Y : \A x \in s : G[s] = w[x] + G[s \ {x}]
  BY <1>5 DEF IsSum
<1> HIDE DEF Y
<1>8. F \in [SUBSET X -> Nat] /\ F[{}] = 0
  BY <1>6, <1>7
<1>9. ASSUME NEW s \in SUBSET X, NEW x \in s PROVE F[s] = w[x] + F[s \ {x}]
  <2>0. s \ {x} \in SUBSET X
    OBVIOUS
  <2>1. CASE x = a
    <3>1. F[s] = w[a] + G[s \ {a}] /\ F[s \ {a}] = G[s \ {a}]
      BY <2>1
    <3> QED BY <2>1, <3>1
  <2>2. CASE x # a /\ a \in s
    <3>1. F[s] = w[a] + G[s \ {a}] /\ F[s \ {x}] = w[a] + G[(s \ {x}) \ {a}]
      BY <2>0, <2>2
    <3>2. x \in s \ {a} /\ s \ {a} \in SUBSET Y
      BY <1>7, <2>2
    <3>3. G[s \ {a}] = w[x] + G[(s \ {a}) \ {x}]
      BY <1>7, <3>2
    <3>4. (s \ {a}) \ {x} = (s \ {x}) \ {a}
      OBVIOUS
    <3>5. G[(s \ {x}) \ {a}] \in Nat /\ w[x] \in Nat /\ w[a] \in Nat
      BY <1>6, <1>7, <2>0
    <3> DEFINE rest == G[(s \ {x}) \ {a}]
    <3>6. /\ F[s] = w[a] + (w[x] + rest)
          /\ F[s \ {x}] = w[a] + rest
      BY <3>1, <3>3, <3>4, Zenon
    <3>7. w[a] + (w[x] + rest) = w[x] + (w[a] + rest)
      <4> HIDE DEF rest
      <4> QED BY <3>5 DEF rest
    <3> HIDE DEF F, rest
    <3> QED BY <3>6, <3>7, Zenon
  <2>3. CASE a \notin s
    <3>1. F[s] = G[s] /\ F[s \ {x}] = G[s \ {x}]
      BY <2>0, <2>3
    <3>2. s \in SUBSET Y
      BY <1>7, <2>3
    <3> HIDE DEF F
    <3> QED BY <1>7, <3>1, <3>2
  <2> QED BY <2>1, <2>2, <2>3
<1>10. IsSum(F, w, X)
  <2> HIDE DEF F
  <2> QED BY <1>8, <1>9 DEF IsSum
<1> QED BY <1>10

\* The fold computes the sum.
LEMMA FoldIsSum ==
    ASSUME NEW S, IsFiniteSet(S), NEW w \in [S -> Nat],
           NEW F, IsSum(F, w, S), NEW f, IsFold(f, w, S)
    PROVE  f[S] = F[S]
<1> DEFINE Bad == {X \in SUBSET S : f[X] # F[X]}
<1>1. SUFFICES ASSUME Bad # {} PROVE FALSE
  OBVIOUS
<1>2. PICK X \in Bad : \A Y \in SUBSET X : Y # X => Y \notin Bad
  <2>1. Bad \in SUBSET SUBSET S
    OBVIOUS
  <2> HIDE DEF Bad
  <2> QED BY <1>1, <2>1, MinimalSubset
<1>3. CASE X = {}
  BY <1>3 DEF IsSum, IsFold
<1>4. CASE X # {}
  <2> DEFINE x == CHOOSE y \in X : TRUE
  <2>1. x \in X
    BY <1>4
  <2>2. f[X] = w[x] + f[X \ {x}]
    BY <1>4 DEF IsFold
  <2> HIDE DEF x
  <2>3. F[X] = w[x] + F[X \ {x}]
    BY <2>1 DEF IsSum
  <2>4. f[X \ {x}] = F[X \ {x}]
    BY <1>2, <2>1
  <2> QED BY <2>2, <2>3, <2>4
<1> QED BY <1>3, <1>4

\* The sum is a fold: the recursive definition has a solution.
LEMMA SumIsFold ==
    ASSUME NEW S, NEW w, NEW F, IsSum(F, w, S)
    PROVE  /\ IsFold(F, w, S)
           /\ F = [s \in SUBSET S |->
                     IF s = {} THEN 0
                     ELSE w[CHOOSE x \in s : TRUE]
                             + F[s \ {CHOOSE x \in s : TRUE}]]
<1>1. ASSUME NEW s \in SUBSET S, s # {}
      PROVE  F[s] = w[CHOOSE x \in s : TRUE] + F[s \ {CHOOSE x \in s : TRUE}]
  <2>1. (CHOOSE x \in s : TRUE) \in s
    BY <1>1
  <2> QED BY <2>1 DEF IsSum
<1>2. IsFold(F, w, S)
  BY <1>1 DEF IsSum, IsFold
<1> QED BY <1>2 DEF IsFold, IsSum

\* Sums are unique.
LEMMA SumUnique ==
    ASSUME NEW S, IsFiniteSet(S), NEW w \in [S -> Nat],
           NEW F, IsSum(F, w, S), NEW G, IsSum(G, w, S)
    PROVE  F[S] = G[S]
<1>1. IsFold(G, w, S)
  BY SumIsFold
<1> QED BY <1>1, FoldIsSum

\* A fold over a finite set of numbers is a number.
LEMMA FoldIsNumber ==
    ASSUME NEW S, IsFiniteSet(S), NEW w \in [S -> Nat],
           NEW f, IsFold(f, w, S)
    PROVE  f[S] \in Nat
<1>1. PICK F : IsSum(F, w, S)
  BY SumExists
<1>2. f[S] = F[S]
  BY <1>1, FoldIsSum
<1> QED BY <1>1, <1>2 DEF IsSum
=============================================================================
