-------------------------------- MODULE Sums --------------------------------
(***************************************************************************)
(* What the sum of a function on a finite set does when the function       *)
(* changes at one place: facts about SumFunction that the balances of      *)
(* RelayQuota, CallQuota and Payments rest on.  The library defines the    *)
(* sum by a recursion on the subsets of the set; the facts follow from the *)
(* least subset, by inclusion, at which they would fail.                   *)
(***************************************************************************)
EXTENDS Integers, FiniteSets, Functions, FiniteSetTheorems, WellFoundedInduction, TLAPS

Chosen(s) == CHOOSE x \in s : TRUE

\* The equation the sums of the subsets of S satisfy.
IsSum(f, S, g) ==
    g = [s \in SUBSET S |-> IF s = {} THEN 0 ELSE f[Chosen(s)] + g[s \ {Chosen(s)}]]

LEMMA SumIs ==
    ASSUME NEW f, NEW S, DOMAIN f = S
    PROVE  SumFunction(f) = (CHOOSE g : IsSum(f, S, g))[S]
  BY DEF SumFunction, SumFunctionOnSet, FoldFunctionOnSet, MapThenFoldSet, IsSum, Chosen

\* A finite set of finite sets has a least one, by inclusion.
LEMMA LeastSubset ==
    ASSUME NEW S, IsFiniteSet(S), NEW T, T \subseteq SUBSET S, T # {}
    PROVE  \E s \in T : \A r \in SUBSET S : r \subseteq s /\ r # s => r \notin T
<1>1. IsWellFoundedOn(StrictSubsetOrdering(S), FiniteSubsetsOf(S))
  BY FS_StrictSubsetOrderingWellFounded
<1>2. FiniteSubsetsOf(S) = SUBSET S
  BY FS_FiniteSubsetsOfFinite
<1>3. PICK s \in T : \A r \in T : <<r, s>> \notin StrictSubsetOrdering(S)
  BY <1>1, <1>2, WFMin
<1>4. ASSUME NEW r \in SUBSET S, r \subseteq s, r # s, r \in T PROVE FALSE
  BY <1>3, <1>4 DEF StrictSubsetOrdering
<1> QED  BY <1>4

LEMMA ChosenIn == ASSUME NEW s, s # {} PROVE Chosen(s) \in s
  BY DEF Chosen

\* The equation has one solution, whatever larger set it is solved on.
LEMMA SumUnique ==
    ASSUME NEW S, IsFiniteSet(S), NEW R \in SUBSET S, NEW f, NEW g, NEW h,
           IsSum(f, S, g), IsSum(f, R, h)
    PROVE  g[R] = h[R]
<1> DEFINE T == {s \in SUBSET R : g[s] # h[s]}
<1>1. SUFFICES ASSUME T # {} PROVE FALSE
  OBVIOUS
<1>2. IsFiniteSet(R)
  BY FS_Subset
<1>t. T \subseteq SUBSET R
  OBVIOUS
<1>3. PICK s \in T : \A r \in SUBSET R : r \subseteq s /\ r # s => r \notin T
  <2> HIDE DEF T
  <2>1. \E s \in T : \A r \in SUBSET R : r \subseteq s /\ r # s => r \notin T
    BY <1>1, <1>2, <1>t, LeastSubset
  <2> QED  BY <2>1
<1>4. /\ g[s] = IF s = {} THEN 0 ELSE f[Chosen(s)] + g[s \ {Chosen(s)}]
      /\ h[s] = IF s = {} THEN 0 ELSE f[Chosen(s)] + h[s \ {Chosen(s)}]
  BY DEF IsSum
<1>5. s # {}
  BY <1>3, <1>4
<1>6. g[s \ {Chosen(s)}] = h[s \ {Chosen(s)}]
  BY <1>3, <1>5, ChosenIn
<1> QED  BY <1>3, <1>4, <1>5, <1>6

LEMMA SumExists ==
    ASSUME NEW S, IsFiniteSet(S), NEW f \in [S -> Int]
    PROVE  \E g \in [SUBSET S -> Int] : IsSum(f, S, g)
<1> DEFINE Solved(R) == \E g \in [SUBSET R -> Int] : IsSum(f, R, g)
           T == {R \in SUBSET S : ~Solved(R)}
<1>1. SUFFICES ASSUME T # {} PROVE FALSE
  OBVIOUS
<1>t. T \subseteq SUBSET S
  OBVIOUS
<1>2. PICK R \in T : \A r \in SUBSET S : r \subseteq R /\ r # R => r \notin T
  <2> HIDE DEF T
  <2>1. \E R \in T : \A r \in SUBSET S : r \subseteq R /\ r # R => r \notin T
    BY <1>1, <1>t, LeastSubset
  <2> QED  BY <2>1
<1>3. \A r \in SUBSET S : r \subseteq R /\ r # R => Solved(r)
  BY <1>2
<1> DEFINE Of(r) == CHOOSE g : g \in [SUBSET r -> Int] /\ IsSum(f, r, g)
           Value(r) == Of(r)[r]
           x == Chosen(R)
           h == [s \in SUBSET R |-> IF s # R THEN Value(s)
                                   ELSE IF R = {} THEN 0 ELSE f[x] + Value(R \ {x})]
<1>4. ASSUME NEW r \in SUBSET R, r # R
      PROVE  Of(r) \in [SUBSET r -> Int] /\ IsSum(f, r, Of(r)) /\ Value(r) \in Int
  <2>1. Solved(r)
    BY <1>2, <1>3, <1>4
  <2>2. Of(r) \in [SUBSET r -> Int] /\ IsSum(f, r, Of(r))
    BY <2>1
  <2> QED  BY <2>2
<1>5. ASSUME NEW r \in SUBSET R, r # R, r # {}
      PROVE  Value(r) = f[Chosen(r)] + Value(r \ {Chosen(r)})
  <2> DEFINE q == r \ {Chosen(r)}
  <2>1. q \in SUBSET r /\ q \in SUBSET R /\ q # R
    BY <1>5, ChosenIn
  <2>2. IsSum(f, r, Of(r)) /\ IsSum(f, q, Of(q))
    BY <1>4, <1>5, <2>1
  <2>3. IsFiniteSet(r)
    BY <1>2, <1>5, FS_Subset
  <2>4. Of(r)[q] = Of(q)[q]
    BY <2>1, <2>2, <2>3, SumUnique
  <2>5. Of(r)[r] = f[Chosen(r)] + Of(r)[q]
    BY <1>5, <2>2 DEF IsSum
  <2> QED  BY <2>4, <2>5
<1>6. ASSUME NEW r \in SUBSET R, r # R, r = {} PROVE Value(r) = 0
  <2>1. IsSum(f, r, Of(r))
    BY <1>4, <1>6
  <2> QED  BY <1>6, <2>1 DEF IsSum
<1>7. R # {} => x \in R /\ R \ {x} \in SUBSET R /\ R \ {x} # R /\ f[x] \in Int
  BY <1>2, ChosenIn
<1>v. \A r \in SUBSET R : r # R => Value(r) \in Int
  BY <1>4
<1> HIDE DEF Value, x
<1>8. h \in [SUBSET R -> Int]
  BY <1>7, <1>v
<1>9. ASSUME NEW s \in SUBSET R
      PROVE  h[s] = IF s = {} THEN 0 ELSE f[Chosen(s)] + h[s \ {Chosen(s)}]
  <2>1. CASE s # R
    BY <1>5, <1>6, <1>9, <2>1, ChosenIn
  <2>2. CASE s = R
    BY <1>7, <2>2 DEF x
  <2> QED  BY <2>1, <2>2
<1>h. h = [s \in SUBSET R |-> h[s]]
  OBVIOUS
<1> HIDE DEF h
<1>10. IsSum(f, R, h)
  BY <1>h, <1>9 DEF IsSum
<1> QED  BY <1>2, <1>8, <1>10

\* The sum satisfies its equation, at any subset.
LEMMA SumOf ==
    ASSUME NEW S, IsFiniteSet(S), NEW f \in [S -> Int]
    PROVE  \E g \in [SUBSET S -> Int] : IsSum(f, S, g) /\ g[S] = SumFunction(f)
<1>1. PICK g \in [SUBSET S -> Int] : IsSum(f, S, g)
  BY SumExists
<1> DEFINE h == CHOOSE h : IsSum(f, S, h)
<1>2. IsSum(f, S, h)
  BY <1>1
<1>3. SumFunction(f) = h[S]
  BY SumIs
<1>4. g[S] = h[S]
  BY <1>1, <1>2, SumUnique
<1> QED  BY <1>1, <1>3, <1>4

\* A sum of integers is one.
THEOREM SumType ==
    ASSUME NEW S, IsFiniteSet(S), NEW f \in [S -> Int]
    PROVE  SumFunction(f) \in Int
<1>1. PICK g \in [SUBSET S -> Int] : IsSum(f, S, g) /\ g[S] = SumFunction(f)
  BY SumOf, Zenon
<1> QED  BY <1>1

\* Any solution of the equation gives the sum.
LEMMA SumFrom ==
    ASSUME NEW S, IsFiniteSet(S), NEW f \in [S -> Int], NEW g, IsSum(f, S, g)
    PROVE  SumFunction(f) = g[S]
<1>1. PICK h \in [SUBSET S -> Int] : IsSum(f, S, h) /\ h[S] = SumFunction(f)
  BY SumOf, Zenon
<1>2. S \in SUBSET S
  OBVIOUS
<1>i. IsSum(f, S, h)
  BY <1>1
<1>3. g[S] = h[S]
  BY <1>i, <1>2, SumUnique
<1> QED  BY <1>1, <1>3

\* A function that is zero everywhere has no sum.
THEOREM SumZero ==
    ASSUME NEW S, IsFiniteSet(S), NEW f \in [S -> Int], \A x \in S : f[x] = 0
    PROVE  SumFunction(f) = 0
<1> DEFINE g == [s \in SUBSET S |-> 0]
<1>1. ASSUME NEW s \in SUBSET S, s # {} PROVE f[Chosen(s)] + g[s \ {Chosen(s)}] = 0
  BY <1>1, ChosenIn
<1>2. IsSum(f, S, g)
  BY <1>1 DEF IsSum
<1> QED  BY <1>2, SumFrom

\* A change of one term changes the sum by as much.
THEOREM SumChanges ==
    ASSUME NEW S, IsFiniteSet(S), NEW f \in [S -> Int], NEW t \in S, NEW d \in Int
    PROVE  SumFunction([f EXCEPT ![t] = @ + d]) = SumFunction(f) + d
<1> DEFINE e == [f EXCEPT ![t] = @ + d]
<1>1. PICK g \in [SUBSET S -> Int] : IsSum(f, S, g) /\ g[S] = SumFunction(f)
  BY SumOf
<1> DEFINE h == [s \in SUBSET S |-> g[s] + IF t \in s THEN d ELSE 0]
<1>2. ASSUME NEW s \in SUBSET S
      PROVE  h[s] = IF s = {} THEN 0 ELSE e[Chosen(s)] + h[s \ {Chosen(s)}]
  <2>1. g[s] = IF s = {} THEN 0 ELSE f[Chosen(s)] + g[s \ {Chosen(s)}]
    BY <1>1 DEF IsSum
  <2>2. CASE s = {}
    BY <2>1, <2>2
  <2>3. CASE s # {}
    <3>1. Chosen(s) \in s /\ s \ {Chosen(s)} \in SUBSET S
      BY <2>3, ChosenIn
    <3>2. f[Chosen(s)] \in Int /\ g[s \ {Chosen(s)}] \in Int
      BY <3>1
    <3>3. CASE Chosen(s) = t
      BY <2>1, <2>3, <3>1, <3>2, <3>3
    <3>4. CASE Chosen(s) # t
      BY <2>1, <2>3, <3>1, <3>2, <3>4
    <3> QED  BY <3>3, <3>4
  <2> QED  BY <2>2, <2>3
<1>3. IsSum(e, S, h)
  BY <1>2 DEF IsSum
<1>4. e \in [S -> Int]
  OBVIOUS
<1>5. h[S] = g[S] + d
  OBVIOUS
<1> HIDE DEF e, h
<1>6. SumFunction(e) = h[S]
  BY <1>3, <1>4, SumFrom, Zenon
<1> QED  BY <1>1, <1>5, <1>6 DEF e
=============================================================================
