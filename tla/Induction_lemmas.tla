-------------------------- MODULE Induction_lemmas --------------------------
(* Induction over the naturals, stated about sets: what holds of 0 and of the *)
(* successor of every number that it holds of is a set that has all numbers.  *)
EXTENDS Integers, WellFoundedInduction, FiniteSetTheorems, TLAPS

\* A set of naturals that is not empty has a least element: of the initial
\* segments below its elements, one contains no other.
LEMMA LeastNatural ==
  ASSUME NEW T \in SUBSET Nat, T # {}
  PROVE  \E x \in T : \A y \in T : x <= y
<1> DEFINE Below == {0..(n - 1) : n \in T}
<1>1. IsWellFoundedOn(StrictSubsetOrdering(Nat), FiniteSubsetsOf(Nat))
  BY FS_StrictSubsetOrderingWellFounded
<1>2. Below \subseteq FiniteSubsetsOf(Nat)
  <2> SUFFICES ASSUME NEW n \in T PROVE 0..(n - 1) \in FiniteSubsetsOf(Nat)
    OBVIOUS
  <2>1. n \in Int /\ n - 1 \in Int /\ 0 \in Int
    OBVIOUS
  <2>2. IsFiniteSet(0..(n - 1))
    BY <2>1, FS_Interval
  <2> QED
    BY <2>2 DEF FiniteSubsetsOf
<1>3. Below # {}
  OBVIOUS
<1>4. \E B \in Below : \A C \in Below : ~ (<<C, B>> \in StrictSubsetOrdering(Nat))
  <2> HIDE DEF Below
  <2> QED
    BY <1>1, <1>2, <1>3, WFMin
<1>5. PICK x \in T : \A y \in T : ~ (<<0..(y - 1), 0..(x - 1)>> \in StrictSubsetOrdering(Nat))
  BY <1>4
<1>6. ASSUME NEW y \in T, y < x PROVE FALSE
  <2>1. 0..(y - 1) \in SUBSET Nat /\ 0..(x - 1) \in SUBSET Nat
    OBVIOUS
  <2>2. y \in 0..(x - 1) /\ y \notin 0..(y - 1) /\ 0..(y - 1) \subseteq 0..(x - 1)
    BY <1>6
  <2>3. <<0..(y - 1), 0..(x - 1)>> \in StrictSubsetOrdering(Nat)
    BY <2>1, <2>2 DEF StrictSubsetOrdering
  <2> QED
    BY <1>5, <2>3
<1> QED
  BY <1>6

\* Induction up to a bound.
LEMMA BoundedInduction ==
  ASSUME NEW m \in Nat, NEW S, 0 \in S, \A n \in 0..(m - 1) : n \in S => n + 1 \in S
  PROVE  0..m \subseteq S
<1> DEFINE T == (0..m) \ S
<1> SUFFICES ASSUME T # {} PROVE FALSE
  OBVIOUS
<1>1. PICK x \in T : \A y \in T : x <= y
  <2>1. T \in SUBSET Nat
    OBVIOUS
  <2> HIDE DEF T
  <2> QED
    BY <2>1, LeastNatural
<1>2. x \in 1..m /\ x - 1 \in 0..(m - 1)
  OBVIOUS
<1>3. x - 1 \in S
  BY <1>1, <1>2
<1>4. x \in S
  BY <1>2, <1>3
<1> QED
  BY <1>4

\* A recursive function f over an initial segment: its first value, and a step
\* from each value to the next.
IsStep(G, m, V) == G \in [1..m -> [V -> V]]
IsRecursion(f, m, V, v, G) ==
  /\ f \in [0..m -> V]
  /\ f[0] = v
  /\ \A n \in 1..m : f[n] = G[n][f[n - 1]]

\* A recursive function over an initial segment exists, with values in every set
\* that has the first one and that the steps do not leave.
LEMMA RecursionExists ==
  ASSUME NEW m \in Nat, NEW V, NEW v \in V, NEW G, IsStep(G, m, V)
  PROVE  \E f : IsRecursion(f, m, V, v, G)
<1> USE DEF IsStep
<1> DEFINE Solves(f, k) ==
             f \in [0..k -> V] /\ f[0] = v /\ \A n \in 1..k : f[n] = G[n][f[n - 1]]
           S == {k \in 0..m : \E f : Solves(f, k)}
<1>1. 0 \in S
  <2>1. Solves([n \in 0..0 |-> v], 0)
    OBVIOUS
  <2>2. 0 \in 0..m
    OBVIOUS
  <2> HIDE DEF Solves
  <2> QED
    BY <2>1, <2>2
<1>2. ASSUME NEW k \in 0..(m - 1), k \in S PROVE k + 1 \in S
  <2>1. PICK f : Solves(f, k)
    BY <1>2
  <2>2. /\ k \in Nat /\ k + 1 \in 1..m /\ k \in 0..k /\ k + 1 \in 0..m
        /\ \A n \in 0..k : n # k + 1 /\ n \in 0..(k + 1)
        /\ \A n \in 0..(k + 1) : n \in 0..k \/ n = k + 1
        /\ \A n \in 1..k : n - 1 \in 0..k /\ n \in 0..k
        /\ \A n \in 1..(k + 1) : n \in 1..k \/ n = k + 1
        /\ (k + 1) - 1 = k /\ k + 1 \in 0..(k + 1) /\ 0 \in 0..k
    OBVIOUS
  <2>3. G[k + 1][f[k]] \in V
    <3>1. f[k] \in V /\ G[k + 1] \in [V -> V]
      BY <2>1, <2>2
    <3> QED
      BY <3>1
  <2>4. PICK g : g = [n \in 0..(k + 1) |-> IF n = k + 1 THEN G[k + 1][f[k]] ELSE f[n]]
    OBVIOUS
  <2>5. \A n \in 0..k : g[n] = f[n]
    BY <2>2, <2>4
  <2>6. g[k + 1] = G[k + 1][f[k]]
    BY <2>2, <2>4
  <2>7. g \in [0..(k + 1) -> V]
    BY <2>1, <2>2, <2>3, <2>4
  <2>8. ASSUME NEW n \in 1..(k + 1) PROVE g[n] = G[n][g[n - 1]]
    <3>1. CASE n \in 1..k
      <4>1. n \in 0..k /\ n - 1 \in 0..k /\ f[n] = G[n][f[n - 1]]
        BY <2>1, <2>2, <3>1
      <4> QED
        BY <2>5, <4>1
    <3>2. CASE n = k + 1
      BY <2>2, <2>5, <2>6, <3>2
    <3> QED
      BY <2>2, <2>8, <3>1, <3>2
  <2>9. Solves(g, k + 1)
    BY <2>1, <2>2, <2>5, <2>7, <2>8
  <2> QED
    BY <2>2, <2>9
<1>3. m \in S
  <2>1. \A k \in 0..(m - 1) : k \in S => k + 1 \in S
    BY <1>2
  <2>2. m \in 0..m
    OBVIOUS
  <2> HIDE DEF S
  <2>3. 0..m \subseteq S
    BY <1>1, <2>1, BoundedInduction
  <2> QED
    BY <2>2, <2>3
<1> QED
  BY <1>3 DEF IsRecursion

\* The values of a function over an initial segment are of a type that has the
\* first one and, with each, the next.
LEMMA RecursionTyped ==
  ASSUME NEW m \in Nat, NEW V, NEW f, f = [n \in 0..m |-> f[n]],
         f[0] \in V, \A n \in 1..m : f[n - 1] \in V => f[n] \in V
  PROVE  f \in [0..m -> V]
<1> DEFINE S == {n \in 0..m : f[n] \in V}
<1>1. 0 \in S
  OBVIOUS
<1>2. ASSUME NEW n \in 0..(m - 1), n \in S PROVE n + 1 \in S
  <2>1. n + 1 \in 1..m /\ n + 1 \in 0..m /\ (n + 1) - 1 = n
    OBVIOUS
  <2> QED
    BY <1>2, <2>1
<1>3. 0..m \subseteq S
  <2> HIDE DEF S
  <2> QED
    BY <1>1, <1>2, BoundedInduction
<1>4. \A n \in 0..m : f[n] \in V
  BY <1>3
<1> QED
  BY <1>4

=============================================================================
