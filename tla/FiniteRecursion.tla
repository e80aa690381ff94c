--------------------------- MODULE FiniteRecursion ---------------------------
(***************************************************************************)
(* Induction over the numbers up to n, and the functions recursion defines *)
(* on them, stated with sets and functions in place of operators.          *)
(***************************************************************************)
EXTENDS Integers, WellFoundedInduction, TLAPS

\* A set of numbers that is not empty has a least one.
LEMMA LeastNatural ==
  ASSUME NEW T \in SUBSET Nat, T # {}
  PROVE  \E i \in T : \A j \in T : i <= j
<1> DEFINE R == OpToRel(<, Nat)
<1>1. PICK i \in T : \A j \in T : ~(<<j, i>> \in R)
  <2> HIDE DEF R
  <2>1. IsWellFoundedOn(R, Nat)
    BY NatLessThanWellFounded DEF R
  <2> QED
    BY <2>1, WFMin
<1>2. \A j \in T : ~(j < i)
  BY <1>1 DEF OpToRel
<1> QED
  BY <1>2

\* A set that has 0 and with each number the next has all of them up to n.
LEMMA Induction ==
  ASSUME NEW n \in Nat, NEW P, 0 \in P, \A j \in 1 .. n : j - 1 \in P => j \in P
  PROVE  \A j \in 0 .. n : j \in P
<1> SUFFICES ASSUME NEW k \in 0 .. n, k \notin P PROVE FALSE
  OBVIOUS
<1> DEFINE T == {j \in 0 .. n : j \notin P}
<1>1. PICK i \in T : \A j \in T : i <= j
  <2>1. T \in SUBSET Nat /\ k \in T
    OBVIOUS
  <2> HIDE DEF T
  <2> QED
    BY <2>1, LeastNatural
<1>2. i \in 1 .. n /\ i - 1 \in 0 .. n /\ ~(i <= i - 1)
  BY <1>1
<1>3. i - 1 \in P
  BY <1>1, <1>2
<1> QED
  BY <1>1, <1>2, <1>3

\* From e, each value of f is F of the one before.
Iterates(f, n, e, F) == f[0] = e /\ \A j \in 1 .. n : f[j] = F[j][f[j - 1]]

\* Such a recursive function exists.
LEMMA Recursion ==
  ASSUME NEW n \in Nat, NEW S, NEW e \in S, NEW F, \A j \in 1 .. n : \A x \in S : F[j][x] \in S
  PROVE  \E f \in [0 .. n -> S] : Iterates(f, n, e, F)
<1> DEFINE Good(k) == \E f \in [0 .. k -> S] : Iterates(f, k, e, F)
           P == {k \in 0 .. n : Good(k)}
<1>1. 0 \in P
  <2> DEFINE f == [j \in 0 .. 0 |-> e]
  <2>1. f \in [0 .. 0 -> S] /\ f[0] = e
    OBVIOUS
  <2>2. \A j \in 1 .. 0 : f[j] = F[j][f[j - 1]]
    OBVIOUS
  <2> HIDE DEF f
  <2>3. Good(0)
    BY <2>1, <2>2 DEF Iterates
  <2> QED
    BY <2>3
<1>2. ASSUME NEW k \in 1 .. n, k - 1 \in P PROVE k \in P
  <2>1. PICK f \in [0 .. k - 1 -> S] : f[0] = e /\ \A j \in 1 .. k - 1 : f[j] = F[j][f[j - 1]]
    BY <1>2 DEF Iterates
  <2> DEFINE g == [j \in 0 .. k |-> IF j = k THEN F[k][f[k - 1]] ELSE f[j]]
  <2>2. \A j \in 0 .. k : j = k \/ j \in 0 .. k - 1
    OBVIOUS
  <2>3. g \in [0 .. k -> S]
    BY <2>1, <2>2
  <2>4. g[0] = e
    BY <2>1
  <2>5. ASSUME NEW j \in 1 .. k PROVE g[j] = F[j][g[j - 1]]
    <3>1. j - 1 \in 0 .. k - 1 /\ g[j - 1] = f[j - 1]
      OBVIOUS
    <3>2. CASE j = k
      <4>1. g[k] = F[k][f[k - 1]] /\ g[k - 1] = f[k - 1]
        OBVIOUS
      <4> HIDE DEF g
      <4> QED
        BY <3>2, <4>1
    <3>3. CASE j # k
      <4>1. j \in 1 .. k - 1 /\ g[j] = f[j]
        BY <3>3
      <4> QED
        BY <2>1, <3>1, <4>1
    <3> QED
      BY <3>2, <3>3
  <2> HIDE DEF g
  <2>6. Good(k)
    BY <2>3, <2>4, <2>5 DEF Iterates
  <2> HIDE DEF Good
  <2> QED
    BY <2>6
<1>3. \A j \in 0 .. n : j \in P
  <2> HIDE DEF P
  <2> QED
    BY <1>1, <1>2, Induction
<1> QED
  BY <1>3
=============================================================================
