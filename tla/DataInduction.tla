---------------------------- MODULE DataInduction ----------------------------
(***************************************************************************)
(* Induction over the natural numbers with a set in the place of the       *)
(* predicate, and from it the one fact about loops that the theorems of    *)
(* MachineConfigProofs and DiscoveryProofs need: a loop whose body is a    *)
(* function of its counter and its state has a run.  A recursive function  *)
(* is a CHOOSE; this is what says that there is something to choose.       *)
(***************************************************************************)
EXTENDS Integers, WellFoundedInduction, TLAPS

\* Every set of natural numbers that is not empty has a least element.
LEMMA LeastNat ==
  ASSUME NEW T, T \subseteq Nat, T # {}
  PROVE  \E n \in T : \A k \in T : n <= k
<1> DEFINE R == OpToRel(<, Nat)
<1>1. IsWellFoundedOn(R, Nat)
  BY NatLessThanWellFounded
<1>2. \A x, y \in Nat : x < y => <<x, y>> \in R
  BY DEF OpToRel
<1> HIDE DEF R
<1>3. PICK n \in T : \A k \in T : ~(<<k, n>> \in R)
  BY <1>1, WFMin
<1>4. ASSUME NEW k \in T
      PROVE  n <= k
  <2>1. n \in Nat /\ k \in Nat
    OBVIOUS
  <2>2. ~(k < n)
    BY <1>2, <1>3, <2>1
  <2> QED
    BY <2>1, <2>2
<1> QED
  BY <1>4

\* A set that has 0, and n + 1 with every n, has every natural number.
LEMMA Induction ==
  ASSUME NEW T, 0 \in T, \A n \in Nat : n \in T => n + 1 \in T
  PROVE  Nat \subseteq T
<1> SUFFICES ASSUME NEW n \in Nat, n \notin T
             PROVE  FALSE
  OBVIOUS
<1>1. PICK k \in Nat \ T : \A j \in Nat \ T : k <= j
  BY LeastNat
<1>2. k # 0 /\ k - 1 \in Nat
  BY <1>1
<1>3. k - 1 \in T
  BY <1>1, <1>2
<1> QED
  BY <1>1, <1>2, <1>3

\* The same up to a bound, for loops over the indices 1..N of a sequence.
LEMMA BoundedInduction ==
  ASSUME NEW N \in Nat, NEW T, 0 \in T, \A n \in 1..N : n - 1 \in T => n \in T
  PROVE  0..N \subseteq T
<1> DEFINE U == {n \in Nat : n <= N => n \in T}
<1>1. 0 \in U
  OBVIOUS
<1>2. ASSUME NEW n \in Nat, n \in U
      PROVE  n + 1 \in U
  <2> SUFFICES ASSUME n + 1 <= N
               PROVE  n + 1 \in T
    OBVIOUS
  <2>1. n + 1 \in 1..N /\ (n + 1) - 1 = n /\ n \in T
    BY <1>2
  <2> QED
    BY <2>1
<1> HIDE DEF U
<1>3. Nat \subseteq U
  BY <1>1, <1>2, Induction
<1> QED
  BY <1>3 DEF U

\* The states of a loop that starts in b and whose iteration i takes the state
\* x to F[i][x].
IsRun(f, N, b, F) == f[0] = b /\ \A i \in 1..N : f[i] = F[i][f[i - 1]]

\* A loop whose body maps the set of its states into itself has a run, of every length.
LEMMA LoopRuns ==
  ASSUME NEW S, NEW b \in S, NEW N \in Nat, NEW F \in [1..N -> [S -> S]]
  PROVE  \E f \in [0..N -> S] : IsRun(f, N, b, F)
<1> DEFINE T == {n \in 0..N : \E f \in [0..n -> S] : IsRun(f, n, b, F)}
<1>1. 0 \in T
  <2> DEFINE f == [i \in 0..0 |-> b]
  <2>1. f \in [0..0 -> S] /\ IsRun(f, 0, b, F)
    BY DEF IsRun
  <2> QED
    BY <2>1
<1>2. ASSUME NEW n \in 1..N, n - 1 \in T
      PROVE  n \in T
  <2>1. PICK f \in [0..(n - 1) -> S] : IsRun(f, n - 1, b, F)
    BY <1>2
  <2> DEFINE g == [i \in 0..n |-> IF i = n THEN F[n][f[n - 1]] ELSE f[i]]
  <2>2. F[n][f[n - 1]] \in S
    OBVIOUS
  <2>3. g \in [0..n -> S]
    BY <2>2
  <2>4. g[0] = b
    BY <2>1 DEF IsRun
  <2>5. ASSUME NEW i \in 1..n
        PROVE  g[i] = F[i][g[i - 1]]
    <3>1. g[i - 1] = f[i - 1]
      OBVIOUS
    <3>2. CASE i = n
      BY <3>1, <3>2
    <3>3. CASE i # n
      <4>1. i \in 1..(n - 1) /\ g[i] = f[i]
        BY <3>3
      <4> QED
        BY <2>1, <3>1, <4>1 DEF IsRun
    <3> QED
      BY <3>2, <3>3
  <2>6. IsRun(g, n, b, F)
    BY <2>4, <2>5 DEF IsRun
  <2> HIDE DEF g
  <2>7. n \in 0..N
    OBVIOUS
  <2> QED
    BY <2>3, <2>6, <2>7
<1> HIDE DEF T
<1>3. 0..N \subseteq T
  BY <1>1, <1>2, BoundedInduction
<1> QED
  BY <1>3 DEF T
=============================================================================
