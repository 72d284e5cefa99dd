---------------------------- MODULE LeastNumber ----------------------------
(***************************************************************************)
(* The least-number principle, and what it gives a proof about a recursive *)
(* definition: that the function so defined exists.  Induction is done by  *)
(* hand, on the set of the numbers for which a claim fails.                *)
(***************************************************************************)
EXTENDS Integers, WellFoundedInduction, TLAPS

\* There is a well-founded relation on the naturals that contains <.
LEMMA LessRelation ==
    \E R : IsWellFoundedOn(R, Nat) /\ \A x, y \in Nat : x < y => <<x, y>> \in R
<1>1. \A x, y \in Nat : x < y => <<x, y>> \in OpToRel(<, Nat)
  BY DEF OpToRel
<1>2. IsWellFoundedOn(OpToRel(<, Nat), Nat)
  BY NatLessThanWellFounded, Zenon
<1> QED
  BY <1>1, <1>2, Zenon

\* A set of naturals that is not empty has a least element.
LEMMA Least == ASSUME NEW T, T \subseteq Nat, T # {} PROVE \E m \in T : \A n \in T : m <= n
<1>1. PICK R : /\ IsWellFoundedOn(R, Nat)
               /\ \A x, y \in Nat : x < y => <<x, y>> \in R
  BY LessRelation, Zenon
<1>2. PICK m \in T : \A n \in T : ~(<<n, m>> \in R)
  <2>1. IsWellFoundedOn(R, Nat) /\ T \subseteq Nat /\ T # {}
    BY <1>1
  <2> QED
    BY <2>1, WFMin
<1>3. ASSUME NEW n \in T PROVE m <= n
  <2>1. m \in Nat /\ n \in Nat
    OBVIOUS
  <2>2. ~(n < m)
    BY <1>1, <1>2, <2>1, Zenon
  <2> QED
    BY <2>1, <2>2
<1> QED
  BY <1>3

\* A set of naturals with a bound that is not empty has a greatest element.
LEMMA Greatest ==
    ASSUME NEW T, NEW k \in Nat, T \subseteq 0 .. k, T # {}
    PROVE  \E m \in T : \A n \in T : n <= m
<1> DEFINE D == {k - n : n \in T}
<1>1. D \subseteq Nat /\ D # {}
  <2>1. \A n \in T : k - n \in Nat
    OBVIOUS
  <2> QED
    BY <2>1
<1>2. PICK d \in D : \A e \in D : d <= e
  BY <1>1, Least
<1>3. PICK m \in T : d = k - m
  BY <1>2
<1>4. ASSUME NEW n \in T PROVE n <= m
  <2>1. k - n \in D
    OBVIOUS
  <2>2. k - m <= k - n
    BY <1>2, <1>3, <2>1
  <2>3. k \in Int /\ m \in Int /\ n \in Int
    OBVIOUS
  <2> QED
    BY <2>2, <2>3
<1> QED
  BY <1>4

\* A sequence of values, each made from the one before, exists.
LEMMA StepsExist ==
    ASSUME NEW S, NEW init \in S, NEW k \in Nat, NEW step \in [1 .. k -> [S -> S]]
    PROVE  \E f \in [0 .. k -> S] :
              f[0] = init /\ \A n \in 1 .. k : f[n] = step[n][f[n - 1]]
<1> DEFINE Steps(m) == {f \in [0 .. m -> S] :
                          /\ f[0] = init
                          /\ \A n \in 1 .. m : f[n] = step[n][f[n - 1]]}
           T == {m \in 0 .. k : Steps(m) = {}}
<1>1. SUFFICES ASSUME T # {} PROVE FALSE
  <2>1. k \in 0 .. k
    OBVIOUS
  <2>2. Steps(k) # {}
    BY <1>1, <2>1
  <2> QED
    BY <2>2
<1>2. PICK m \in T : \A n \in T : m <= n
  <2>1. T \subseteq Nat
    OBVIOUS
  <2> QED
    BY <1>1, <2>1, Least
<1>3. m # 0
  <2>1. [n \in 0 .. 0 |-> init] \in Steps(0)
    OBVIOUS
  <2> QED
    BY <2>1
<1>4. m - 1 \in 0 .. k /\ m - 1 \notin T
  <2>1. m \in 0 .. k
    OBVIOUS
  <2>2. m - 1 \in 0 .. k /\ ~(m <= m - 1)
    BY <1>3, <2>1
  <2> QED
    BY <1>2, <2>2
<1>5. PICK f : f \in Steps(m - 1)
  BY <1>4
<1> DEFINE g == [n \in 0 .. m |-> IF n = m THEN step[m][f[m - 1]] ELSE f[n]]
<1>6. f[m - 1] \in S /\ m \in 1 .. k
  BY <1>3, <1>4, <1>5
<1>7. \A n \in 0 .. m - 1 : g[n] = f[n] /\ f[n] \in S
  BY <1>5, <1>6
<1>8. g[m] = step[m][f[m - 1]] /\ g[m] \in S
  BY <1>6
<1>9. g \in [0 .. m -> S]
  <2>1. \A n \in 0 .. m : n = m \/ n \in 0 .. m - 1
    BY <1>6
  <2>2. \A n \in 0 .. m : g[n] \in S
    <3> HIDE DEF g
    <3> QED
      BY <1>7, <1>8, <2>1
  <2>3. g = [n \in 0 .. m |-> g[n]]
    OBVIOUS
  <2> HIDE DEF g
  <2> QED
    BY <2>2, <2>3
<1>10. \A n \in 1 .. m : g[n] = step[n][g[n - 1]]
  <2> SUFFICES ASSUME NEW n \in 1 .. m PROVE g[n] = step[n][g[n - 1]]
    OBVIOUS
  <2>1. CASE n = m
    <3>1. g[n - 1] = f[m - 1]
      BY <1>6, <1>7, <2>1
    <3> QED
      BY <2>1, <1>8, <3>1
  <2>2. CASE n # m
    <3>1. n \in 1 .. m - 1 /\ n \in 0 .. m - 1 /\ n - 1 \in 0 .. m - 1
      BY <1>6, <2>2
    <3>2. f[n] = step[n][f[n - 1]]
      BY <1>5, <3>1
    <3> HIDE DEF g
    <3> QED
      BY <1>7, <3>1, <3>2
  <2> QED
    BY <2>1, <2>2
<1>11. g[0] = init
  BY <1>5, <1>6, <1>7
<1> HIDE DEF g
<1>12. g \in Steps(m)
  BY <1>9, <1>10, <1>11
<1> QED
  BY <1>12

\* Induction up to a bound, with a set in place of a predicate.
LEMMA NumbersUpTo ==
    ASSUME NEW k \in Nat, NEW T, 0 \in T, \A n \in 1 .. k : n - 1 \in T => n \in T
    PROVE  \A n \in 0 .. k : n \in T
<1> DEFINE Missing == {n \in 0 .. k : n \notin T}
<1>1. SUFFICES ASSUME Missing # {} PROVE FALSE
  OBVIOUS
<1>2. PICK m \in Missing : \A n \in Missing : m <= n
  <2>1. Missing \subseteq Nat
    OBVIOUS
  <2> HIDE DEF Missing
  <2> QED
    BY <1>1, <2>1, Least
<1>3. m \in 1 .. k
  BY <1>2
<1>4. m - 1 \in 0 .. k /\ ~(m <= m - 1)
  BY <1>3
<1>5. m - 1 \in T
  BY <1>2, <1>4
<1> QED
  BY <1>2, <1>3, <1>5

\* The functions agree up to k.
Alike(f, g, k) == \A n \in 0 .. k : f[n] = g[n]

\* Two functions that start alike, and stay alike in every step, are alike.
LEMMA StepsAgree ==
    ASSUME NEW k \in Nat, NEW f, NEW g, f[0] = g[0],
           \A n \in 1 .. k : f[n - 1] = g[n - 1] => f[n] = g[n]
    PROVE  Alike(f, g, k)
<1> DEFINE T == {n \in 0 .. k : f[n] = g[n]}
<1>1. 0 \in T
  OBVIOUS
<1>2. \A n \in 1 .. k : n - 1 \in T => n \in T
  OBVIOUS
<1>3. \A n \in 0 .. k : n \in T
  <2> HIDE DEF T
  <2> QED
    BY <1>1, <1>2, NumbersUpTo
<1> QED
  BY <1>3 DEF Alike

\* The runs of k steps in a set of states, step n a function of the state before.
Runs(S, init, step, k) ==
    {f \in [0 .. k -> S] : f[0] = init /\ \A n \in 1 .. k : f[n] = step[n][f[n - 1]]}

\* There is a run for every start and every choice of steps.
LEMMA RunExists ==
    ASSUME NEW S, NEW init \in S, NEW k \in Nat, NEW step \in [1 .. k -> [S -> S]]
    PROVE  Runs(S, init, step, k) # {}
BY StepsExist DEF Runs
=============================================================================
