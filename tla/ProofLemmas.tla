------------------------------ MODULE ProofLemmas -----------------------------
(***************************************************************************)
(* Facts the proofs of several components need: induction over the natural *)
(* numbers stated of a set, which the provers can instantiate, what a      *)
(* recursive function computes, the first and the last of some positions.  *)
(***************************************************************************)
EXTENDS Integers, SequenceTheorems, FiniteSetTheorems, WellFoundedInduction, TLAPS

(* A set of numbers has a least one.                                       *)
LEMMA LeastOfNumbers ==
  ASSUME NEW S \in SUBSET Nat, S # {}
  PROVE  \E m \in S : \A i \in S : m <= i
<1> DEFINE R == {ss \in Nat \X Nat : ss[1] < ss[2]}
<1>1. IsWellFoundedOn(R, Nat)
  BY NatLessThanWellFounded DEF OpToRel
<1>2. \E m \in S : \A i \in S : ~ (<<i, m>> \in R)
  <2> HIDE DEF R
  <2> QED BY <1>1, WFMin
<1>3. PICK m \in S : \A i \in S : ~ (<<i, m>> \in R)
  BY <1>2
<1>4. \A i \in S : ~ (i < m)
  BY <1>3
<1> QED BY <1>4

(* Positions of a sequence have a first and a last.                        *)
LEMMA EndsOfPositions ==
  ASSUME NEW n \in Nat, NEW S \in SUBSET (1..n), S # {}
  PROVE  /\ \E m \in S : \A i \in S : m <= i
         /\ \E m \in S : \A i \in S : i <= m
<1>1. \E m \in S : \A i \in S : m <= i
  BY LeastOfNumbers
<1> DEFINE T == {n - i : i \in S}
<1>2. T \in SUBSET Nat /\ T # {}
  <2>1. PICK i \in S : TRUE
    OBVIOUS
  <2>2. n - i \in T
    OBVIOUS
  <2>3. \A j \in S : n - j \in Nat
    OBVIOUS
  <2> QED BY <2>2, <2>3
<1>3. PICK x \in T : \A y \in T : x <= y
  <2> HIDE DEF T
  <2> QED BY <1>2, LeastOfNumbers
<1>4. PICK m \in S : x = n - m
  BY <1>3
<1>5. \A j \in S : n - j \in T /\ n - m <= n - j
  BY <1>3, <1>4
<1> QED BY <1>1, <1>4, <1>5

(* Induction: a set with zero, and with every number's successor up to n,  *)
(* has them all.                                                           *)
LEMMA InductionUpTo ==
  ASSUME NEW n \in Nat, NEW S, 0 \in S,
         \A i \in 0..(n - 1) : i \in S => i + 1 \in S
  PROVE  \A i \in 0..n : i \in S
<1> DEFINE T == {i \in 0..n : i \notin S}
<1> SUFFICES ASSUME T # {} PROVE FALSE
  OBVIOUS
<1>1. T \in SUBSET Nat
  OBVIOUS
<1>2. PICK m \in T : \A i \in T : m <= i
  <2> HIDE DEF T
  <2> QED BY <1>1, LeastOfNumbers
<1>3. m # 0 /\ m - 1 \in 0..(n - 1) /\ m - 1 \notin T
  BY <1>2
<1>4. m - 1 \in S /\ (m - 1) + 1 = m
  BY <1>3
<1> QED BY <1>3, <1>4

(* What takes each value in V to the next, n times, and what comes of it.  *)
Steps(n, V) == [1..n -> [V -> V]]

Follows(f, n, base, step) == f[0] = base /\ \A i \in 1..n : f[i] = step[i][f[i - 1]]

(* A function is defined by its first value and by each value from the one *)
(* before, when these stay in some set.                                    *)
LEMMA FiniteRecursion ==
  ASSUME NEW n \in Nat, NEW V, NEW base \in V, NEW step \in Steps(n, V)
  PROVE  \E f \in [0..n -> V] : Follows(f, n, base, step)
<1> USE DEF Steps, Follows
<1> DEFINE Holds(m, f) == f[0] = base /\ \A i \in 1..m : f[i] = step[i][f[i - 1]]
           S == {m \in 0..n : \E f \in [0..m -> V] : Holds(m, f)}
<1>1. 0 \in S
  <2> DEFINE f == [i \in 0..0 |-> base]
  <2>1. f \in [0..0 -> V] /\ Holds(0, f)
    OBVIOUS
  <2>2. 0 \in 0..n
    OBVIOUS
  <2> HIDE DEF f, Holds
  <2> QED BY <2>1, <2>2
<1>2. ASSUME NEW m \in 0..(n - 1), m \in S
      PROVE  m + 1 \in S
  <2>1. PICK f \in [0..m -> V] : Holds(m, f)
    BY <1>2
  <2> DEFINE g == [i \in 0..(m + 1) |-> IF i = m + 1 THEN step[m + 1][f[m]] ELSE f[i]]
  <2>2. f[m] \in V /\ step[m + 1][f[m]] \in V
    <3>1. m \in 0..m /\ m + 1 \in 1..n
      OBVIOUS
    <3> QED BY <3>1
  <2>3. g \in [0..(m + 1) -> V]
    BY <2>2
  <2>4. g[0] = base
    BY <2>1
  <2>5. ASSUME NEW i \in 1..(m + 1) PROVE g[i] = step[i][g[i - 1]]
    <3>1. CASE i = m + 1
      <4>1. g[i] = step[m + 1][f[m]] /\ g[i - 1] = f[m]
        BY <3>1
      <4> QED BY <3>1, <4>1
    <3>2. CASE i # m + 1
      <4>1. i \in 1..m /\ g[i] = f[i] /\ g[i - 1] = f[i - 1]
        BY <3>2
      <4> QED BY <2>1, <4>1
    <3> QED BY <3>1, <3>2
  <2>6. Holds(m + 1, g)
    BY <2>4, <2>5
  <2>7. m + 1 \in 0..n
    OBVIOUS
  <2> HIDE DEF Holds, g
  <2> QED BY <2>3, <2>6, <2>7
<1>3. \A m \in 0..n : m \in S
  <2> HIDE DEF S
  <2> QED BY <1>1, <1>2, InductionUpTo
<1>4. n \in S
  BY <1>3
<1> QED BY <1>4

=============================================================================
