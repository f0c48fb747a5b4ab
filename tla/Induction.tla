------------------------------ MODULE Induction ------------------------------
(***************************************************************************)
(* The induction the other proofs need: a set of numbers has a least, what *)
(* holds of 0 and is handed on holds up to N, and a recursive definition   *)
(* over 0 .. N defines a function.                                         *)
(***************************************************************************)
EXTENDS Integers, NaturalsInduction, WellFoundedInduction, TLAPS

\* A set of numbers has a least.
LEMMA Least ==
  ASSUME NEW S \in SUBSET Nat, S # {}
  PROVE  \E i \in S : \A j \in S : i <= j
<1>1. PICK i \in S : \A j \in S : <<j, i>> \notin OpToRel(<, Nat)
  BY WFMin, NatLessThanWellFounded
<1>2. OpToRel(<, Nat) = {ss \in Nat \X Nat : ss[1] < ss[2]}
  BY Zenon DEF OpToRel
<1>3. ASSUME NEW j \in S
      PROVE  i <= j
  <2>1. i \in Nat /\ j \in Nat /\ <<j, i>> \in Nat \X Nat
    OBVIOUS
  <2>2. ~ (<<j, i>>[1] < <<j, i>>[2])
    BY <1>1, <1>2, <2>1
  <2>. QED
    BY <2>1, <2>2
<1>. QED
  BY <1>3

\* ... and, up to N, a greatest.
LEMMA Greatest ==
  ASSUME NEW N \in Nat, NEW S \in SUBSET (0 .. N), S # {}
  PROVE  \E i \in S : \A j \in S : i >= j
<1> DEFINE R == {N - i : i \in S}
<1>1. R \in SUBSET Nat /\ R # {}
  <2>1. ASSUME NEW i \in S PROVE N - i \in Nat
    OBVIOUS
  <2>2. R \in SUBSET Nat
    BY <2>1
  <2>3. PICK i : i \in S
    OBVIOUS
  <2>4. N - i \in R
    BY <2>3
  <2>. QED
    BY <2>2, <2>4
<1>2. PICK m \in R : \A k \in R : m <= k
  BY <1>1, Least
<1>3. PICK i \in S : m = N - i
  BY <1>2
<1>4. ASSUME NEW j \in S PROVE i >= j
  <2>1. N - j \in R
    OBVIOUS
  <2>2. N - i <= N - j /\ i \in 0 .. N /\ j \in 0 .. N
    BY <1>2, <1>3, <2>1
  <2>. QED
    BY <2>2
<1>. QED
  BY <1>4

\* What holds of 0, and of a number whenever of the one before, holds of all up to N.
LEMMA Upwards ==
  ASSUME NEW N \in Nat, NEW G \in SUBSET Nat, 0 \in G,
         \A n \in 1 .. N : n - 1 \in G => n \in G
  PROVE  0 .. N \subseteq G
<1> SUFFICES ASSUME (0 .. N) \ G # {} PROVE FALSE
  OBVIOUS
<1>1. (0 .. N) \ G \in SUBSET Nat
  OBVIOUS
<1>2. PICK n \in (0 .. N) \ G : \A m \in (0 .. N) \ G : n <= m
  BY <1>1, Least
<1>3. n \in 1 .. N /\ n - 1 \in 0 .. N /\ ~(n <= n - 1)
  BY <1>2
<1>. QED
  BY <1>2, <1>3

\* A recursive definition over 0 .. N by a step function defines a function.
Rule(F, S, N)       == F \in [1 .. N -> [S -> S]]
Obeys(f, a, F, S, N) ==
  f \in [0 .. N -> S] /\ f[0] = a /\ \A n \in 1 .. N : f[n] = F[n][f[n - 1]]

LEMMA Recursion ==
  ASSUME NEW S, NEW a \in S, NEW N \in Nat, NEW F, Rule(F, S, N)
  PROVE  \E f : Obeys(f, a, F, S, N)
<1> DEFINE Good(m, f) == /\ f \in [0 .. m -> S] /\ f[0] = a
                         /\ \A n \in 1 .. m : f[n] = F[n][f[n - 1]]
           G == {m \in 0 .. N : \E f : Good(m, f)}
<1> USE DEF Rule
<1>1. 0 \in G
  <2>1. Good(0, [n \in 0 .. 0 |-> a])
    OBVIOUS
  <2> HIDE DEF Good
  <2>. QED
    BY <2>1
<1>2. ASSUME NEW m \in 1 .. N, m - 1 \in G
      PROVE  m \in G
  <2>1. PICK f : Good(m - 1, f)
    BY <1>2
  <2> DEFINE g == [n \in 0 .. m |-> IF n = m THEN F[m][f[m - 1]] ELSE f[n]]
  <2>2. f[m - 1] \in S /\ F[m][f[m - 1]] \in S
    BY <2>1
  <2>3. g \in [0 .. m -> S] /\ g[0] = a
    BY <2>1, <2>2
  <2>a. /\ m \in Nat /\ f \in [0 .. m - 1 -> S] /\ f[0] = a
        /\ \A n \in 1 .. m - 1 : f[n] = F[n][f[n - 1]]
    BY <2>1
  <2>4. ASSUME NEW n \in 1 .. m
        PROVE  g[n] = F[n][g[n - 1]]
    <3>1. n - 1 \in 0 .. m - 1 /\ n \in 0 .. m /\ n - 1 \in 0 .. m /\ n - 1 # m
      BY <2>a
    <3>2. g[n - 1] = f[n - 1]
      BY <3>1
    <3>3. CASE n = m
      BY <3>1, <3>2, <3>3
    <3>4. CASE n # m
      <4>1. n \in 1 .. m - 1 /\ g[n] = f[n]
        BY <3>1, <3>4
      <4>. QED
        BY <2>a, <3>2, <4>1
    <3>. QED
      BY <3>3, <3>4
  <2>5. Good(m, g)
    BY <2>3, <2>4
  <2> HIDE DEF Good, g
  <2>. QED
    BY <2>5
<1>3. N \in G
  <2> HIDE DEF G
  <2>1. G \in SUBSET Nat
    BY DEF G
  <2>2. 0 .. N \subseteq G
    BY <1>1, <1>2, <2>1, Upwards
  <2>. QED
    BY <2>2
<1>4. PICK f : Good(N, f)
  BY <1>3
<1>. QED
  BY <1>4 DEF Obeys
=============================================================================
