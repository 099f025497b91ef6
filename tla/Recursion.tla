------------------------------ MODULE Recursion ------------------------------
(***************************************************************************)
(* Induction over the natural numbers and recursive functions on an        *)
(* interval, stated with sets and functions in place of operators.         *)
(***************************************************************************)
EXTENDS Integers, WellFoundedInduction, TLAPS

\* A set of natural numbers has a least element.
LEMMA NatMin ==
    ASSUME NEW T, T \subseteq Nat, T # {}
    PROVE  \E n \in T : \A m \in T : n <= m
<1>1. PICK R : R = OpToRel(<, Nat)
  OBVIOUS
<1>2. IsWellFoundedOn(R, Nat)
  BY <1>1, NatLessThanWellFounded
<1>3. PICK n \in T : \A m \in T : ~(<<m, n>> \in R)
  BY <1>2, WFMin
<1>4. ASSUME NEW m \in T
      PROVE  n <= m
  <2>1. m \in Nat /\ n \in Nat
    OBVIOUS
  <2>2. CASE m < n
    <3>1. <<m, n>> \in R
      BY <1>1, <2>1, <2>2 DEF OpToRel
    <3>2. QED
      BY <1>3, <3>1
  <2>3. QED
    BY <2>1, <2>2
<1>5. QED
  BY <1>4

\* What holds at 0, and at n + 1 if at n, holds up to k.
LEMMA Induction ==
    ASSUME NEW k \in Nat, NEW S, 0 \in S, \A n \in 0 .. k - 1 : n \in S => n + 1 \in S
    PROVE  0 .. k \subseteq S
<1> DEFINE T == (0 .. k) \ S
<1>1. SUFFICES ASSUME T # {} PROVE FALSE
  OBVIOUS
<1>2. PICK n \in T : \A m \in T : n <= m
  <2>1. T \subseteq Nat /\ T # {}
    BY <1>1
  <2> HIDE DEF T
  <2>2. QED
    BY <2>1, NatMin
<1>3. n \in 1 .. k
  <2>1. n \in 0 .. k /\ n \notin S
    OBVIOUS
  <2>2. n # 0
    BY <2>1
  <2>3. QED
    BY <2>1, <2>2
<1>4. n - 1 \in 0 .. k - 1 /\ n - 1 \notin T
  BY <1>2, <1>3
<1>5. QED
  BY <1>3, <1>4

Steps(k, V) == [1 .. k -> [V -> V]]

\* f[0] is a, and f[n] is what step n makes of f[n - 1].
Runs(f, k, V, a, step) ==
    /\ f \in [0 .. k -> V]
    /\ f[0] = a
    /\ \A n \in 1 .. k : f[n] = step[n][f[n - 1]]

\* The values of a recursion exist, ...
LEMMA RecursionExists ==
    ASSUME NEW k \in Nat, NEW V, NEW a \in V, NEW step \in Steps(k, V)
    PROVE  \E f : Runs(f, k, V, a, step)
<1> USE DEF Steps
<1> DEFINE Upto(j, f) == /\ f \in [0 .. j -> V] /\ f[0] = a
                         /\ \A n \in 1 .. j : f[n] = step[n][f[n - 1]]
           S == {j \in 0 .. k : \E f : Upto(j, f)}
<1>1. 0 \in S
  <2>1. PICK f : f = [n \in 0 .. 0 |-> a]
    OBVIOUS
  <2>2. Upto(0, f)
    BY <2>1
  <2>3. QED
    BY <2>2
<1>2. ASSUME NEW j \in 0 .. k - 1, j \in S
      PROVE  j + 1 \in S
  <2>1. PICK f : Upto(j, f)
    BY <1>2
  <2>2. PICK g : g = [n \in 0 .. j + 1 |-> IF n = j + 1 THEN step[j + 1][f[j]] ELSE f[n]]
    OBVIOUS
  <2>3. f[j] \in V /\ step[j + 1] \in [V -> V]
    BY <1>2, <2>1
  <2>4. step[j + 1][f[j]] \in V
    BY <2>3
  <2>5. /\ DOMAIN g = 0 .. j + 1 /\ \A n \in 0 .. j : g[n] = f[n] /\ f[n] \in V
        /\ g[j + 1] = step[j + 1][f[j]]
    BY <2>1, <2>2
  <2>6. g \in [0 .. j + 1 -> V]
    <3>1. \A n \in 0 .. j + 1 : g[n] \in V
      <4>1. TAKE n \in 0 .. j + 1
      <4>2. n = j + 1 \/ n \in 0 .. j
        OBVIOUS
      <4>3. QED
        BY <2>4, <2>5, <4>2
    <3>2. QED
      BY <2>2, <3>1
  <2>7. \A n \in 1 .. j + 1 : g[n] = step[n][g[n - 1]]
    <3>1. TAKE n \in 1 .. j + 1
    <3>2. CASE n = j + 1
      BY <2>5, <3>2
    <3>3. CASE n # j + 1
      <4>1. n \in 1 .. j /\ n - 1 \in 0 .. j
        BY <3>3
      <4>2. QED
        BY <2>1, <2>5, <4>1
    <3>4. QED
      BY <3>2, <3>3
  <2>8. Upto(j + 1, g)
    BY <2>1, <2>5, <2>6, <2>7
  <2>9. j + 1 \in 0 .. k
    OBVIOUS
  <2>10. QED
    BY <2>8, <2>9
<1> HIDE DEF Upto
<1>3. 0 .. k \subseteq S
  BY <1>1, <1>2, Induction
<1>4. PICK f : Upto(k, f)
  BY <1>3
<1>5. QED
  BY <1>4 DEF Upto, Runs

\* ... and are unique.
LEMMA RecursionUnique ==
    ASSUME NEW k \in Nat, NEW V, NEW a, NEW step, NEW f, Runs(f, k, V, a, step),
           NEW g, g[0] = a, \A n \in 1 .. k : g[n - 1] \in V => g[n] = step[n][g[n - 1]]
    PROVE  \A n \in 0 .. k : g[n] = f[n]
<1> USE DEF Runs
<1> DEFINE S == {n \in 0 .. k : g[n] = f[n]}
<1>1. 0 \in S
  OBVIOUS
<1>2. ASSUME NEW n \in 0 .. k - 1, n \in S
      PROVE  n + 1 \in S
  <2>1. n + 1 \in 1 .. k /\ (n + 1) - 1 = n /\ g[n] = f[n] /\ f[n] \in V
    BY <1>2
  <2>2. QED
    BY <2>1
<1>3. 0 .. k \subseteq S
  BY <1>1, <1>2, Induction
<1>4. QED
  BY <1>3
=============================================================================
