---------------------------- MODULE SetInduction ----------------------------
(* Induction and recursion over the natural numbers, stated for sets and    *)
(* functions, so that a proof can name what it inducts on: every non-empty  *)
(* set of naturals has a least member, a set closed under successor holds   *)
(* them all, and a step function has the sequence of its iterates.          *)
EXTENDS Integers, WellFoundedInduction, TLAPS

\* Every non-empty set of naturals has a least member.
LEMMA LeastNatural ==
    ASSUME NEW T, T \subseteq Nat, T # {}
    PROVE  \E x \in T : \A y \in T : x <= y
<1> DEFINE R == OpToRel(<, Nat)
<1>1. IsWellFoundedOn(R, Nat)
    BY NatLessThanWellFounded
<1> HIDE DEF R
<1>2. PICK x \in T : \A y \in T : ~(<<y, x>> \in R)
    BY <1>1, WFMin
<1>3. \A y \in T : y < x => <<y, x>> \in R
    BY <1>2 DEF R, OpToRel
<1>4. x \in Nat /\ \A y \in T : y \in Nat /\ ~(y < x)
    BY <1>2, <1>3
<1>5. \A y \in T : x <= y
    BY <1>4
<1>6. QED
    BY <1>5

\* A set that holds 0 and the successor of each of its naturals holds them all.
LEMMA NatBySuccessor ==
    ASSUME NEW S, 0 \in S, \A n \in Nat : n \in S => n + 1 \in S
    PROVE  \A n \in Nat : n \in S
<1> SUFFICES ASSUME Nat \ S # {} PROVE FALSE
    OBVIOUS
<1>1. PICK x \in Nat \ S : \A y \in Nat \ S : x <= y
    BY LeastNatural
<1>2. x # 0 /\ x - 1 \in Nat
    BY <1>1
<1>3. x - 1 \in S
    BY <1>1, <1>2
<1>4. QED
    BY <1>1, <1>2, <1>3

\* f runs from a by the steps of step, for its first k steps.
Iterates(A, a, step, k) ==
    {f \in [0..k -> A] : /\ f[0] = a
                         /\ \A n \in 0..(k - 1) : f[n + 1] = step[n][f[n]]}

LEMMA IteratesExist ==
    ASSUME NEW A, NEW a \in A, NEW step \in [Nat -> [A -> A]], NEW k \in Nat
    PROVE  Iterates(A, a, step, k) # {}
<1> DEFINE S == {n \in Nat : Iterates(A, a, step, n) # {}}
<1>1. 0 \in S
  <2>1. [n \in 0..0 |-> a] \in Iterates(A, a, step, 0)
      BY DEF Iterates
  <2>2. QED
      BY <2>1
<1>2. ASSUME NEW n \in Nat, n \in S PROVE n + 1 \in S
  <2>1. PICK f \in [0..n -> A] : /\ f[0] = a
                                 /\ \A m \in 0..(n - 1) : f[m + 1] = step[m][f[m]]
      BY <1>2 DEF Iterates
  <2>2. step[n][f[n]] \in A
      BY <2>1
  <2> DEFINE g == [m \in 0..(n + 1) |-> IF m = n + 1 THEN step[n][f[n]] ELSE f[m]]
  <2>3. g \in [0..(n + 1) -> A]
      BY <2>1, <2>2
  <2>4. g[0] = a
      BY <2>1
  <2>5. ASSUME NEW m \in 0..((n + 1) - 1) PROVE g[m + 1] = step[m][g[m]]
      BY <2>1, <2>5
  <2>6. g \in Iterates(A, a, step, n + 1)
      BY <2>3, <2>4, <2>5 DEF Iterates
  <2>7. QED
      BY <2>6
<1> HIDE DEF S
<1>3. k \in S
    BY <1>1, <1>2, NatBySuccessor
<1>4. QED
    BY <1>3 DEF S

LEMMA IteratesAgree ==
    ASSUME NEW A, NEW a \in A, NEW step \in [Nat -> [A -> A]],
           NEW k \in Nat, NEW f \in Iterates(A, a, step, k),
           NEW l \in Nat, NEW g \in Iterates(A, a, step, l),
           NEW n \in Nat, n <= k, n <= l
    PROVE  f[n] = g[n]
<1> DEFINE S == {m \in Nat : m <= k /\ m <= l => f[m] = g[m]}
<1>1. 0 \in S
    BY DEF Iterates
<1>2. ASSUME NEW m \in Nat, m \in S PROVE m + 1 \in S
    BY <1>2 DEF Iterates
<1> HIDE DEF S
<1>3. n \in S
    BY <1>1, <1>2, NatBySuccessor
<1>4. QED
    BY <1>3 DEF S

\* f is the infinite run from a.
Iterated(f, A, a, step) ==
    /\ f \in [Nat -> A]
    /\ f[0] = a
    /\ \A n \in Nat : f[n + 1] = step[n][f[n]]

\* A step function has the sequence of its iterates.
LEMMA Recursion ==
    ASSUME NEW A, NEW a \in A, NEW step \in [Nat -> [A -> A]]
    PROVE  \E f : Iterated(f, A, a, step)
<1>1. PICK run : \A k \in Nat : run[k] \in Iterates(A, a, step, k)
  <2> DEFINE run == [k \in Nat |-> CHOOSE f \in Iterates(A, a, step, k) : TRUE]
  <2>1. \A k \in Nat : run[k] \in Iterates(A, a, step, k)
      BY IteratesExist
  <2>2. QED
      BY <2>1
<1>2. ASSUME NEW n \in Nat
      PROVE  /\ run[n][n] \in A
             /\ run[0][0] = a
             /\ run[n + 1][n + 1] = step[n][run[n][n]]
  <2>1. /\ run[0] \in Iterates(A, a, step, 0)
        /\ run[n] \in Iterates(A, a, step, n)
        /\ run[n + 1] \in Iterates(A, a, step, n + 1)
      BY <1>1
  <2>2. run[n + 1][n] = run[n][n]
    <3>1. n <= n /\ n <= n + 1 /\ n + 1 \in Nat
        OBVIOUS
    <3>2. QED
        BY <2>1, <3>1, IteratesAgree
  <2>3. run[n + 1][n + 1] = step[n][run[n + 1][n]]
      BY <2>1 DEF Iterates
  <2>4. QED
      BY <2>1, <2>2, <2>3 DEF Iterates
<1> DEFINE f == [n \in Nat |-> run[n][n]]
<1>3. f \in [Nat -> A]
    BY <1>2
<1>4. f[0] = a /\ \A n \in Nat : f[n + 1] = step[n][f[n]]
    BY <1>2
<1>5. QED
    BY <1>3, <1>4 DEF Iterated
=============================================================================
