----------------------------- MODULE Recursion -----------------------------
(***************************************************************************)
(* Induction and recursion over an interval 0..n, stated for sets instead  *)
(* of for operators: what the proofs about the functions that this project *)
(* defines by recursion over the members of a sequence rest on.            *)
(***************************************************************************)
EXTENDS Integers, WellFoundedInduction, TLAPS

Lesser == {x \in Nat \X Nat : x[1] < x[2]}

LEMMA LesserWellFounded == IsWellFoundedOn(Lesser, Nat)
  <1>1. Lesser = OpToRel(<, Nat)
    BY DEF OpToRel, Lesser
  <1>2. QED
    BY <1>1, NatLessThanWellFounded, Zenon

LEMMA Least ==
  ASSUME NEW R \in SUBSET Nat, R # {}
  PROVE  \E m \in R : \A y \in R : m <= y
  <1>1. PICK m \in R : \A y \in R : ~(<<y, m>> \in Lesser)
    BY LesserWellFounded, WFMin, Zenon
  <1>2. ASSUME NEW y \in R PROVE m <= y
    <2>1. y \in Nat /\ m \in Nat
      OBVIOUS
    <2>2. ~(<<y, m>> \in Lesser)
      BY <1>1
    <2>3. QED
      BY <2>1, <2>2 DEF Lesser
  <1>3. QED
    BY <1>2

\* A set that holds 0, and k whenever it holds k-1, holds the whole interval.
LEMMA IntervalInduction ==
  ASSUME NEW n \in Nat, NEW S, 0 \in S, \A k \in 1..n : k - 1 \in S => k \in S
  PROVE  0..n \subseteq S
  <1> DEFINE T == (0..n) \ S
  <1> SUFFICES ASSUME T # {} PROVE FALSE
    OBVIOUS
  <1>1. T \subseteq Nat
    OBVIOUS
  <1> HIDE DEF T
  <1>2. PICK x \in T : \A y \in T : ~(<<y, x>> \in Lesser)
    BY <1>1, LesserWellFounded, WFMin, Zenon
  <1>3. x \in 0..n /\ x \notin S /\ x # 0
    BY <1>2 DEF T
  <1>4. x - 1 \in 0..n /\ <<x - 1, x>> \in Lesser
    BY <1>3 DEF Lesser
  <1>5. x - 1 \in S
    BY <1>2, <1>4 DEF T
  <1>6. QED
    BY <1>3, <1>5

\* A function into A that starts with "base" and then takes step[k]; and a
\* function that does so for as long as its values are in A.
Defined(n, A, base, step) ==
  \E f \in [0..n -> A] : f[0] = base /\ \A k \in 1..n : f[k] = step[k][f[k-1]]
Unfolds(f, n, A, base, step) ==
  /\ f = [k \in 0..n |-> f[k]]
  /\ f[0] = base /\ \A k \in 1..n : f[k-1] \in A => f[k] = step[k][f[k-1]]

\* There is such a function, with its values in the set that base and the steps stay in.
LEMMA Recursion ==
  ASSUME NEW n \in Nat, NEW A, NEW base \in A, NEW step \in [1..n -> [A -> A]]
  PROVE  Defined(n, A, base, step)
  <1> DEFINE Good(m) == {f \in [0..m -> A] :
                           f[0] = base /\ \A k \in 1..m : f[k] = step[k][f[k-1]]}
             S == {m \in 0..n : Good(m) # {}}
  <1>1. 0 \in S
    <2>1. [i \in 0..0 |-> base] \in Good(0)
      OBVIOUS
    <2>2. QED
      BY <2>1
  <1>2. ASSUME NEW m \in 1..n, m - 1 \in S PROVE m \in S
    <2>1. PICK f : f \in Good(m-1)
      BY <1>2
    <2> DEFINE g == [i \in 0..m |-> IF i = m THEN step[m][f[m-1]] ELSE f[i]]
    <2>2. f[m-1] \in A /\ step[m][f[m-1]] \in A
      BY <2>1
    <2>3. g \in [0..m -> A]
      BY <2>1, <2>2
    <2>4. g[0] = base
      BY <2>1
    <2>5. ASSUME NEW k \in 1..m PROVE g[k] = step[k][g[k-1]]
      <3>1. CASE k = m
        BY <3>1
      <3>2. CASE k # m
        BY <3>2, <2>1
      <3>3. QED
        BY <3>1, <3>2
    <2>6. g \in Good(m)
      BY <2>3, <2>4, <2>5
    <2>7. QED
      BY <2>6
  <1> HIDE DEF S
  <1>3. 0..n \subseteq S
    BY <1>1, <1>2, IntervalInduction
  <1>4. n \in S
    BY <1>3
  <1>5. QED
    BY <1>4 DEF S, Defined

\* The same for the function that a recursive definition chooses.
LEMMA RecursiveFunction ==
  ASSUME NEW n \in Nat, NEW A, NEW base \in A, NEW step \in [1..n -> [A -> A]],
         NEW f, Unfolds(f, n, A, base, step)
  PROVE  f \in [0..n -> A]
  <1> DEFINE S == {k \in 0..n : f[k] \in A}
  <1> USE DEF Unfolds
  <1>1. 0 \in S
    OBVIOUS
  <1>2. ASSUME NEW k \in 1..n, k - 1 \in S PROVE k \in S
    <2>1. f[k-1] \in A
      BY <1>2
    <2>2. f[k] = step[k][f[k-1]]
      BY <2>1
    <2>3. QED
      BY <2>1, <2>2
  <1> HIDE DEF S
  <1>3. 0..n \subseteq S
    BY <1>1, <1>2, IntervalInduction
  <1>4. \A k \in 0..n : f[k] \in A
    BY <1>3 DEF S
  <1>5. QED
    BY <1>4

\* A function on all of Nat by recursion, with the same step everywhere.
LEMMA NatRecursion ==
  ASSUME NEW A, NEW base \in A, NEW step \in [A -> A]
  PROVE  \E f \in [Nat -> A] : f[0] = base /\ \A n \in Nat \ {0} : f[n] = step[f[n-1]]
  <1> DEFINE Good(n) == {f \in [0..n -> A] : f[0] = base /\ \A k \in 1..n : f[k] = step[f[k-1]]}
             one(n) == CHOOSE f : f \in Good(n)
             h == [n \in Nat |-> one(n)[n]]
  <1>1. ASSUME NEW n \in Nat PROVE one(n) \in Good(n)
    <2> DEFINE steps == [k \in 1..n |-> step]
    <2>1. steps \in [1..n -> [A -> A]]
      OBVIOUS
    <2>2. \A k \in 1..n : steps[k] = step
      OBVIOUS
    <2> HIDE DEF steps
    <2>3. Defined(n, A, base, steps)
      BY <2>1, Recursion
    <2>4. \E f : f \in Good(n)
      BY <2>2, <2>3 DEF Defined
    <2> HIDE DEF Good
    <2>5. QED
      BY <2>4, Zenon
  <1>2. ASSUME NEW n \in Nat, NEW m \in 0..n, NEW f \in Good(n), NEW g \in Good(m)
        PROVE  f[m] = g[m]
    <2> DEFINE S == {k \in 0..m : f[k] = g[k]}
    <2>1. m \in Nat /\ 0 \in S
      OBVIOUS
    <2>2. ASSUME NEW k \in 1..m, k - 1 \in S PROVE k \in S
      BY <2>2
    <2> HIDE DEF S
    <2>3. 0..m \subseteq S
      BY ONLY <2>1, <2>2, IntervalInduction
    <2>4. QED
      BY <2>1, <2>3 DEF S
  <1>3. h \in [Nat -> A]
    <2>1. \A n \in Nat : one(n)[n] \in A
      BY <1>1
    <2> HIDE DEF one, Good
    <2>2. QED
      BY <2>1
  <1>4. h[0] = base
    BY <1>1
  <1>5. ASSUME NEW n \in Nat \ {0} PROVE h[n] = step[h[n-1]]
    <2>0. n - 1 \in Nat /\ n - 1 \in 0..n /\ n \in 1..n /\ n \in Nat
      OBVIOUS
    <2> HIDE DEF one
    <2>1. one(n) \in Good(n) /\ one(n-1) \in Good(n-1)
      BY <1>1, <2>0
    <2>2. one(n)[n-1] = one(n-1)[n-1]
      BY <1>2, <2>0, <2>1
    <2>3. one(n)[n] = step[one(n)[n-1]]
      BY <2>0, <2>1
    <2>4. QED
      BY <2>0, <2>2, <2>3
  <1> HIDE DEF h
  <1>6. QED
    BY <1>3, <1>4, <1>5
=============================================================================
