---------------------------- MODULE SearchProofs ----------------------------
(***************************************************************************)
(* The search core for every set of bundles, queries, builders and limits: *)
(* what an open core serves is the bundle it was opened for, what replaces *)
(* a published index can be opened, and an expansion of the graph is a     *)
(* breadth-first search.                                                   *)
(*                                                                         *)
(* The invariant of the search (Walking) says of every document that was   *)
(* reached that it still waits in the queue, or that its neighbours were   *)
(* reached too, or that it is as far as the request goes (Explored): with  *)
(* the depths in the queue (Waiting) it follows that whatever is nearer    *)
(* than the head of the queue was reached (NearVisited).                   *)
(*                                                                         *)
(* The last two theorems are about the bundle and its tables: the exact    *)
(* stages of the index find what the reference resolver finds, in the same *)
(* order, although the one sorts rows and the other documents (SameOrder), *)
(* and the catalog counts what browsing shows (FacetsAddUp).               *)
(***************************************************************************)
EXTENDS SearchCore, Recursion, FiniteSetTheorems, SequenceTheorems

-----------------------------------------------------------------------------
(* Balls around the seeds. *)

LEMMA BallUnfolds ==
  /\ Ball[0] = seeds
  /\ \A n \in Nat \ {0} : Ball[n] = Ball[n-1] \union Neighbours(Ball[n-1])
  <1> DEFINE A == SUBSET (seeds \union {e.source : e \in edges} \union {e.target : e \in edges})
             step == [S \in A |-> S \union Neighbours(S)]
             F(f) == [n \in Nat |-> IF n = 0 THEN seeds ELSE LET near == f[n-1] IN near \union Neighbours(near)]
  <1>1. seeds \in A /\ step \in [A -> A]
    BY DEF Neighbours
  <1>2. \A S \in A : step[S] = S \union Neighbours(S)
    OBVIOUS
  <1>3. Ball = CHOOSE f : f = F(f)
    BY DEF Ball
  <1> HIDE DEF A, step
  <1>4. PICK f \in [Nat -> A] : f[0] = seeds /\ \A n \in Nat \ {0} : f[n] = step[f[n-1]]
    BY <1>1, NatRecursion
  <1>5. f = F(f)
    BY <1>2, <1>4
  <1>6. Ball = F(Ball)
    BY <1>3, <1>5
  <1>7. QED
    BY <1>6

LEMMA BallSame ==
  ASSUME UNCHANGED <<edges, request>>
  PROVE  Ball' = Ball
  BY DEF Ball, Neighbours, request

LEMMA BallGrows ==
  ASSUME NEW m \in Nat, NEW n \in Nat, m <= n
  PROVE  Ball[m] \subseteq Ball[n]
  <1> DEFINE S == {k \in Nat : Ball[m] \subseteq Ball[m+k]}
  <1>1. 0 \in S
    OBVIOUS
  <1>2. ASSUME NEW k \in 1..(n-m), k - 1 \in S PROVE k \in S
    <2>1. Ball[m+k] = Ball[m+k-1] \union Neighbours(Ball[m+k-1])
      BY BallUnfolds
    <2>2. QED
      BY <1>2, <2>1
  <1> HIDE DEF S
  <1>3. 0..(n-m) \subseteq S
    BY <1>1, <1>2, IntervalInduction
  <1>4. QED
    BY <1>3 DEF S

\* One hop is a hop from some document, over one of its candidates.
LEMMA Hops ==
  /\ \A S : \A y \in Neighbours(S) : \E x \in S : y \in Neighbours({x})
  /\ \A S : \A x \in S : Neighbours({x}) \subseteq Neighbours(S)
  /\ \A x : Neighbours({x}) = {c.target : c \in {c \in Candidates(x) : c.type \in allowed}}
  <1>1. \A S : \A y \in Neighbours(S) : \E x \in S : y \in Neighbours({x})
    BY DEF Neighbours
  <1>2. \A S : \A x \in S : Neighbours({x}) \subseteq Neighbours(S)
    BY DEF Neighbours
  <1>3. ASSUME NEW x PROVE Neighbours({x}) = {c.target : c \in {c \in Candidates(x) : c.type \in allowed}}
    <2>1. ASSUME NEW c \in Candidates(x), c.type \in allowed PROVE c.target \in Neighbours({x})
      BY <2>1 DEF Neighbours, Candidates
    <2>2. ASSUME NEW y \in Neighbours({x}) PROVE \E c \in Candidates(x) : c.type \in allowed /\ c.target = y
      <3>1. PICK e \in edges : /\ e.type \in allowed
                              /\ \/ e.source = x /\ direction # "incoming" /\ y = e.target
                                 \/ e.target = x /\ direction # "outgoing" /\ y = e.source
        BY DEF Neighbours
      <3>2. CASE e.source = x /\ direction # "incoming" /\ y = e.target
        <4> DEFINE c == [target |-> e.target, type |-> e.type, direction |-> "outgoing"]
        <4>1. c \in Candidates(x)
          BY <3>2 DEF Candidates
        <4>2. QED
          BY <3>1, <3>2, <4>1
      <3>3. CASE e.target = x /\ direction # "outgoing" /\ y = e.source
        <4> DEFINE c == [target |-> e.source, type |-> e.type, direction |-> "incoming"]
        <4>1. c \in Candidates(x)
          BY <3>3 DEF Candidates
        <4>2. QED
          BY <3>1, <3>3, <4>1
      <3>4. QED
        BY <3>1, <3>2, <3>3
    <2>3. QED
      BY <2>1, <2>2
  <1>4. QED
    BY <1>1, <1>2, <1>3

-----------------------------------------------------------------------------
(* The seeds in their order. *)

IsAscending(f, S) ==
  /\ f \in [1..Cardinality(S) -> S]
  /\ \A i, j \in 1..Cardinality(S) : i < j => f[i] < f[j]

LEMMA AscendingExists ==
  ASSUME NEW S \in SUBSET Document
  PROVE  \E f : IsAscending(f, S)
  <1> USE GraphAssumption
  <1> DEFINE T == {n \in Nat : \A R \in SUBSET Document : Cardinality(R) = n => \E f : IsAscending(f, R)}
             N == Cardinality(S)
  <1>0. \A R \in SUBSET Document : IsFiniteSet(R) /\ Cardinality(R) \in Nat
    BY FS_Subset, FS_CardinalityType
  <1>1. 0 \in T
    <2>1. \A R \in SUBSET Document : Cardinality(R) = 0 => IsAscending(<<>>, R)
      BY <1>0, FS_EmptySet DEF IsAscending
    <2>2. QED
      BY <2>1
  <1>2. ASSUME NEW n \in 1..N, n - 1 \in T PROVE n \in T
    <2>1. n \in Nat
      BY <1>0
    <2> SUFFICES ASSUME NEW R \in SUBSET Document, Cardinality(R) = n PROVE \E f : IsAscending(f, R)
      BY <2>1
    <2>2. R \subseteq Nat /\ R # {}
      BY <1>0, FS_EmptySet
    <2>4. PICK m \in R : \A y \in R : m <= y
      BY <2>2, Least
    <2> DEFINE Q == R \ {m}
    <2>5. Q \in SUBSET Document /\ Cardinality(Q) = n - 1
      BY <1>0, FS_RemoveElement
    <2>6. PICK g : IsAscending(g, Q)
      BY <1>2, <2>5
    <2> DEFINE f == [i \in 1..n |-> IF i = 1 THEN m ELSE g[i-1]]
    <2>7. g \in [1..(n-1) -> Q] /\ \A i, j \in 1..(n-1) : i < j => g[i] < g[j]
      BY <2>5, <2>6 DEF IsAscending
    <2>8. f \in [1..n -> R]
      BY <2>1, <2>7
    <2>9. ASSUME NEW i \in 1..n, NEW j \in 1..n, i < j PROVE f[i] < f[j]
      <3>1. f[j] = g[j-1] /\ j - 1 \in 1..(n-1) /\ g[j-1] \in Q
        BY <2>1, <2>7, <2>9
      <3>2. CASE i = 1
        <4>1. f[i] = m /\ g[j-1] \in R /\ g[j-1] # m
          BY <2>9, <3>1, <3>2
        <4>2. m <= g[j-1] /\ m \in Nat /\ g[j-1] \in Nat
          BY <2>2, <2>4, <4>1
        <4>3. QED
          BY <3>1, <4>1, <4>2
      <3>3. CASE i # 1
        <4>1. i - 1 \in 1..(n-1) /\ i - 1 < j - 1 /\ f[i] = g[i-1]
          BY <2>1, <2>9, <3>3
        <4>2. g[i-1] < g[j-1]
          BY <2>7, <3>1, <4>1
        <4>3. QED
          BY <3>1, <4>1, <4>2
      <3>4. QED
        BY <3>2, <3>3
    <2> HIDE DEF f
    <2>10. IsAscending(f, R)
      BY <2>8, <2>9 DEF IsAscending
    <2>11. QED
      BY <2>10
  <1> HIDE DEF T
  <1>3. N \in Nat /\ 0..N \subseteq T
    BY <1>0, <1>1, <1>2, IntervalInduction
  <1>4. QED
    BY <1>3 DEF T

\* The first visits are those of the seeds, and of each of them.
LEMMA VisitsOfSeeds ==
  ASSUME NEW S \in SUBSET Document
  PROVE  /\ Visits(S) \in Seq([id : S, depth : {0}])
         /\ \A x \in S : \E i \in 1..Len(Visits(S)) : Visits(S)[i].id = x
  <1> DEFINE n == Cardinality(S)
             f == Ascending(S)
  <1>1. IsFiniteSet(S) /\ n \in Nat
    BY FS_Subset, FS_CardinalityType, GraphAssumption
  <1>2. IsAscending(f, S)
    BY AscendingExists DEF IsAscending, Ascending
  <1>3. f \in [1..n -> S] /\ \A i, j \in 1..n : i < j => f[i] < f[j]
    BY <1>2 DEF IsAscending
  <1>4. f \in Injection(1..n, S)
    <2>1. \A i, j \in 1..n : f[i] = f[j] => i = j
      <3> SUFFICES ASSUME NEW i \in 1..n, NEW j \in 1..n, f[i] = f[j] PROVE i = j
        OBVIOUS
      <3>1. f[i] \in Nat /\ f[j] \in Nat
        BY <1>3, GraphAssumption
      <3>2. QED
        BY <1>1, <1>3, <3>1
    <2>2. QED
      BY <1>3, <2>1 DEF Injection, IsInjective
  <1>5. f \in Surjection(1..n, S)
    BY <1>1, <1>4, FS_Injection, FS_Interval
  <1> HIDE DEF f
  <1>6. Visits(S) = [i \in 1..n |-> [id |-> f[i], depth |-> 0]]
    BY DEF Visits, f
  <1>7. ASSUME NEW i \in 1..n PROVE Visits(S)[i] \in [id : S, depth : {0}] /\ Visits(S)[i].id = f[i]
    BY <1>3, <1>6
  <1> DEFINE Visit == [id : S, depth : {0}]
  <1>8. Visits(S) \in [1..n -> Visit]
    BY <1>6, <1>7
  <1> HIDE DEF Visit
  <1>9. Visits(S) \in Seq(Visit) /\ Len(Visits(S)) = n
    BY <1>1, <1>8
  <1>10. \A x \in S : \E i \in 1..n : f[i] = x
    BY <1>5 DEF Surjection
  <1>11. QED
    BY <1>7, <1>9, <1>10 DEF Visit

-----------------------------------------------------------------------------
(* The invariant of the search. *)

Visit == [id : Document, depth : 0..MaxDepth]

GraphTyped ==
  /\ edges \subseteq Edge /\ seeds \subseteq Document /\ visited \subseteq Document
  /\ depth \in 0..MaxDepth /\ limit \in Nat \ {0}
  /\ pc \in {"idle", "expanding", "done"}
  /\ queue \in Seq(Visit) /\ out \in Seq(Pivot)

\* What waits is as far from the seeds as it says, and was reported there.
Waiting ==
  \A i \in 1..Len(queue) :
    /\ queue[i].id \in visited /\ queue[i].depth <= depth
    /\ queue[i].id \in Ball[queue[i].depth]
    /\ queue[i].depth = 0 => queue[i].id \in seeds
    /\ queue[i].depth # 0 =>
         /\ queue[i].id \notin Ball[queue[i].depth - 1]
         /\ \E j \in 1..Len(out) : out[j].target = queue[i].id /\ out[j].depth = queue[i].depth

\* The queue is in the order of the depths, which differ by one at most.
Layered ==
  \A i, j \in 1..Len(queue) :
    /\ i <= j => queue[i].depth <= queue[j].depth
    /\ queue[j].depth <= queue[1].depth + 1

Queued(x) == \E i \in 1..Len(queue) : queue[i].id = x

\* What was reached and does not wait needs no more visit.
Explored ==
  \A x \in visited : Queued(x) \/ Neighbours({x}) \subseteq visited \/ x \notin Ball[depth-1]

Walking ==
  /\ depth # 0 /\ Len(out) < limit /\ visited = seeds \union Reported
  /\ \A i \in 1..Len(out) : out[i].depth <= depth
  /\ Waiting /\ Layered /\ Explored

GraphInv ==
  /\ GraphTyped
  /\ pc = "idle" => Quiet
  /\ pc = "expanding" => Walking
  /\ ExpansionSound

LEMMA Typing ==
  /\ MaxDepth \in Nat
  /\ GraphTyped => depth \in Nat /\ depth <= MaxDepth
  /\ GraphTyped => \A i \in 1..Len(queue) : queue[i].id \in Document /\ queue[i].depth \in Nat
  /\ GraphTyped => \A i \in 1..Len(out) : out[i] \in Pivot /\ out[i].depth \in Nat \ {0}
  <1>1. MaxDepth \in Nat
    BY GraphAssumption
  <1>2. GraphTyped => \A i \in 1..Len(queue) : queue[i] \in Visit
    BY DEF GraphTyped
  <1>3. GraphTyped => \A i \in 1..Len(out) : out[i] \in Pivot
    BY DEF GraphTyped
  <1>4. QED
    BY <1>1, <1>2, <1>3 DEF GraphTyped, Visit, Pivot

\* What is as near as the whole queue was reached.
LEMMA NearVisited ==
  ASSUME GraphTyped, Walking, NEW n \in 0..depth, \A i \in 1..Len(queue) : n <= queue[i].depth
  PROVE  Ball[n] \subseteq visited
  <1> DEFINE S == {k \in 0..n : Ball[k] \subseteq visited}
  <1>0. n \in Nat /\ depth \in Nat /\ n <= depth
    BY Typing
  <1>1. 0 \in S
    BY <1>0, BallUnfolds DEF Walking
  <1>2. ASSUME NEW k \in 1..n, k - 1 \in S PROVE k \in S
    <2>1. Ball[k] = Ball[k-1] \union Neighbours(Ball[k-1]) /\ Ball[k-1] \subseteq visited
      BY <1>0, <1>2, BallUnfolds
    <2>2. ASSUME NEW y \in Neighbours(Ball[k-1]) PROVE y \in visited
      <3>1. PICK x \in Ball[k-1] : y \in Neighbours({x})
        BY <2>2, Hops
      <3>2. x \in Ball[depth-1]
        BY <1>0, <3>1, BallGrows
      <3>3. ~Queued(x)
        <4> SUFFICES ASSUME NEW i \in 1..Len(queue), queue[i].id = x PROVE FALSE
          BY DEF Queued
        <4>1. queue[i].depth \in Nat /\ n <= queue[i].depth
          BY Typing
        <4>2. x \in Ball[queue[i].depth - 1]
          BY <1>0, <3>1, <4>1, BallGrows
        <4>3. QED
          BY <1>0, <4>1, <4>2 DEF Walking, Waiting
      <3>4. QED
        BY <2>1, <3>1, <3>2, <3>3 DEF Walking, Explored
    <2>3. QED
      BY <2>1, <2>2
  <1> HIDE DEF S
  <1>3. 0..n \subseteq S
    BY <1>0, <1>1, <1>2, IntervalInduction
  <1>4. QED
    BY <1>0, <1>3 DEF S

\* What a request begins with, and what a graph without a request rests with.
Begun ==
  /\ edges \subseteq Edge /\ seeds \subseteq Document
  /\ depth \in 0..MaxDepth /\ limit \in Nat \ {0} /\ out = <<>>
  /\ visited = (IF depth = 0 THEN {} ELSE seeds)
  /\ queue = (IF depth = 0 THEN <<>> ELSE Visits(seeds))
  /\ pc = (IF depth = 0 THEN "done" ELSE "expanding")

Rests ==
  /\ edges \subseteq Edge
  /\ seeds = {} /\ depth = 0 /\ allowed = {} /\ direction = "both" /\ limit = 1
  /\ queue = <<>> /\ visited = {} /\ out = <<>> /\ pc \in {"idle", "done"}

LEMMA NothingReported ==
  ASSUME out = <<>>, depth = 0, limit \in Nat \ {0}
  PROVE  ExpansionSound
  <1>1. Len(out) = 0 /\ Reported = {}
    BY DEF Reported
  <1>2. DepthIsDistance /\ PathBack
    BY <1>1 DEF DepthIsDistance, PathBack
  <1>3. NearestOnly
    BY <1>1, BallUnfolds DEF NearestOnly
  <1>4. QED
    BY <1>2, <1>3 DEF ExpansionSound

LEMMA RestsSound == Rests => GraphInv
  <1> SUFFICES ASSUME Rests PROVE GraphInv
    OBVIOUS
  <1>1. GraphTyped
    BY Typing DEF Rests, GraphTyped
  <1>2. ExpansionSound
    BY NothingReported DEF Rests
  <1>3. QED
    BY <1>1, <1>2 DEF GraphInv, Rests, Quiet

LEMMA BegunSound == Begun => GraphInv
  <1> SUFFICES ASSUME Begun PROVE GraphInv
    OBVIOUS
  <1>0. Len(out) = 0 /\ Reported = {} /\ out \in Seq(Pivot)
    BY DEF Begun, Reported
  <1>1. CASE depth = 0
    <2>1. GraphTyped
      BY <1>0, <1>1 DEF Begun, GraphTyped
    <2>2. ExpansionSound
      BY <1>1, NothingReported DEF Begun
    <2>3. QED
      BY <1>1, <2>1, <2>2 DEF GraphInv, Begun
  <1>2. CASE depth # 0
    <2>1. /\ visited = seeds /\ queue = Visits(seeds) /\ pc = "expanding"
          /\ seeds \subseteq Document /\ edges \subseteq Edge
          /\ depth \in 0..MaxDepth /\ limit \in Nat \ {0}
      BY <1>2 DEF Begun
    <2> DEFINE V == [id : seeds, depth : {0}]
    <2>2. queue \in Seq(V) /\ \A x \in seeds : \E i \in 1..Len(queue) : queue[i].id = x
      BY <2>1, VisitsOfSeeds
    <2>3. V \subseteq Visit
      BY <2>1, Typing DEF Visit
    <2>4. \A v \in V : v.id \in seeds /\ v.depth = 0
      OBVIOUS
    <2> HIDE DEF V
    <2>5. queue \in Seq(Visit) /\ \A i \in 1..Len(queue) : queue[i].id \in seeds /\ queue[i].depth = 0
      BY <2>2, <2>3, <2>4
    <2>6. GraphTyped
      BY <1>0, <2>1, <2>5 DEF GraphTyped
    <2>7. Waiting
      BY <2>1, <2>5, BallUnfolds DEF Waiting
    <2>8. Layered
      BY <2>5 DEF Layered
    <2>9. Explored
      BY <2>1, <2>2 DEF Explored, Queued
    <2>10. Walking
      BY <1>0, <1>2, <2>1, <2>7, <2>8, <2>9 DEF Walking
    <2>11. ExpansionSound
      BY <1>0, <2>1 DEF ExpansionSound, DepthIsDistance, NearestOnly, PathBack
    <2>12. QED
      BY <2>1, <2>6, <2>10, <2>11 DEF GraphInv
  <1>3. QED
    BY <1>1, <1>2

-----------------------------------------------------------------------------
(* The steps of an expansion. *)

\* What the request and the graph determine.
LEMMA SameGraph ==
  ASSUME UNCHANGED <<edges, request>>
  PROVE  /\ Ball' = Ball
         /\ \A x : Candidates(x)' = Candidates(x) /\ Neighbours({x})' = Neighbours({x})
         /\ <<edges, seeds, depth, allowed, direction, limit>>' = <<edges, seeds, depth, allowed, direction, limit>>
  BY BallSame DEF Candidates, Neighbours, request

LEMMA NextVisitStep ==
  ASSUME GraphInv, NextVisit
  PROVE  GraphInv'
  <1> USE DEF NextVisit
  <1>0. GraphTyped /\ Walking /\ ExpansionSound
    BY DEF GraphInv
  <1>1. /\ Ball' = Ball /\ \A x : Candidates(x)' = Candidates(x) /\ Neighbours({x})' = Neighbours({x})
        /\ <<edges, seeds, depth, allowed, direction, limit>>' = <<edges, seeds, depth, allowed, direction, limit>>
    BY SameGraph
  <1>2. /\ queue \in Seq(Visit) /\ queue # <<>>
        /\ \A i \in 1..Len(queue) : queue[i].id \in Document /\ queue[i].depth \in Nat
        /\ depth \in Nat
    BY <1>0, Typing DEF GraphTyped
  <1>3. /\ queue' \in Seq(Visit) /\ Len(queue') = Len(queue) - 1 /\ Len(queue) \in Nat \ {0}
        /\ \A i \in 1..Len(queue') : queue'[i] = queue[i+1] /\ i + 1 \in 1..Len(queue)
        /\ Current = queue[1]
    BY <1>2 DEF Current
  <1>4. GraphTyped'
    BY <1>0, <1>1, <1>3 DEF GraphTyped
  <1>5. Reported' = Reported
    BY DEF Reported
  <1>6. ExpansionSound'
    <2>1. DepthIsDistance'
      BY <1>0, <1>1 DEF ExpansionSound, DepthIsDistance
    <2>2. NearestOnly'
      BY DEF NearestOnly
    <2>3. PathBack'
      BY <1>0, <1>1 DEF ExpansionSound, PathBack
    <2>4. QED
      BY <2>1, <2>2, <2>3 DEF ExpansionSound
  <1>7. Waiting'
    BY <1>0, <1>1, <1>3 DEF Waiting, Walking
  <1>8. Layered'
    <2> SUFFICES ASSUME NEW i \in 1..Len(queue'), NEW j \in 1..Len(queue')
                 PROVE  /\ i <= j => queue'[i].depth <= queue'[j].depth
                        /\ queue'[j].depth <= queue'[1].depth + 1
      BY DEF Layered
    <2>1. i + 1 \in 1..Len(queue) /\ j + 1 \in 1..Len(queue) /\ 1 \in 1..Len(queue') /\ i \in Nat /\ j \in Nat
      BY <1>3
    <2>2. queue'[i] = queue[i+1] /\ queue'[j] = queue[j+1] /\ queue'[1] = queue[2]
      BY <1>3, <2>1
    <2>3. i <= j => queue[i+1].depth <= queue[j+1].depth
      BY <1>0, <2>1 DEF Walking, Layered
    <2>4. queue[j+1].depth <= queue[1].depth + 1 /\ queue[1].depth <= queue[2].depth
      BY <1>0, <1>3, <2>1 DEF Walking, Layered
    <2>5. {queue[1].depth, queue[2].depth, queue[j+1].depth} \subseteq Nat
      BY <1>2, <1>3, <2>1
    <2>6. QED
      BY <2>2, <2>3, <2>4, <2>5
  <1>9. Explored'
    <2> SUFFICES ASSUME NEW x \in visited
                 PROVE  Queued(x)' \/ Neighbours({x}) \subseteq visited \/ x \notin Ball[depth-1]
      BY <1>1 DEF Explored
    <2>1. CASE Queued(x)
      <3>1. PICK i \in 1..Len(queue) : queue[i].id = x
        BY <2>1 DEF Queued
      <3>2. CASE i = 1
        <4>1. CASE Current.depth >= depth
          <5>1. queue[1].depth \in Nat /\ depth <= queue[1].depth /\ depth # 0
            BY <1>0, <1>2, <1>3, <4>1 DEF Walking
          <5>2. x \notin Ball[queue[1].depth - 1]
            BY <1>0, <1>2, <3>1, <3>2, <5>1 DEF Walking, Waiting
          <5>3. Ball[depth-1] \subseteq Ball[queue[1].depth - 1]
            <6>1. depth - 1 \in Nat /\ queue[1].depth - 1 \in Nat /\ depth - 1 <= queue[1].depth - 1
              BY <1>2, <5>1
            <6>2. QED
              BY <6>1, BallGrows
          <5>4. QED
            BY <5>2, <5>3
        <4>2. CASE Fresh(Current.id) = {}
          BY <1>3, <3>1, <3>2, <4>2, Hops DEF Fresh
        <4>3. QED
          BY <4>1, <4>2 DEF Exhausted
      <3>3. CASE i # 1
        <4>1. i - 1 \in 1..Len(queue') /\ queue'[i-1] = queue[i]
          BY <1>2, <1>3, <3>3
        <4>2. QED
          BY <3>1, <4>1 DEF Queued
      <3>4. QED
        BY <3>2, <3>3
    <2>2. CASE ~Queued(x)
      BY <1>0, <2>2 DEF Walking, Explored
    <2>3. QED
      BY <2>1, <2>2
  <1>10. Walking'
    BY <1>0, <1>1, <1>5, <1>7, <1>8, <1>9 DEF Walking
  <1>11. QED
    BY <1>4, <1>6, <1>10 DEF GraphInv

LEMMA ReturnStep ==
  ASSUME GraphInv, Return
  PROVE  GraphInv'
  <1> USE DEF Return
  <1>0. GraphTyped /\ Walking /\ ExpansionSound
    BY DEF GraphInv
  <1>1. /\ Ball' = Ball /\ \A x : Candidates(x)' = Candidates(x) /\ Neighbours({x})' = Neighbours({x})
        /\ <<edges, seeds, depth, allowed, direction, limit>>' = <<edges, seeds, depth, allowed, direction, limit>>
    BY SameGraph
  <1>2. depth \in Nat /\ \A i \in 1..Len(out) : out[i].depth \in Nat \ {0}
    BY <1>0, Typing
  <1>3. GraphTyped' /\ Reported' = Reported
    BY <1>0, <1>1 DEF GraphTyped, Reported
  <1>4. Reported = Ball[depth] \ seeds
    <2>1. Ball[depth] \subseteq seeds \union Reported
      <3>1. Len(queue) = 0 /\ depth \in 0..depth
        BY <1>2
      <3>2. Ball[depth] \subseteq visited
        BY <1>0, <3>1, NearVisited
      <3>3. QED
        BY <1>0, <3>2 DEF Walking
    <2>2. ASSUME NEW y \in Reported PROVE y \in Ball[depth] \ seeds
      <3>1. PICK i \in 1..Len(out) : y = out[i].target
        BY DEF Reported
      <3>2. y \in Ball[out[i].depth] \ Ball[out[i].depth - 1]
        BY <1>0, <3>1 DEF ExpansionSound, DepthIsDistance
      <3>3. out[i].depth \in Nat /\ out[i].depth - 1 \in Nat /\ out[i].depth <= depth /\ 0 \in Nat
        BY <1>0, <1>2 DEF Walking
      <3>4. Ball[out[i].depth] \subseteq Ball[depth] /\ Ball[0] \subseteq Ball[out[i].depth - 1]
        BY <1>2, <3>3, BallGrows
      <3>5. QED
        BY <3>2, <3>4, BallUnfolds
    <2>3. QED
      BY <2>1, <2>2
  <1>5. DepthIsDistance'
    BY <1>0, <1>1 DEF ExpansionSound, DepthIsDistance
  <1>6. PathBack'
    BY <1>0, <1>1 DEF ExpansionSound, PathBack
  <1>7. NearestOnly'
    BY <1>0, <1>1, <1>3, <1>4 DEF NearestOnly, Walking
  <1>8. QED
    BY <1>3, <1>5, <1>6, <1>7 DEF GraphInv, ExpansionSound

LEMMA DiscoverStep ==
  ASSUME GraphInv, Discover
  PROVE  GraphInv'
  <1>0. GraphTyped /\ Walking /\ ExpansionSound /\ queue # <<>> /\ ~Exhausted
    BY DEF GraphInv, Discover
  <1>1. /\ Ball' = Ball /\ \A x : Candidates(x)' = Candidates(x) /\ Neighbours({x})' = Neighbours({x})
        /\ <<edges, seeds, depth, allowed, direction, limit>>' = <<edges, seeds, depth, allowed, direction, limit>>
    BY SameGraph DEF Discover
  <1> DEFINE x == queue[1].id
             n == queue[1].depth
  <1>2. /\ queue \in Seq(Visit) /\ Len(queue) \in Nat \ {0}
        /\ \A i \in 1..Len(queue) : queue[i].id \in Document /\ queue[i].depth \in Nat
        /\ depth \in Nat /\ depth <= MaxDepth /\ MaxDepth \in Nat
        /\ out \in Seq(Pivot) /\ Len(out) \in Nat
        /\ \A i \in 1..Len(out) : out[i].depth \in Nat \ {0}
        /\ limit \in Nat \ {0}
    BY <1>0, Typing DEF GraphTyped
  <1>3. Current = queue[1] /\ x \in Document /\ n \in Nat /\ n < depth
    BY <1>0, <1>2 DEF Current, Exhausted
  <1>4. PICK c \in Fresh(x) :
          /\ \A d \in Fresh(x) : d # c => Before(c, d)
          /\ visited' = visited \union {c.target}
          /\ out' = Append(out, [target |-> c.target, depth |-> n + 1, via |-> x,
                                 type |-> c.type, direction |-> c.direction])
          /\ IF Full(Len(out) + 1)
             THEN pc' = "done" /\ queue' = <<>>
             ELSE pc' = pc /\ queue' = Enqueue([id |-> c.target, depth |-> n + 1])
    BY <1>3 DEF Discover
  <1> DEFINE y == c.target
             p == [target |-> y, depth |-> n + 1, via |-> x, type |-> c.type, direction |-> c.direction]
             v == [id |-> y, depth |-> n + 1]
  <1>5. c \in Candidates(x) /\ c.type \in allowed /\ y \notin visited /\ y \in Neighbours({x})
    BY <1>4, Hops DEF Fresh
  <1>6. c = [target |-> y, type |-> c.type, direction |-> c.direction] /\ p \in Pivot /\ v \in Visit
    <2>1. \A e \in edges : e.source \in Document /\ e.target \in Document /\ e.type \in Relationship
      BY <1>0 DEF GraphTyped, Edge
    <2>2. /\ c = [target |-> y, type |-> c.type, direction |-> c.direction]
          /\ y \in Document /\ c.type \in Relationship /\ c.direction \in {"outgoing", "incoming"}
      BY <1>5, <2>1 DEF Candidates
    <2>3. QED
      BY <1>2, <1>3, <2>2 DEF Pivot, Visit
  <1>7. Ball[n] \subseteq visited /\ y \in Ball[n+1] \ Ball[n]
    <2>1. \A i \in 1..Len(queue) : n <= queue[i].depth
      BY <1>0, <1>2 DEF Walking, Layered
    <2>2. n \in 0..depth
      BY <1>2, <1>3
    <2>3. Ball[n] \subseteq visited
      BY <1>0, <2>1, <2>2, NearVisited
    <2>4. x \in Ball[n]
      BY <1>0, <1>2 DEF Walking, Waiting
    <2>5. Ball[n+1] = Ball[n] \union Neighbours(Ball[n])
      BY <1>3, BallUnfolds
    <2>6. QED
      BY <1>5, <2>3, <2>4, <2>5, Hops
  <1>8. /\ out' = Append(out, p) /\ Len(out') = Len(out) + 1 /\ out' \in Seq(Pivot)
        /\ \A i \in 1..Len(out) : out'[i] = out[i] /\ i \in 1..Len(out')
        /\ out'[Len(out) + 1] = p
        /\ \A i \in 1..Len(out') : i \in 1..Len(out) \/ i = Len(out) + 1
    BY <1>2, <1>4, <1>6
  <1> HIDE DEF p, v
  <1>9. /\ p.target = y /\ p.depth = n + 1 /\ p.via = x /\ p.type = c.type /\ p.direction = c.direction
        /\ v.id = y /\ v.depth = n + 1
    BY DEF p, v
  <1> HIDE DEF x, n, y
  <1>10. Reported' = Reported \union {y}
    <2>1. \A i \in 1..Len(out) : out[i].target \in Reported'
      BY <1>8 DEF Reported
    <2>2. y \in Reported'
      BY <1>2, <1>8, <1>9 DEF Reported
    <2>3. \A i \in 1..Len(out') : out'[i].target \in Reported \union {y}
      BY <1>8, <1>9 DEF Reported
    <2>4. QED
      BY <2>1, <2>2, <2>3 DEF Reported
  <1>11. DepthIsDistance'
    <2> SUFFICES ASSUME NEW i \in 1..Len(out')
                 PROVE  out'[i].target \in Ball[out'[i].depth] \ Ball[out'[i].depth - 1]
      BY <1>1 DEF DepthIsDistance
    <2>1. CASE i \in 1..Len(out)
      BY <1>0, <1>8, <2>1 DEF ExpansionSound, DepthIsDistance
    <2>2. CASE i = Len(out) + 1
      BY <1>3, <1>7, <1>8, <1>9, <2>2
    <2>3. QED
      BY <1>8, <2>1, <2>2
  <1>12. \A i \in 1..Len(out') : out'[i].depth <= depth
    BY <1>0, <1>2, <1>3, <1>8, <1>9 DEF Walking
  <1> DEFINE path(i, q) ==
               /\ q.type \in allowed
               /\ \/ q.depth = 1 /\ q.via \in seeds
                  \/ \E j \in 1..(i-1) : out'[j].target = q.via /\ out'[j].depth = q.depth - 1
               /\ [target |-> q.target, type |-> q.type, direction |-> q.direction] \in Candidates(q.via)
               /\ \A d \in Candidates(q.via) :
                    d.target = q.target /\ d.type \in allowed =>
                      \/ [target |-> q.target, type |-> q.type, direction |-> q.direction] = d
                      \/ Before([target |-> q.target, type |-> q.type, direction |-> q.direction], d)
  <1>13. ASSUME NEW i \in 1..Len(out) PROVE path(i, out'[i])
    <2>1. i \in Nat /\ 1..(i-1) \subseteq 1..Len(out)
      BY <1>2
    <2>2. out'[i] = out[i] /\ \A j \in 1..(i-1) : out'[j] = out[j]
      BY <1>8, <2>1
    <2>3. QED
      BY <1>0, <2>2 DEF ExpansionSound, PathBack
  <1>14. path(Len(out) + 1, p)
    <2>1. \/ n + 1 = 1 /\ x \in seeds
          \/ \E j \in 1..Len(out) : out[j].target = x /\ out[j].depth = n
      BY <1>0, <1>2, <1>3 DEF Walking, Waiting, x, n
    <2>2. \/ p.depth = 1 /\ p.via \in seeds
          \/ \E j \in 1..(Len(out) + 1 - 1) : out'[j].target = p.via /\ out'[j].depth = p.depth - 1
      <3>1. p.depth = n + 1 /\ p.depth - 1 = n /\ p.via = x /\ Len(out) + 1 - 1 = Len(out)
        BY <1>2, <1>3, <1>9
      <3>2. CASE n + 1 = 1 /\ x \in seeds
        BY <3>1, <3>2
      <3>3. CASE \E j \in 1..Len(out) : out[j].target = x /\ out[j].depth = n
        <4>1. PICK j \in 1..Len(out) : out[j].target = x /\ out[j].depth = n
          BY <3>3
        <4>2. out'[j].target = p.via /\ out'[j].depth = p.depth - 1
          BY <1>8, <3>1, <4>1
        <4>3. QED
          BY <3>1, <4>2
      <3>4. QED
        BY <2>1, <3>2, <3>3
    <2>3. c = [target |-> p.target, type |-> p.type, direction |-> p.direction]
      BY <1>6, <1>9
    <2>4. \A d \in Candidates(x) : d.target = y /\ d.type \in allowed => c = d \/ Before(c, d)
      BY <1>4, <1>5 DEF Fresh
    <2>5. QED
      BY <1>5, <1>9, <2>2, <2>3, <2>4
  <1>15. PathBack'
    <2>1. \A i \in 1..Len(out') : path(i, out'[i])
      BY <1>8, <1>13, <1>14
    <2>2. QED
      BY <1>1, <2>1 DEF PathBack
  <1>16. visited' = visited \union {y} /\ y \in Document
    BY <1>2, <1>4, <1>6, <1>9 DEF y, Pivot
  <1>17. CASE Full(Len(out) + 1)
    <2>1. pc' = "done" /\ queue' = <<>> /\ Len(out) + 1 = limit
      BY <1>0, <1>2, <1>4, <1>17 DEF Walking, Full
    <2>2. GraphTyped'
      BY <1>0, <1>1, <1>8, <1>16, <2>1 DEF GraphTyped
    <2>3. NearestOnly'
      <3>1. Len(out') = limit' /\ out'[limit'] = p
        BY <1>1, <1>8, <2>1
      <3>2. Ball'[out'[limit'].depth - 1] \subseteq Reported' \union seeds'
        <4>1. out'[limit'].depth - 1 = n
          BY <1>3, <1>9, <3>1
        <4>2. Ball'[n] \subseteq visited
          BY <1>1, <1>7
        <4>3. visited \subseteq Reported' \union seeds'
          BY <1>0, <1>1, <1>10 DEF Walking
        <4>4. QED
          BY <4>1, <4>2, <4>3
      <3>3. QED
        BY <1>2, <3>1, <3>2 DEF NearestOnly
    <2>4. QED
      BY <1>11, <1>15, <2>1, <2>2, <2>3 DEF GraphInv, ExpansionSound
  <1>18. CASE ~Full(Len(out) + 1)
    <2>1. pc' = "expanding" /\ queue' = Append(queue, v)
      BY <1>4, <1>18 DEF Discover, Enqueue, v, y, n
    <2>2. /\ Len(queue') = Len(queue) + 1 /\ queue' \in Seq(Visit)
          /\ \A i \in 1..Len(queue) : queue'[i] = queue[i] /\ i \in 1..Len(queue')
          /\ queue'[Len(queue) + 1] = v
          /\ \A i \in 1..Len(queue') : i \in 1..Len(queue) \/ i = Len(queue) + 1
      BY <1>2, <1>6, <2>1
    <2>3. GraphTyped'
      BY <1>0, <1>1, <1>8, <1>16, <2>1, <2>2 DEF GraphTyped
    <2>4. NearestOnly'
      BY <2>1 DEF NearestOnly
    <2>5. Len(out') < limit'
      BY <1>0, <1>1, <1>2, <1>8, <1>18 DEF Walking, Full
    <2>6. Waiting'
      <3> SUFFICES ASSUME NEW i \in 1..Len(queue')
                   PROVE  /\ queue'[i].id \in visited' /\ queue'[i].depth <= depth
                          /\ queue'[i].id \in Ball[queue'[i].depth]
                          /\ queue'[i].depth = 0 => queue'[i].id \in seeds
                          /\ queue'[i].depth # 0 =>
                               /\ queue'[i].id \notin Ball[queue'[i].depth - 1]
                               /\ \E j \in 1..Len(out') : out'[j].target = queue'[i].id /\ out'[j].depth = queue'[i].depth
        BY <1>1 DEF Waiting
      <3>1. CASE i \in 1..Len(queue)
        <4>1. queue'[i] = queue[i]
          BY <2>2, <3>1
        <4>2. /\ queue[i].id \in visited /\ queue[i].depth <= depth
              /\ queue[i].id \in Ball[queue[i].depth]
              /\ queue[i].depth = 0 => queue[i].id \in seeds
              /\ queue[i].depth # 0 =>
                   /\ queue[i].id \notin Ball[queue[i].depth - 1]
                   /\ \E j \in 1..Len(out) : out[j].target = queue[i].id /\ out[j].depth = queue[i].depth
          BY <1>0, <3>1 DEF Walking, Waiting
        <4>3. QED
          BY <1>8, <1>16, <4>1, <4>2
      <3>2. CASE i = Len(queue) + 1
        <4>1. queue'[i] = v
          BY <2>2, <3>2
        <4>2. Len(out) + 1 \in 1..Len(out')
          BY <1>2, <1>8
        <4>3. QED
          <5>1. v.id = y /\ v.depth = n + 1 /\ v.depth # 0 /\ v.depth - 1 = n /\ v.depth <= depth
            BY <1>2, <1>3, <1>9
          <5>2. y \in visited' /\ y \in Ball[v.depth] /\ y \notin Ball[v.depth - 1]
            BY <1>7, <1>16, <5>1
          <5>3. out'[Len(out) + 1].target = y /\ out'[Len(out) + 1].depth = v.depth
            BY <1>8, <1>9
          <5>4. QED
            BY <4>1, <4>2, <5>1, <5>2, <5>3
      <3>3. QED
        BY <2>2, <3>1, <3>2
    <2>7. Layered'
      <3>1. \A i \in 1..Len(queue) : queue[i].depth <= n + 1
        BY <1>0, <1>2 DEF Walking, Layered, n
      <3>2. queue'[1].depth = n
        BY <1>2, <2>2 DEF n
      <3> SUFFICES ASSUME NEW i \in 1..Len(queue'), NEW j \in 1..Len(queue')
                   PROVE  /\ i <= j => queue'[i].depth <= queue'[j].depth
                          /\ queue'[j].depth <= n + 1
        BY <3>2 DEF Layered
      <3>3. CASE i \in 1..Len(queue) /\ j \in 1..Len(queue)
        BY <1>0, <2>2, <3>1, <3>3 DEF Walking, Layered
      <3>4. CASE j = Len(queue) + 1
        BY <1>3, <1>9, <2>2, <3>1, <3>4
      <3>5. CASE i = Len(queue) + 1 /\ j \in 1..Len(queue)
        BY <1>2, <2>2, <3>1, <3>5
      <3>6. QED
        BY <2>2, <3>3, <3>4, <3>5
    <2>8. Explored'
      <3> SUFFICES ASSUME NEW z \in visited'
                   PROVE  Queued(z)' \/ Neighbours({z}) \subseteq visited' \/ z \notin Ball[depth-1]
        BY <1>1 DEF Explored
      <3>1. CASE z = y
        <4>1. Len(queue) + 1 \in 1..Len(queue')
          BY <1>2, <2>2
        <4>2. QED
          BY <1>9, <2>2, <3>1, <4>1 DEF Queued
      <3>2. CASE z \in visited
        <4>1. Queued(z) => Queued(z)'
          BY <2>2 DEF Queued
        <4>2. QED
          BY <1>0, <1>16, <3>2, <4>1 DEF Walking, Explored
      <3>3. QED
        BY <1>16, <3>1, <3>2
    <2>9. Walking'
      BY <1>0, <1>1, <1>10, <1>12, <1>16, <2>5, <2>6, <2>7, <2>8 DEF Walking
    <2>10. QED
      BY <1>11, <1>15, <2>1, <2>3, <2>4, <2>9 DEF GraphInv, ExpansionSound
  <1>19. QED
    BY <1>17, <1>18

LEMMA BeginStep ==
  ASSUME edges' \subseteq Edge, NEW s \in SUBSET Document, NEW d \in 0..MaxDepth,
         NEW t, NEW r, NEW l \in Nat \ {0}, Begin(s, d, t, r, l)
  PROVE  Begun'
  BY DEF Begin, Begun

LEMMA GraphNextStep ==
  ASSUME GraphInv, Next
  PROVE  GraphInv' \/ Begun' \/ Rests'
  <1>1. CASE Expand
    <2>1. PICK s \in SUBSET Document, d \in 0..(MaxDepth + 1), r \in Direction,
               t \in {<<>>} \union {<<T>> : T \in SUBSET Relationship}, l \in 0..(MaxResults + 1) :
            Valid(s, d, t, l) /\ Begin(s, d, t, r, l)
      BY <1>1 DEF Expand
    <2>2. d \in 0..MaxDepth /\ l \in Nat \ {0}
      BY <2>1, Typing DEF Valid
    <2>3. edges' \subseteq Edge
      BY <1>1 DEF Expand, GraphInv, GraphTyped
    <2>4. QED
      BY <2>1, <2>2, <2>3, BeginStep
  <1>2. CASE Discover
    BY <1>2, DiscoverStep
  <1>3. CASE NextVisit
    BY <1>3, NextVisitStep
  <1>4. CASE Return
    BY <1>4, ReturnStep
  <1>5. CASE Answer
    BY <1>5 DEF Answer, Rests, GraphInv, GraphTyped
  <1>6. QED
    BY <1>1, <1>2, <1>3, <1>4, <1>5 DEF Next

LEMMA GraphStutters ==
  ASSUME GraphInv, UNCHANGED graph
  PROVE  GraphInv'
  <1>1. UNCHANGED <<edges, request>> /\ UNCHANGED <<pc, queue, visited, out>>
    BY DEF graph
  <1>2. /\ Ball' = Ball /\ \A x : Candidates(x)' = Candidates(x) /\ Neighbours({x})' = Neighbours({x})
        /\ <<edges, seeds, depth, allowed, direction, limit>>' = <<edges, seeds, depth, allowed, direction, limit>>
    BY <1>1, SameGraph
  <1>3. GraphTyped' /\ Reported' = Reported /\ (pc' = "idle" => Quiet')
    BY <1>1, <1>2 DEF GraphInv, GraphTyped, Reported, Quiet
  <1>4. ExpansionSound'
    <2>1. DepthIsDistance'
      BY <1>1, <1>2 DEF GraphInv, ExpansionSound, DepthIsDistance
    <2>2. NearestOnly'
      BY <1>1, <1>2, <1>3 DEF GraphInv, ExpansionSound, NearestOnly
    <2>3. PathBack'
      BY <1>1, <1>2 DEF GraphInv, ExpansionSound, PathBack
    <2>4. QED
      BY <2>1, <2>2, <2>3 DEF ExpansionSound
  <1>5. pc' = "expanding" => Walking'
    <2> SUFFICES ASSUME pc = "expanding" PROVE Walking'
      BY <1>1
    <2>1. Walking
      BY DEF GraphInv
    <2>2. Waiting' /\ Layered'
      BY <1>1, <1>2, <2>1 DEF Walking, Waiting, Layered
    <2>3. Explored'
      BY <1>1, <1>2, <2>1 DEF Walking, Explored, Queued
    <2>4. QED
      BY <1>1, <1>2, <1>3, <2>1, <2>2, <2>3 DEF Walking
  <1>6. QED
    BY <1>3, <1>4, <1>5 DEF GraphInv

-----------------------------------------------------------------------------
(* The index: what builders hold, what is published, what is open. *)

IsFile(f) ==
  f = [readable |-> f.readable, sealed |-> f.sealed, bundle |-> f.bundle,
       logical |-> f.logical, rows |-> f.rows]

\* A sealed file says truly which tables it was sealed with.
Genuine(f) == IsFile(f) /\ (f.sealed => f.logical = Rows(f.bundle))

Staged(at) ==
  LET bundle == at.bundle[1]
      file == at.temp[1]
  IN /\ at = [step |-> at.step, bundle |-> at.bundle, temp |-> at.temp]
     /\ at.step \in {"idle", "populate", "publish"}
     /\ at.step # "idle" =>
          at.bundle = <<bundle>> /\ bundle \in Bundle /\ validate_projection_bundle(bundle)
     /\ at.step = "publish" =>
          at.temp = <<file>> /\ Genuine(file) /\ file.sealed /\ file.bundle = bundle.digest

BuildInv == build = [b \in Builder |-> build[b]] /\ \A b \in Builder : Staged(build[b])
IndexInv == trouble \in Nat /\ (index # <<>> => index = <<index[1]>> /\ Genuine(index[1]))

CoreInv ==
  /\ core = NoCore => Rests /\ edges = {}
  /\ core # NoCore => core.bundle[1] \in Bundle /\ validate_phase544_bundle(core.bundle[1])
  /\ ServesExpected

LEMMA BuildStep ==
  ASSUME BuildInv, NEW b \in Builder,
         StartBuild(b) \/ Populate(b) \/ Spoil(b) \/ Publish(b) \/ KillBuild(b)
  PROVE  BuildInv'
  <1>1. Staged(Resting)
    BY DEF Resting, Staged
  <1>2. ASSUME NEW w, build' = [build EXCEPT ![b] = w], Staged(w)
        PROVE  BuildInv'
    BY <1>2 DEF BuildInv
  <1>3. CASE build' = [build EXCEPT ![b] = Resting]
    BY <1>1, <1>2, <1>3
  <1>4. CASE StartBuild(b)
    <2>1. PICK bundle \in Bundle :
            /\ validate_projection_bundle(bundle)
            /\ build' = [build EXCEPT ![b] = [step |-> "populate", bundle |-> <<bundle>>, temp |-> <<Unfinished>>]]
      BY <1>4 DEF StartBuild
    <2> DEFINE w == [step |-> "populate", bundle |-> <<bundle>>, temp |-> <<Unfinished>>]
    <2>2. w = [step |-> w.step, bundle |-> w.bundle, temp |-> w.temp] /\ w.step = "populate" /\ w.bundle = <<bundle>>
      OBVIOUS
    <2>3. build' = [build EXCEPT ![b] = w]
      BY <2>1
    <2> HIDE DEF w
    <2>4. Staged(w)
      BY <2>1, <2>2 DEF Staged
    <2>5. QED
      BY <1>2, <2>3, <2>4
  <1>5. CASE Populate(b)
    <2> DEFINE bundle == build[b].bundle[1]
               v == [build[b] EXCEPT !.step = "publish"]
               w == [v EXCEPT !.temp = <<Committed(bundle)>>]
    <2>1. \/ build' = [build EXCEPT ![b] = Resting]
          \/ build' = [build EXCEPT ![b] = w]
      BY <1>5 DEF Populate, FailBuild
    <2>2. CASE build' = [build EXCEPT ![b] = w]
      <3>1. /\ build[b] = [step |-> build[b].step, bundle |-> build[b].bundle, temp |-> build[b].temp]
            /\ build[b].bundle = <<bundle>> /\ bundle \in Bundle /\ validate_projection_bundle(bundle)
        BY <1>5 DEF Populate, BuildInv, Staged
      <3>2. Genuine(Committed(bundle)) /\ Committed(bundle).sealed /\ Committed(bundle).bundle = bundle.digest
        BY <3>1 DEF Genuine, IsFile, Committed, validate_projection_bundle
      <3>3. v = [step |-> "publish", bundle |-> build[b].bundle, temp |-> build[b].temp]
        BY <3>1
      <3> HIDE DEF v
      <3>4. w = [step |-> "publish", bundle |-> build[b].bundle, temp |-> <<Committed(bundle)>>]
        BY <3>3
      <3> HIDE DEF w
      <3>5. /\ w = [step |-> w.step, bundle |-> w.bundle, temp |-> w.temp]
            /\ w.step = "publish" /\ w.bundle = <<bundle>> /\ w.temp = <<Committed(bundle)>>
        BY <3>1, <3>4
      <3> HIDE DEF bundle
      <3>6. Staged(w)
        BY <3>1, <3>2, <3>5 DEF Staged
      <3>7. QED
        BY <1>2, <2>2, <3>6
    <2>3. QED
      BY <1>3, <2>1, <2>2
  <1>6. CASE Spoil(b)
    <2> DEFINE file == build[b].temp[1]
    <2>1. PICK r \in BOOLEAN :
            build' = [build EXCEPT ![b].temp = <<[build[b].temp[1] EXCEPT !.readable = r, !.rows.identifiers = {}]>>]
      BY <1>6 DEF Spoil
    <2>2. /\ build[b] = [step |-> build[b].step, bundle |-> build[b].bundle, temp |-> build[b].temp]
          /\ build[b].bundle = <<build[b].bundle[1]>> /\ build[b].bundle[1] \in Bundle
          /\ validate_projection_bundle(build[b].bundle[1])
          /\ Genuine(file) /\ file.sealed /\ file.bundle = build[b].bundle[1].digest
          /\ build[b].step = "publish"
      BY <1>6 DEF Spoil, BuildInv, Staged
    <2> DEFINE f == [file EXCEPT !.readable = r]
               g == [f EXCEPT !.rows.identifiers = {}]
               w == [build[b] EXCEPT !.temp = <<g>>]
    <2>3. build' = [build EXCEPT ![b] = w]
      BY <2>1
    <2> HIDE DEF file
    <2>4. f = [readable |-> r, sealed |-> file.sealed, bundle |-> file.bundle, logical |-> file.logical, rows |-> file.rows]
      <3>1. file = [readable |-> file.readable, sealed |-> file.sealed, bundle |-> file.bundle,
                    logical |-> file.logical, rows |-> file.rows]
        BY <2>2 DEF Genuine, IsFile
      <3>2. QED
        BY <3>1
    <2> HIDE DEF f
    <2>5. g = [readable |-> r, sealed |-> file.sealed, bundle |-> file.bundle, logical |-> file.logical,
               rows |-> [file.rows EXCEPT !.identifiers = {}]]
      BY <2>4
    <2> HIDE DEF g
    <2>6. Genuine(g) /\ g.sealed /\ g.bundle = build[b].bundle[1].digest
      BY <2>2, <2>5 DEF Genuine, IsFile
    <2>7. w = [step |-> "publish", bundle |-> build[b].bundle, temp |-> <<g>>]
      BY <2>2
    <2> HIDE DEF w
    <2>8. /\ w = [step |-> w.step, bundle |-> w.bundle, temp |-> w.temp]
          /\ w.step = "publish" /\ w.bundle = build[b].bundle /\ w.temp = <<g>>
      BY <2>7
    <2>9. Staged(w)
      BY <2>2, <2>6, <2>8 DEF Staged
    <2>10. QED
      BY <1>2, <2>3, <2>9
  <1>7. CASE Publish(b) \/ KillBuild(b)
    BY <1>3, <1>7 DEF Publish, KillBuild, FailBuild
  <1>8. QED
    BY <1>4, <1>5, <1>6, <1>7

\* A step that builds, with the guarantee for the file that it replaces.
LEMMA IndexStep ==
  ASSUME BuildInv, IndexInv, NEW b \in Builder,
         StartBuild(b) \/ Populate(b) \/ Spoil(b) \/ Publish(b) \/ KillBuild(b)
  PROVE  /\ IndexInv'
         /\ index' # index => trouble' # trouble \/
              (build[b].bundle # <<>> /\ build'[b] = Resting /\ Opens(index'[1], build[b].bundle[1]))
  <1>1. CASE index' = index
    <2>1. trouble' = trouble \/ trouble' = trouble + 1
      BY DEF StartBuild, Populate, Spoil, Publish, KillBuild, Fault
    <2>2. QED
      BY <1>1, <2>1 DEF IndexInv
  <1>2. CASE index' # index
    <2>1. /\ build[b].step = "publish" /\ Sound(build[b].temp[1])
          /\ index' = build[b].temp /\ build' = [build EXCEPT ![b] = Resting]
          /\ trouble' = trouble
      BY <1>2 DEF StartBuild, Populate, Spoil, Publish, KillBuild, FailBuild
    <2>2. Staged(build[b])
      BY DEF BuildInv
    <2>3. /\ build[b].bundle = <<build[b].bundle[1]>> /\ validate_projection_bundle(build[b].bundle[1])
          /\ build[b].temp = <<build[b].temp[1]>> /\ Genuine(build[b].temp[1])
          /\ build[b].temp[1].sealed /\ build[b].temp[1].bundle = build[b].bundle[1].digest
      BY <2>1, <2>2 DEF Staged
    <2>4. build'[b] = Resting
      BY <2>1 DEF BuildInv
    <2>5. Opens(index'[1], build[b].bundle[1])
      BY <2>1, <2>3 DEF Opens, Sound
    <2>6. build[b].bundle # <<>>
      BY <2>3
    <2>7. IndexInv'
      BY <2>1, <2>3 DEF IndexInv
    <2>8. QED
      BY <2>4, <2>5, <2>6, <2>7
  <1>3. QED
    BY <1>1, <1>2

LEMMA DamageStep ==
  ASSUME IndexInv, DamageIndex
  PROVE  IndexInv' /\ trouble' # trouble
  <1>1. trouble' \in Nat /\ trouble' # trouble
    BY DEF IndexInv, DamageIndex, Fault
  <1> DEFINE f == index[1]
  <1>2. index # <<>> /\ Genuine(f) /\ f.sealed
    BY DEF DamageIndex, IndexInv
  <1>3. PICK g : /\ index' = <<g>>
                 /\ \/ g = [f EXCEPT !.readable = FALSE]
                    \/ g = [f EXCEPT !.rows.identifiers = {}]
                    \/ g = [f EXCEPT !.sealed = FALSE]
    BY DEF DamageIndex
  <1> HIDE DEF f
  <1>4. f = [readable |-> f.readable, sealed |-> f.sealed, bundle |-> f.bundle, logical |-> f.logical, rows |-> f.rows]
    BY <1>2 DEF Genuine, IsFile
  <1>5. \/ g = [readable |-> FALSE, sealed |-> f.sealed, bundle |-> f.bundle, logical |-> f.logical, rows |-> f.rows]
        \/ g = [readable |-> f.readable, sealed |-> f.sealed, bundle |-> f.bundle, logical |-> f.logical,
                rows |-> [f.rows EXCEPT !.identifiers = {}]]
        \/ g = [readable |-> f.readable, sealed |-> FALSE, bundle |-> f.bundle, logical |-> f.logical, rows |-> f.rows]
    <2>1. CASE g = [f EXCEPT !.readable = FALSE]
      BY <1>4, <2>1
    <2>2. CASE g = [f EXCEPT !.rows.identifiers = {}]
      BY <1>4, <2>2
    <2>3. CASE g = [f EXCEPT !.sealed = FALSE]
      BY <1>4, <2>3
    <2>4. QED
      BY <1>3, <2>1, <2>2, <2>3
  <1>6. Genuine(g)
    BY <1>2, <1>5 DEF Genuine, IsFile
  <1>7. QED
    BY <1>1, <1>3, <1>6 DEF IndexInv

LEMMA OpenStep ==
  ASSUME CoreInv, IndexInv, Open
  PROVE  CoreInv' /\ Rests'
  <1>1. PICK expected \in Bundle :
          /\ Opens(index[1], expected) /\ validate_phase544_bundle(expected)
          /\ core' = [bundle |-> <<expected>>, rows |-> <<index[1].rows>>]
          /\ edges' = expected.body.edges
    BY DEF Open
  <1>2. core' # NoCore /\ core'.bundle[1] = expected
    BY <1>1 DEF NoCore
  <1>3. Tables' = Rows(expected.body)
    <2>1. Genuine(index[1]) /\ Opens(index[1], expected)
      BY <1>1 DEF Open, IndexInv
    <2>2. index[1].rows = Rows(expected.body)
      BY <2>1 DEF Genuine, Opens, validate_projection_bundle
    <2>3. QED
      BY <1>1, <2>2 DEF Tables
  <1>4. /\ expected.digest = expected.body /\ edges' = expected.body.edges
        /\ UNION {{e.source, e.target} : e \in expected.body.edges} \subseteq Targets(expected.body)
    BY <1>1 DEF validate_phase544_bundle, validate_projection_bundle
  <1>5. ServesExpected'
    BY <1>2, <1>3, <1>4 DEF ServesExpected
  <1>6. Rests'
    <2>1. edges' \subseteq Edge
      BY <1>1, BundleAssumption
    <2>2. Rests
      BY DEF Open, CoreInv
    <2>3. QED
      BY <2>1, <2>2 DEF Open, Rests, request
  <1>7. QED
    BY <1>1, <1>2, <1>5, <1>6 DEF CoreInv

LEMMA CoreSame ==
  ASSUME CoreInv, core' = core, edges' = edges, core = NoCore => UNCHANGED graph
  PROVE  CoreInv'
  <1>1. ServesExpected'
    BY DEF CoreInv, ServesExpected, Tables
  <1>2. core = NoCore => Rests'
    BY DEF CoreInv, Rests, graph, request
  <1>3. QED
    BY <1>1, <1>2 DEF CoreInv

LEMMA CloseStep ==
  ASSUME CoreInv, Close
  PROVE  CoreInv' /\ Rests'
  <1>1. Rests' /\ core' = NoCore /\ edges' = {}
    BY DEF Close, Quiet, Rests, request
  <1>2. QED
    BY <1>1 DEF CoreInv, ServesExpected

-----------------------------------------------------------------------------
(* What the resolver finds are documents of the bundle. *)

\* A strict total order gives every rank to some element of a finite set.
LEMMA Ranks ==
  ASSUME NEW S, IsFiniteSet(S), NEW R, \A x \in S : <<x, x>> \notin R,
         \A x, y, z \in S : <<x, y>> \in R /\ <<y, z>> \in R => <<x, z>> \in R,
         \A x, y \in S : x # y => <<x, y>> \in R \/ <<y, x>> \in R
  PROVE  \A i \in 1..Cardinality(S) : \E x \in S : Cardinality({y \in S : <<y, x>> \in R}) = i - 1
  <1> DEFINE n == Cardinality(S)
             below == [x \in S |-> {y \in S : <<y, x>> \in R}]
             rank == [x \in S |-> Cardinality(below[x]) + 1]
  <1>1. n \in Nat /\ IsFiniteSet(1..n) /\ Cardinality(1..n) = n
    <2>1. n \in Nat
      BY FS_CardinalityType
    <2> HIDE DEF n
    <2>2. QED
      BY <2>1, FS_Interval
  <1>2. /\ \A x \in S : below[x] \in SUBSET (S \ {x})
        /\ \A x, y \in S : <<x, y>> \in R => below[x] \union {x} \in SUBSET below[y]
    OBVIOUS
  <1> HIDE DEF below
  <1>3. ASSUME NEW x \in S PROVE IsFiniteSet(below[x]) /\ Cardinality(below[x]) \in 0..(n-1)
    <2>1. IsFiniteSet(S \ {x}) /\ Cardinality(S \ {x}) = n - 1
      BY FS_RemoveElement
    <2>2. IsFiniteSet(below[x]) /\ Cardinality(below[x]) <= n - 1
      BY <1>2, <2>1, FS_Subset
    <2>3. Cardinality(below[x]) \in Nat
      BY <2>2, FS_CardinalityType
    <2>4. QED
      BY <1>1, <2>2, <2>3
  <1> HIDE DEF n
  <1>4. ASSUME NEW x \in S, NEW y \in S, <<x, y>> \in R PROVE Cardinality(below[x]) < Cardinality(below[y])
    <2>1. IsFiniteSet(below[x]) /\ Cardinality(below[x]) \in Nat /\ IsFiniteSet(below[y]) /\ Cardinality(below[y]) \in Nat
      BY <1>1, <1>3
    <2>2. Cardinality(below[x] \union {x}) = Cardinality(below[x]) + 1
      BY <1>2, <2>1, FS_AddElement
    <2>3. Cardinality(below[x] \union {x}) <= Cardinality(below[y])
      BY <1>2, <1>4, <2>1, FS_Subset
    <2>4. QED
      BY <2>1, <2>2, <2>3
  <1>5. \A x \in S : Cardinality(below[x]) \in Nat /\ rank[x] = Cardinality(below[x]) + 1 /\ rank[x] \in 1..n
    BY <1>1, <1>3
  <1>6. rank \in [S -> 1..n]
    BY <1>5
  <1> HIDE DEF rank
  <1>7. \A x, y \in S : rank[x] = rank[y] => x = y
    <2> SUFFICES ASSUME NEW x \in S, NEW y \in S, x # y PROVE rank[x] # rank[y]
      OBVIOUS
    <2>1. CASE <<x, y>> \in R
      BY <1>4, <1>5, <2>1
    <2>2. CASE <<y, x>> \in R
      BY <1>4, <1>5, <2>2
    <2>3. QED
      BY <2>1, <2>2
  <1>8. rank \in Injection(S, 1..n)
    BY <1>6, <1>7 DEF Injection, IsInjective
  <1>9. rank \in Surjection(S, 1..n)
    BY <1>1, <1>8, FS_Injection DEF n
  <1>10. ASSUME NEW i \in 1..n PROVE \E x \in S : Cardinality(below[x]) = i - 1
    <2>1. PICK x \in S : rank[x] = i
      BY <1>9 DEF Surjection
    <2>2. QED
      BY <1>5, <2>1
  <1>11. QED
    BY <1>10 DEF n, below

\* The order of tuples of one length is such an order.
LEMMA TupleOrder ==
  ASSUME NEW n \in Nat
  PROVE  /\ \A x \in [1..n -> Nat] : ~TupleLess(x, x)
         /\ \A x, y, z \in [1..n -> Nat] : TupleLess(x, y) /\ TupleLess(y, z) => TupleLess(x, z)
         /\ \A x, y \in [1..n -> Nat] : x # y => TupleLess(x, y) \/ TupleLess(y, x)
  <1>1. \A x \in [1..n -> Nat] : ~TupleLess(x, x)
    BY DEF TupleLess
  <1>2. ASSUME NEW x \in [1..n -> Nat], NEW y \in [1..n -> Nat], NEW z \in [1..n -> Nat],
               TupleLess(x, y), TupleLess(y, z)
        PROVE  TupleLess(x, z)
    <2>1. PICK i \in 1..n : x[i] < y[i] /\ \A k \in 1..(i-1) : x[k] = y[k]
      BY <1>2 DEF TupleLess
    <2>2. PICK j \in 1..n : y[j] < z[j] /\ \A k \in 1..(j-1) : y[k] = z[k]
      BY <1>2 DEF TupleLess
    <2>3. CASE i <= j
      <3>1. x[i] < z[i] /\ \A k \in 1..(i-1) : x[k] = z[k]
        BY <2>1, <2>2, <2>3
      <3>2. QED
        BY <3>1 DEF TupleLess
    <2>4. CASE j < i
      <3>1. x[j] < z[j] /\ \A k \in 1..(j-1) : x[k] = z[k]
        BY <2>1, <2>2, <2>4
      <3>2. QED
        BY <3>1 DEF TupleLess
    <2>5. QED
      BY <2>3, <2>4
  <1>3. ASSUME NEW x \in [1..n -> Nat], NEW y \in [1..n -> Nat], x # y
        PROVE  TupleLess(x, y) \/ TupleLess(y, x)
    <2> DEFINE D == {i \in 1..n : x[i] # y[i]}
    <2>1. D \in SUBSET Nat /\ D # {}
      BY <1>3
    <2>2. PICK m \in D : \A i \in D : m <= i
      BY <2>1, Least
    <2>3. \A k \in 1..(m-1) : x[k] = y[k]
      BY <2>2
    <2>4. m \in 1..n /\ (x[m] < y[m] \/ y[m] < x[m])
      BY <2>2
    <2>5. QED
      BY <2>3, <2>4 DEF TupleLess
  <1>4. QED
    BY <1>1, <1>2, <1>3

\* A tuple of numbers with one more at its end, and the keys that are made so.
LEMMA OneMore ==
  ASSUME NEW n \in Nat, NEW s \in [1..n -> Nat], NEW v \in Nat
  PROVE  s \o <<v>> \in [1..(n+1) -> Nat] /\ (s \o <<v>>)[n+1] = v /\ \A k \in 1..n : (s \o <<v>>)[k] = s[k]
  <1>1. s \in Seq(Nat) /\ Len(s) = n
    OBVIOUS
  <1> DEFINE t == <<v>>
  <1>2. t \in Seq(Nat) /\ Len(t) = 1 /\ t[1] = v
    OBVIOUS
  <1> HIDE DEF t
  <1>3. /\ s \o t \in Seq(Nat) /\ Len(s \o t) = Len(s) + Len(t)
        /\ \A i \in 1..(Len(s) + Len(t)) : (s \o t)[i] = IF i <= Len(s) THEN s[i] ELSE t[i - Len(s)]
    BY <1>1, <1>2, ConcatProperties
  <1>4. Len(s) + Len(t) = n + 1
    BY <1>1, <1>2
  <1> DEFINE w == s \o t
  <1>5. /\ w \in Seq(Nat) /\ Len(w) = n + 1
        /\ \A i \in 1..(n+1) : w[i] = IF i <= n THEN s[i] ELSE t[i - n]
    BY <1>1, <1>3, <1>4
  <1> HIDE DEF w
  <1>6. w \in [1..(n+1) -> Nat]
    BY <1>5
  <1>7. w[n+1] = v
    <2>1. n + 1 \in 1..(n+1) /\ ~(n + 1 <= n) /\ (n + 1) - n = 1
      OBVIOUS
    <2>2. QED
      BY <1>2, <1>5, <2>1
  <1>8. \A k \in 1..n : w[k] = s[k]
    BY <1>5
  <1>9. QED
    BY <1>6, <1>7, <1>8 DEF w, t

LEMMA NineNumbers ==
  ASSUME NEW a, NEW b, NEW c, NEW d, NEW e, NEW f, NEW g, NEW h, NEW i,
         {a, b, c, d, e, f, g, h, i} \subseteq Nat
  PROVE  LET k == <<a, b, c, d, e, f, g, h>> \o <<i>>
         IN k \in [1..9 -> Nat] /\ k[5] = e /\ k[6] = f /\ k[8] = h /\ k[9] = i
  <1> DEFINE s == <<a, b, c, d, e, f, g, h>>
             k == s \o <<i>>
  <1>0. s[5] = e /\ s[6] = f /\ s[8] = h
    OBVIOUS
  <1>1. s \in [1..8 -> Nat] /\ i \in Nat
    OBVIOUS
  <1> HIDE DEF s
  <1>2. k \in [1..(8+1) -> Nat]
    BY ONLY <1>1, OneMore
  <1>3. k[8+1] = i
    BY ONLY <1>1, OneMore
  <1>4. \A j \in 1..8 : k[j] = s[j]
    BY ONLY <1>1, OneMore
  <1>5. QED
    BY <1>0, <1>2, <1>3, <1>4 DEF s

LEMMA Selected ==
  ASSUME NEW u \in Bundle, NEW targets \in SUBSET Targets(u.body)
  PROVE  \A i \in DOMAIN SelectDocuments(Rows(u.body), targets) :
           SelectDocuments(Rows(u.body), targets)[i] \in targets
  <1> DEFINE rows == Rows(u.body)
             keys == {"platform", "product", "provider", "channel", "lifecycle"}
             primaries == {<<0, 0, 0>>} \union {<<Fold[i.type], Fold[i.value], i.value>> : i \in u.body.identifiers}
             joined == UNION {{<<x, p>> : p \in PrimaryRows(rows, x)} : x \in targets}
             key(j) == SortKey((CHOOSE d \in rows.documents : d.id = j[1]).facets, j[2], j[1]) \o <<j[2][3]>>
             R == {r \in joined \X joined : TupleLess(key(r[1]), key(r[2]))}
  <1>1. /\ Text \subseteq Nat /\ 0 \in Text /\ \A t \in Text : Fold[t] \in Text
        /\ Document \subseteq Nat /\ IsFiniteSet(Document)
    BY TextAssumption, GraphAssumption
  <1>2. /\ targets \subseteq Document /\ IsFiniteSet(u.body.identifiers)
        /\ \A i \in u.body.identifiers : i.type \in Text /\ i.value \in Text
        /\ \A d \in u.body.documents : \A k \in keys : d.facets[k] \in Text
    BY BundleAssumption
  <1>3. rows.documents = u.body.documents /\ rows.identifiers = u.body.identifiers
    BY DEF Rows
  <1>4. \A x \in targets : PrimaryRows(rows, x) \subseteq primaries
    BY <1>3 DEF PrimaryRows
  <1>5. primaries \subseteq Text \X Text \X Text
    <2>1. \A i \in u.body.identifiers : <<Fold[i.type], Fold[i.value], i.value>> \in Text \X Text \X Text
      BY <1>1, <1>2
    <2>2. QED
      BY <1>1, <2>1
  <1>6. IsFiniteSet(primaries)
    <2> DEFINE row == [i \in u.body.identifiers |-> <<Fold[i.type], Fold[i.value], i.value>>]
               T == {<<Fold[i.type], Fold[i.value], i.value>> : i \in u.body.identifiers}
    <2>1. row \in Surjection(u.body.identifiers, T)
      BY DEF Surjection
    <2> HIDE DEF row, T
    <2>2. IsFiniteSet(T)
      BY <1>2, <2>1, FS_Surjection
    <2>3. IsFiniteSet({<<0, 0, 0>>})
      BY FS_Singleton
    <2>4. IsFiniteSet({<<0, 0, 0>>} \union T)
      BY <2>2, <2>3, FS_Union
    <2>5. QED
      BY <2>4 DEF T
  <1> HIDE DEF primaries
  <1>7. joined \subseteq targets \X primaries
    BY <1>4
  <1>8. IsFiniteSet(joined)
    <2>1. IsFiniteSet(targets)
      BY <1>1, <1>2, FS_Subset
    <2>2. IsFiniteSet(targets \X primaries)
      BY <1>6, <2>1, FS_Product
    <2> HIDE DEF joined
    <2>3. QED
      BY <1>7, <2>2, FS_Subset
  <1>9. ASSUME NEW j \in joined
        PROVE  /\ key(j) \in [1..9 -> Nat]
               /\ key(j)[5] = j[2][1] /\ key(j)[6] = j[2][2] /\ key(j)[8] = j[1] /\ key(j)[9] = j[2][3]
               /\ j = <<j[1], <<j[2][1], j[2][2], j[2][3]>> >> /\ j[1] \in targets
    <2>1. j[1] \in targets /\ j[2] \in primaries /\ j = <<j[1], j[2]>>
      BY <1>7
    <2>2. j[2] = <<j[2][1], j[2][2], j[2][3]>> /\ {j[2][1], j[2][2], j[2][3]} \subseteq Nat /\ j[1] \in Nat
      BY <1>1, <1>2, <1>5, <2>1
    <2> DEFINE d == CHOOSE d \in rows.documents : d.id = j[1]
    <2>3. d \in u.body.documents
      BY <1>3, <2>1 DEF Targets
    <2> HIDE DEF d
    <2>4. /\ Fold[d.facets["platform"]] \in Nat /\ Fold[d.facets["product"]] \in Nat
          /\ Fold[d.facets["provider"]] \in Nat /\ Fold[d.facets["channel"]] \in Nat
          /\ Fold[d.facets["lifecycle"]] \in Nat
      BY <1>1, <1>2, <2>3
    <2>5. key(j) = <<Fold[d.facets["platform"]], Fold[d.facets["product"]], Fold[d.facets["provider"]],
                     Fold[d.facets["channel"]], j[2][1], j[2][2], Fold[d.facets["lifecycle"]], j[1]>> \o <<j[2][3]>>
      BY DEF SortKey, d
    <2> HIDE DEF key
    <2>6. PICK a \in Nat, b \in Nat, c \in Nat, e \in Nat, f \in Nat :
            key(j) = <<a, b, c, e, j[2][1], j[2][2], f, j[1]>> \o <<j[2][3]>>
      BY <2>4, <2>5
    <2>7. /\ key(j) \in [1..9 -> Nat]
          /\ key(j)[5] = j[2][1] /\ key(j)[6] = j[2][2] /\ key(j)[8] = j[1] /\ key(j)[9] = j[2][3]
      BY <2>2, <2>6, NineNumbers
    <2>8. QED
      BY <2>1, <2>2, <2>7
  <1> HIDE DEF joined, key
  <1>10. \A i \in 1..Cardinality(joined) : \E x \in joined : Cardinality({y \in joined : <<y, x>> \in R}) = i - 1
    <2>1. \A x, y \in joined : <<x, y>> \in R <=> TupleLess(key(x), key(y))
      OBVIOUS
    <2> HIDE DEF R
    <2>2. \A x \in joined : <<x, x>> \notin R
      BY <1>9, <2>1, TupleOrder
    <2>3. \A x, y, z \in joined : <<x, y>> \in R /\ <<y, z>> \in R => <<x, z>> \in R
      BY <1>9, <2>1, TupleOrder
    <2>4. ASSUME NEW x \in joined, NEW y \in joined, x # y PROVE <<x, y>> \in R \/ <<y, x>> \in R
      <3>1. key(x) # key(y)
        BY <1>9, <2>4
      <3>2. QED
        BY <1>9, <2>1, <3>1, TupleOrder
    <2>5. QED
      BY <1>8, <2>2, <2>3, <2>4, Ranks
  <1> DEFINE sorted == Ordered(joined, LAMBDA x, y : TupleLess(key(x), key(y)))
  <1>11. sorted = [i \in 1..Cardinality(joined) |->
                     CHOOSE x \in joined : Cardinality({y \in joined : TupleLess(key(y), key(x))}) = i - 1]
    BY DEF Ordered
  <1>12. \A x \in joined : {y \in joined : <<y, x>> \in R} = {y \in joined : TupleLess(key(y), key(x))}
    OBVIOUS
  <1>13. ASSUME NEW i \in 1..Cardinality(joined) PROVE sorted[i] \in joined
    <2>1. \E x \in joined : Cardinality({y \in joined : TupleLess(key(y), key(x))}) = i - 1
      BY <1>10, <1>12
    <2>2. QED
      BY <1>11, <2>1
  <1>14. DOMAIN sorted = 1..Cardinality(joined)
    BY <1>11
  <1> HIDE DEF sorted
  <1>15. SelectDocuments(rows, targets) = [i \in DOMAIN sorted |-> sorted[i][1]]
    BY DEF SelectDocuments, sorted, joined, key
  <1>16. QED
    BY <1>9, <1>13, <1>14, <1>15

LEMMA Found ==
  ASSUME NEW u \in Bundle, validate_projection_bundle(u), NEW q, NEW n,
         NEW r \in Resolutions(Rows(u.body), q, n)
  PROVE  {r.matches[i] : i \in DOMAIN r.matches} \subseteq Targets(u.body)
  <1> DEFINE rows == Rows(u.body)
             p == parse_query(q)
             canonical == {d.id : d \in {d \in rows.documents : Whole(q) = <<d.id>>}}
             exact == MatchingIdentifiers(rows, p)
             alias == MatchingAliases(rows, q, p)
  <1>1. /\ rows.documents = u.body.documents /\ rows.identifiers = u.body.identifiers
        /\ rows.aliases = u.body.aliases
    BY DEF Rows
  <1>2. canonical \subseteq Targets(u.body)
    BY <1>1 DEF Targets
  <1>3. exact \subseteq Targets(u.body)
    BY <1>1 DEF MatchingIdentifiers, validate_projection_bundle
  <1>4. alias \subseteq Targets(u.body)
    BY <1>1 DEF MatchingAliases, validate_projection_bundle
  <1>5. LexicalHits(rows, p) \subseteq Targets(u.body)
    BY <1>1 DEF LexicalHits, Targets
  <1>6. \/ \E targets \in {canonical, exact, alias} : r.matches = SelectDocuments(rows, targets)
        \/ \E s \in BestOf(LexicalHits(rows, p), n) : r.matches = s
    BY DEF Resolutions, Answered
  <1> HIDE DEF rows, p, canonical, exact, alias
  <1>7. ASSUME NEW targets \in {canonical, exact, alias}, r.matches = SelectDocuments(rows, targets)
        PROVE  {r.matches[i] : i \in DOMAIN r.matches} \subseteq Targets(u.body)
    <2>1. targets \in SUBSET Targets(u.body)
      BY <1>2, <1>3, <1>4
    <2>2. \A i \in DOMAIN SelectDocuments(rows, targets) : SelectDocuments(rows, targets)[i] \in targets
      BY <2>1, Selected DEF rows
    <2>3. QED
      BY <1>7, <2>1, <2>2
  <1>8. ASSUME NEW s \in BestOf(LexicalHits(rows, p), n), r.matches = s
        PROVE  {r.matches[i] : i \in DOMAIN r.matches} \subseteq Targets(u.body)
    <2>1. PICK D : s \in [D -> LexicalHits(rows, p)]
      BY DEF BestOf
    <2>2. QED
      BY <1>5, <1>8, <2>1
  <1>9. QED
    BY <1>6, <1>7, <1>8

LEMMA ResolveStep ==
  ASSUME CoreInv, GraphInv, ResolveWithGraph
  PROVE  Begun' \/ Rests'
  <1> DEFINE u == core.bundle[1]
  <1>1. PICK q \in Query, d \in 0..MaxDepth, n \in 1..MaxLimit :
          \E r \in Resolutions(Tables, q, n) :
            LET found == {r.matches[i] : i \in DOMAIN r.matches}
            IN IF found = {} \/ d = 0
               THEN pc' = "done" /\ UNCHANGED <<request, queue, visited, out>>
               ELSE Begin(found, d, <<>>, "both", n)
    BY DEF ResolveWithGraph
  <1>2. PICK r \in Resolutions(Tables, q, n) :
            LET found == {r.matches[i] : i \in DOMAIN r.matches}
            IN IF found = {} \/ d = 0
               THEN pc' = "done" /\ UNCHANGED <<request, queue, visited, out>>
               ELSE Begin(found, d, <<>>, "both", n)
    BY <1>1
  <1>3. /\ u \in Bundle /\ validate_projection_bundle(u) /\ Tables = Rows(u.body)
        /\ edges \subseteq Edge /\ edges' = edges /\ Quiet
    BY DEF ResolveWithGraph, CoreInv, ServesExpected, validate_phase544_bundle, GraphInv, GraphTyped
  <1> DEFINE found == {r.matches[i] : i \in DOMAIN r.matches}
  <1>4. found \in SUBSET Document
    <2>1. found \subseteq Targets(u.body)
      BY <1>2, <1>3, Found
    <2>2. QED
      BY <1>3, <2>1, BundleAssumption
  <1>5. n \in Nat \ {0}
    BY LimitAssumption
  <1>6. CASE pc' = "done" /\ UNCHANGED <<request, queue, visited, out>>
    BY <1>3, <1>6 DEF Rests, Quiet, request
  <1>7. CASE Begin(found, d, <<>>, "both", n)
    <2>1. edges' \subseteq Edge
      BY <1>3
    <2> HIDE DEF found
    <2>2. QED
      BY <1>4, <1>5, <1>7, <2>1, BeginStep
  <1>8. QED
    BY <1>2, <1>6, <1>7

-----------------------------------------------------------------------------
SearchInv == GraphInv /\ BuildInv /\ IndexInv /\ CoreInv

LEMMA SearchInvariant == SearchSpec => []SearchInv
  <1>1. SearchInit => BuildInv /\ IndexInv /\ CoreInv /\ Rests
    <2> SUFFICES ASSUME SearchInit PROVE BuildInv /\ IndexInv /\ CoreInv /\ Rests
      OBVIOUS
    <2>1. Rests
      BY DEF SearchInit, Init, Rests
    <2>2. BuildInv
      BY DEF SearchInit, BuildInv, Staged, Resting
    <2>3. QED
      BY <2>1, <2>2 DEF SearchInit, IndexInv, CoreInv, ServesExpected
  <1>2. SearchInv /\ [SearchNext]_search =>
          BuildInv' /\ IndexInv' /\ CoreInv' /\ (GraphInv' \/ Begun' \/ Rests')
    <2> SUFFICES ASSUME SearchInv, [SearchNext]_search
                 PROVE  BuildInv' /\ IndexInv' /\ CoreInv' /\ (GraphInv' \/ Begun' \/ Rests')
      OBVIOUS
    <2> USE DEF SearchInv
    <2>1. ASSUME NEW b \in Builder, StartBuild(b) \/ Populate(b) \/ Spoil(b) \/ Publish(b) \/ KillBuild(b)
          PROVE  BuildInv' /\ IndexInv' /\ CoreInv' /\ GraphInv'
      <3>1. UNCHANGED <<graph, core>>
        BY <2>1 DEF StartBuild, Populate, Spoil, Publish, KillBuild
      <3>2. CoreInv' /\ GraphInv'
        BY <3>1, CoreSame, GraphStutters DEF graph
      <3>3. QED
        BY <2>1, <3>2, BuildStep, IndexStep
    <2>2. CASE DamageIndex
      <3>1. UNCHANGED <<graph, core, build>>
        BY <2>2 DEF DamageIndex
      <3>2. CoreInv' /\ GraphInv'
        BY <3>1, CoreSame, GraphStutters DEF graph
      <3>3. QED
        BY <2>2, <3>1, <3>2, DamageStep DEF BuildInv
    <2>3. ASSUME UNCHANGED store PROVE BuildInv' /\ IndexInv'
      BY <2>3 DEF store, BuildInv, IndexInv
    <2>4. CASE Open
      BY <2>3, <2>4, OpenStep DEF Open
    <2>5. CASE Close
      BY <2>3, <2>5, CloseStep DEF Close
    <2>6. CASE ResolveWithGraph
      <3>1. UNCHANGED store /\ core' = core /\ edges' = edges /\ core # NoCore
        BY <2>6 DEF ResolveWithGraph
      <3>2. QED
        BY <2>3, <2>6, <3>1, CoreSame, ResolveStep
    <2>7. CASE GraphStep
      <3>1. UNCHANGED store /\ core' = core /\ core # NoCore /\ Next
        BY <2>7 DEF GraphStep, Next
      <3>2. edges' = edges
        BY <3>1 DEF Next, Expand, Discover, NextVisit, Return, Answer
      <3>3. QED
        BY <2>3, <3>1, <3>2, CoreSame, GraphNextStep
    <2>8. CASE UNCHANGED search
      <3>1. UNCHANGED store /\ UNCHANGED graph /\ core' = core
        BY <2>8 DEF search
      <3>2. QED
        BY <2>3, <3>1, CoreSame, GraphStutters DEF graph
    <2>9. QED
      BY <2>1, <2>2, <2>4, <2>5, <2>6, <2>7, <2>8 DEF SearchNext
  <1>3. Rests => GraphInv
    BY RestsSound
  <1>4. Begun => GraphInv
    BY BegunSound
  <1>5. QED
    BY <1>1, <1>2, <1>3, <1>4, PTL DEF SearchSpec, SearchInv

\* An expansion is a breadth-first search of the graph that is open, for every
\* set of bundles, every query and request and every limit: its pivots are at
\* their distance from the nearest seed, none that is nearer is left out, and
\* each can be followed back (ExpandGraph, graph_expand, resolve_with_graph).
THEOREM ExpansionIsSound == SearchSpec => []ExpansionSound
  <1>1. SearchInv => ExpansionSound
    BY DEF SearchInv, GraphInv
  <1>2. QED
    BY <1>1, SearchInvariant, PTL

\* The core that is open serves the tables and the graph of the bundle that its
\* caller expects, whoever publishes and whatever is damaged (open).
THEOREM CoreServesExpected == SearchSpec => []ServesExpected
  <1>1. SearchInv => ServesExpected
    BY DEF SearchInv, CoreInv
  <1>2. QED
    BY <1>1, SearchInvariant, PTL

\* Only a finished build or damage changes the published index, and what a
\* build puts there can be opened for its bundle (build_index).
THEOREM IndexIsKept == SearchSpec => GoodIndexKept
  <1> DEFINE kept == index' # index => trouble' # trouble \/ \E b \in Builder :
               build[b].bundle # <<>> /\ build'[b] = Resting /\ Opens(index'[1], build[b].bundle[1])
  <1>1. SearchInv /\ [SearchNext]_search => [kept]_search
    <2> SUFFICES ASSUME SearchInv, SearchNext PROVE kept
      OBVIOUS
    <2>1. CASE \E b \in Builder : StartBuild(b) \/ Populate(b) \/ Spoil(b) \/ Publish(b) \/ KillBuild(b)
      BY <2>1, IndexStep DEF SearchInv
    <2>2. CASE DamageIndex
      BY <2>2, DamageStep DEF SearchInv
    <2>3. CASE Open \/ Close \/ ResolveWithGraph \/ GraphStep
      <3>1. index' = index
        BY <2>3 DEF Open, Close, ResolveWithGraph, GraphStep, store
      <3>2. QED
        BY <3>1
    <2>4. QED
      BY <2>1, <2>2, <2>3 DEF SearchNext
  <1>2. QED
    BY <1>1, SearchInvariant, PTL DEF SearchSpec, GoodIndexKept

-----------------------------------------------------------------------------
(* The filters of a query. *)

\* The answer in progress is one that the open tables give.
AnswerInv ==
  answer # NoAnswer =>
    /\ core # NoCore /\ pc # "idle" /\ answer.query \in Query
    /\ \E r \in Resolutions(Tables, answer.query, answer.limit) :
         r.stage = answer.stage /\ r.matches = answer.matches

LEMMA FoundInScope ==
  ASSUME NEW u \in Bundle, validate_projection_bundle(u), NEW q, NEW n,
         NEW r \in Resolutions(Rows(u.body), q, n), r.stage # "canonical_identifier"
  PROVE  \A i \in DOMAIN r.matches : Scoped(Rows(u.body), r.matches[i], ScopeHints(q))
  <1> DEFINE rows == Rows(u.body)
             p == parse_query(q)
             canonical == {d.id : d \in {d \in rows.documents : Whole(q) = <<d.id>>}}
             exact == MatchingIdentifiers(rows, p)
             alias == MatchingAliases(rows, q, p)
  <1>1. exact \subseteq Targets(u.body) /\ alias \subseteq Targets(u.body)
    BY DEF MatchingIdentifiers, MatchingAliases, Rows, validate_projection_bundle
  <1>2. p.hints = ScopeHints(q)
    BY DEF parse_query
  <1>3. \A x \in exact \union alias \union LexicalHits(rows, p) : Scoped(rows, x, p.hints)
    BY DEF MatchingIdentifiers, MatchingAliases, LexicalHits
  <1>4. \/ r = Answered("canonical_identifier", SelectDocuments(rows, canonical))
        \/ \E targets \in {exact, alias} : r.matches = SelectDocuments(rows, targets)
        \/ \E s \in BestOf(LexicalHits(rows, p), n) : r.matches = s
    BY DEF Resolutions, Answered
  <1> HIDE DEF rows, p, canonical, exact, alias
  <1>5. CASE r = Answered("canonical_identifier", SelectDocuments(rows, canonical))
    <2>1. r.matches = <<>>
      BY <1>5 DEF Answered
    <2>2. QED
      BY <2>1
  <1>6. ASSUME NEW targets \in {exact, alias}, r.matches = SelectDocuments(rows, targets)
        PROVE  \A i \in DOMAIN r.matches : Scoped(rows, r.matches[i], p.hints)
    <2>1. targets \in SUBSET Targets(u.body)
      BY <1>1
    <2>2. \A i \in DOMAIN SelectDocuments(rows, targets) : SelectDocuments(rows, targets)[i] \in targets
      BY <2>1, Selected DEF rows
    <2>3. QED
      BY <1>3, <1>6, <2>2
  <1>7. ASSUME NEW s \in BestOf(LexicalHits(rows, p), n), r.matches = s
        PROVE  \A i \in DOMAIN r.matches : Scoped(rows, r.matches[i], p.hints)
    <2>1. PICK D : s \in [D -> LexicalHits(rows, p)]
      BY DEF BestOf
    <2>2. QED
      BY <1>3, <1>7, <2>1
  <1>8. QED
    BY <1>2, <1>4, <1>5, <1>6, <1>7 DEF rows

LEMMA AnswerStep ==
  ASSUME AnswerInv, SearchInv, [SearchNext]_search
  PROVE  AnswerInv'
  <1>1. ASSUME UNCHANGED <<core, pc, answer>> PROVE AnswerInv'
    BY <1>1 DEF AnswerInv, Tables
  <1>2. ASSUME NEW b \in Builder, StartBuild(b) \/ Populate(b) \/ Spoil(b) \/ Publish(b) \/ KillBuild(b)
        PROVE  AnswerInv'
    BY <1>1, <1>2 DEF StartBuild, Populate, Spoil, Publish, KillBuild, graph
  <1>3. CASE DamageIndex
    BY <1>1, <1>3 DEF DamageIndex, graph
  <1>4. CASE Open \/ Close
    BY <1>4 DEF Open, Close, AnswerInv, Quiet
  <1>5. CASE ResolveWithGraph
    <2>0. PICK q \in Query, d \in 0..MaxDepth, n \in 1..MaxLimit :
          \E r \in Resolutions(Tables, q, n) :
            LET found == {r.matches[i] : i \in DOMAIN r.matches}
            IN /\ answer' = [query |-> q, depth |-> d, limit |-> n, stage |-> r.stage, matches |-> r.matches]
               /\ IF found = {} \/ d = 0
                  THEN pc' = "done" /\ UNCHANGED <<request, queue, visited, out>>
                  ELSE Begin(found, d, <<>>, "both", n)
      BY <1>5 DEF ResolveWithGraph
    <2>1. PICK r \in Resolutions(Tables, q, n) :
            LET found == {r.matches[i] : i \in DOMAIN r.matches}
            IN /\ answer' = [query |-> q, depth |-> d, limit |-> n, stage |-> r.stage, matches |-> r.matches]
               /\ IF found = {} \/ d = 0
                  THEN pc' = "done" /\ UNCHANGED <<request, queue, visited, out>>
                  ELSE Begin(found, d, <<>>, "both", n)
      BY <2>0
    <2>2. pc' # "idle"
      BY <2>1 DEF Begin
    <2>3. core' = core /\ core # NoCore
      BY <1>5 DEF ResolveWithGraph
    <2>4. Tables' = Tables
      BY <2>3 DEF Tables
    <2>5. QED
      BY <2>1, <2>2, <2>3, <2>4 DEF AnswerInv
  <1>6. CASE GraphStep
    <2>1. CASE pc = "done"
      BY <1>6, <2>1 DEF GraphStep, AnswerInv
    <2>2. CASE pc # "done" /\ answer # NoAnswer
      <3>1. answer' = answer /\ core' = core /\ pc # "idle" /\ (Discover \/ NextVisit \/ Return)
        BY <1>6, <2>2 DEF GraphStep, AnswerInv, Expand, Answer
      <3>2. pc' # "idle"
        BY <3>1 DEF Discover, NextVisit, Return
      <3>3. QED
        BY <3>1, <3>2 DEF AnswerInv, Tables
    <2>3. CASE pc # "done" /\ answer = NoAnswer
      BY <1>6, <2>3 DEF GraphStep, AnswerInv
    <2>4. QED
      BY <2>1, <2>2, <2>3
  <1>7. CASE UNCHANGED search
    BY <1>1, <1>7 DEF search, graph
  <1>8. QED
    BY <1>2, <1>3, <1>4, <1>5, <1>6, <1>7 DEF SearchNext

\* A match has the value of every filter that no scope word overrides, at
\* whatever stage but the canonical one (resolve, _scope_clause).
THEOREM FiltersAreKept ==
  ASSUME \A u \in Bundle : OneFilter(u.body)
  PROVE  SearchSpec => []FiltersHold
  <1>1. SearchInit => AnswerInv
    BY DEF SearchInit, AnswerInv
  <1>2. AnswerInv /\ SearchInv /\ [SearchNext]_search => AnswerInv'
    BY AnswerStep
  <1>3. AnswerInv /\ SearchInv => FiltersHold
    <2> SUFFICES ASSUME AnswerInv, SearchInv, Answering, answer.stage # "canonical_identifier",
                        NEW k \in DOMAIN FilterHints(answer.query), NEW i \in DOMAIN answer.matches
                 PROVE  LET w == WordsOf(answer.query)
                            named == IF Names(w) THEN DOMAIN ScopeWords[Fold[w[1]]] ELSE {}
                            f == CHOOSE f \in Body.filters : f.target = answer.matches[i]
                        IN k \in named \/ Fold[f.facets[k]] = Fold[FilterHints(answer.query)[k]]
      BY DEF FiltersHold
    <2> DEFINE q == answer.query
               x == answer.matches[i]
               w == WordsOf(q)
               named == IF Names(w) THEN DOMAIN ScopeWords[Fold[w[1]]] ELSE {}
    <2>1. /\ Body = core.bundle[1].body /\ core.bundle[1] \in Bundle /\ Tables = Rows(Body)
          /\ validate_projection_bundle(core.bundle[1])
      BY DEF Answering, AnswerInv, SearchInv, CoreInv, ServesExpected, Body, validate_phase544_bundle
    <2>2. Scoped(Rows(Body), x, ScopeHints(q))
      BY <2>1, FoundInScope DEF Answering, AnswerInv
    <2>3. k \notin named => k \in DOMAIN ScopeHints(q) /\ ScopeHints(q)[k] = FilterHints(q)[k]
      <3> DEFINE own == FilterHints(q)
                 scope == ScopeWords[Fold[w[1]]]
      <3>1. k \in DOMAIN own
        OBVIOUS
      <3>2. ScopeHints(q) =
              IF Names(w)
              THEN [y \in (DOMAIN scope) \union (DOMAIN own) |-> IF y \in DOMAIN scope THEN scope[y] ELSE own[y]]
              ELSE own
        BY DEF ScopeHints
      <3>3. named = IF Names(w) THEN DOMAIN scope ELSE {}
        OBVIOUS
      <3> HIDE DEF own, scope, named, w
      <3>4. QED
        BY <3>1, <3>2, <3>3 DEF own
    <2> SUFFICES ASSUME k \notin named
                 PROVE  Fold[(CHOOSE f \in Body.filters : f.target = x).facets[k]] = Fold[FilterHints(q)[k]]
      OBVIOUS
    <2>4. HasFacet(Rows(Body), x, k, FilterHints(q)[k])
      BY <2>2, <2>3 DEF Scoped
    <2>5. PICK g \in Body.filters : g.target = x /\ Fold[g.facets[k]] = Fold[FilterHints(q)[k]]
      BY <2>4 DEF HasFacet, Rows, FacetRows
    <2>6. (CHOOSE f \in Body.filters : f.target = x) = g
      BY <2>1, <2>5 DEF OneFilter
    <2>7. QED
      BY <2>5, <2>6
  <1>4. QED
    BY <1>1, <1>2, <1>3, SearchInvariant, PTL DEF SearchSpec

-----------------------------------------------------------------------------
(* The ranks of the elements of a finite set in a strict total order. *)

\* The element of each rank, for a strict total order.
Orders(R, S) ==
  /\ IsFiniteSet(S) /\ \A x \in S : <<x, x>> \notin R
  /\ \A x, y, z \in S : <<x, y>> \in R /\ <<y, z>> \in R => <<x, z>> \in R
  /\ \A x, y \in S : x # y => <<x, y>> \in R \/ <<y, x>> \in R
Below(R, S, x) == {y \in S : <<y, x>> \in R}
AtRank(R, S, i) == CHOOSE x \in S : Cardinality(Below(R, S, x)) = i - 1
Ranked(R, S) == [i \in 1..Cardinality(S) |-> AtRank(R, S, i)]

LEMMA BelowGrows ==
  ASSUME NEW R, NEW S, Orders(R, S), NEW x \in S, NEW y \in S, <<x, y>> \in R
  PROVE  Cardinality(Below(R, S, x)) # Cardinality(Below(R, S, y))
  <1>1. /\ Below(R, S, x) \in SUBSET S /\ Below(R, S, y) \in SUBSET S
        /\ Below(R, S, x) \in SUBSET Below(R, S, y)
        /\ x \in Below(R, S, y) /\ x \notin Below(R, S, x)
    BY DEF Orders, Below
  <1>2. IsFiniteSet(Below(R, S, y))
    BY <1>1, FS_Subset DEF Orders
  <1>3. QED
    BY <1>1, <1>2, FS_Subset

LEMMA RankedElements ==
  ASSUME NEW R, NEW S, Orders(R, S)
  PROVE  /\ Cardinality(S) \in Nat /\ DOMAIN Ranked(R, S) = 1..Cardinality(S)
         /\ \A i \in 1..Cardinality(S) :
              /\ Ranked(R, S)[i] \in S /\ Cardinality(Below(R, S, Ranked(R, S)[i])) = i - 1
              /\ \A x \in S : Cardinality(Below(R, S, x)) = i - 1 => x = Ranked(R, S)[i]
  <1>1. Cardinality(S) \in Nat /\ DOMAIN Ranked(R, S) = 1..Cardinality(S)
    BY FS_CardinalityType DEF Orders, Ranked
  <1>2. ASSUME NEW i \in 1..Cardinality(S)
        PROVE  Ranked(R, S)[i] \in S /\ Cardinality(Below(R, S, Ranked(R, S)[i])) = i - 1
    <2>1. \E x \in S : Cardinality({y \in S : <<y, x>> \in R}) = i - 1
      <3>1. /\ IsFiniteSet(S) /\ \A x \in S : <<x, x>> \notin R
            /\ \A x, y, z \in S : <<x, y>> \in R /\ <<y, z>> \in R => <<x, z>> \in R
            /\ \A x, y \in S : x # y => <<x, y>> \in R \/ <<y, x>> \in R
        BY DEF Orders
      <3>2. QED
        BY <3>1, Ranks
    <2>2. \E x \in S : Cardinality(Below(R, S, x)) = i - 1
      BY <2>1 DEF Below
    <2>3. QED
      BY <2>2 DEF Ranked, AtRank
  <1>3. ASSUME NEW x \in S, NEW y \in S, Cardinality(Below(R, S, x)) = Cardinality(Below(R, S, y)), x # y
        PROVE  FALSE
    <2>1. <<x, y>> \in R \/ <<y, x>> \in R
      BY <1>3 DEF Orders
    <2>2. QED
      BY <1>3, <2>1, BelowGrows
  <1>4. QED
    BY <1>1, <1>2, <1>3

\* What keeps the order keeps the ranks.
LEMMA RanksKept ==
  ASSUME NEW R, NEW S, Orders(R, S), NEW Q, NEW T, NEW h \in Bijection(S, T),
         \A x, y \in S : <<x, y>> \in R <=> <<h[x], h[y]>> \in Q
  PROVE  /\ Cardinality(T) = Cardinality(S)
         /\ \A i \in 1..Cardinality(S) : Ranked(Q, T)[i] = h[Ranked(R, S)[i]]
  <1>1. /\ h \in [S -> T] /\ \A x, y \in S : h[x] = h[y] => x = y
        /\ \A t \in T : \E x \in S : h[x] = t
    BY DEF Bijection, Injection, Surjection, IsInjective
  <1>2. IsFiniteSet(T) /\ Cardinality(T) = Cardinality(S)
    BY FS_Bijection DEF Orders, ExistsBijection
  <1>3. Orders(Q, T)
    <2>1. \A t \in T : <<t, t>> \notin Q
      BY <1>1 DEF Orders
    <2>2. ASSUME NEW t \in T, NEW u \in T, NEW v \in T, <<t, u>> \in Q, <<u, v>> \in Q
          PROVE  <<t, v>> \in Q
      <3>1. PICK x \in S, y \in S, z \in S : h[x] = t /\ h[y] = u /\ h[z] = v
        BY <1>1
      <3>2. QED
        BY <2>2, <3>1 DEF Orders
    <2>3. ASSUME NEW t \in T, NEW u \in T, t # u PROVE <<t, u>> \in Q \/ <<u, t>> \in Q
      <3>1. PICK x \in S, y \in S : h[x] = t /\ h[y] = u
        BY <1>1
      <3>2. QED
        BY <2>3, <3>1 DEF Orders
    <2>4. QED
      BY <1>2, <2>1, <2>2, <2>3 DEF Orders
  <1>4. ASSUME NEW x \in S PROVE Cardinality(Below(Q, T, h[x])) = Cardinality(Below(R, S, x))
    <2> DEFINE A == Below(R, S, x)
               B == Below(Q, T, h[x])
               g == [y \in A |-> h[y]]
    <2>1. A \in SUBSET S
      BY DEF Below
    <2>2. IsFiniteSet(A)
      BY <2>1, FS_Subset DEF Orders
    <2>3. \A y \in A : h[y] \in B
      BY <1>1 DEF Below
    <2>4. \A t \in B : \E y \in A : h[y] = t
      BY <1>1 DEF Below
    <2> HIDE DEF A, B
    <2>5. g \in [A -> B] /\ \A y, z \in A : g[y] = g[z] => y = z
      BY <1>1, <2>1, <2>3
    <2>6. g \in Bijection(A, B)
      BY <2>4, <2>5 DEF Bijection, Injection, Surjection, IsInjective
    <2>7. QED
      BY <2>2, <2>6, FS_Bijection DEF ExistsBijection, A, B
  <1>5. ASSUME NEW i \in 1..Cardinality(S) PROVE Ranked(Q, T)[i] = h[Ranked(R, S)[i]]
    <2>1. Ranked(R, S)[i] \in S /\ Cardinality(Below(R, S, Ranked(R, S)[i])) = i - 1
      BY RankedElements
    <2>2. h[Ranked(R, S)[i]] \in T /\ Cardinality(Below(Q, T, h[Ranked(R, S)[i]])) = i - 1
      BY <1>1, <1>4, <2>1
    <2>3. QED
      BY <1>2, <1>3, <2>2, RankedElements
  <1>6. QED
    BY <1>2, <1>5

\* Where two tuples differ, what follows them does not matter.
LEMMA MoreKeepsOrder ==
  ASSUME NEW n \in Nat, NEW s \in [1..n -> Nat], NEW t \in [1..n -> Nat], s # t,
         NEW v \in Nat, NEW w \in Nat
  PROVE  TupleLess(s \o <<v>>, t \o <<w>>) <=> TupleLess(s, t)
  <1> DEFINE a == s \o <<v>>
             b == t \o <<w>>
  <1>1. a \in [1..(n+1) -> Nat] /\ \A k \in 1..n : a[k] = s[k]
    BY ONLY OneMore
  <1>2. b \in [1..(n+1) -> Nat] /\ \A k \in 1..n : b[k] = t[k]
    BY ONLY OneMore
  <1> HIDE DEF a, b
  <1>3. PICK m \in 1..n : s[m] # t[m]
    OBVIOUS
  <1>4. ASSUME TupleLess(a, b) PROVE TupleLess(s, t)
    <2>1. PICK i \in 1..(n+1) : a[i] < b[i] /\ \A j \in 1..(i-1) : a[j] = b[j]
      BY <1>1, <1>4 DEF TupleLess
    <2>2. i # n + 1
      BY <1>1, <1>2, <1>3, <2>1
    <2>3. i \in 1..n /\ s[i] < t[i] /\ \A j \in 1..(i-1) : s[j] = t[j]
      BY <1>1, <1>2, <2>1, <2>2
    <2>4. QED
      BY <2>3 DEF TupleLess
  <1>5. ASSUME TupleLess(s, t) PROVE TupleLess(a, b)
    <2>1. PICK i \in 1..n : s[i] < t[i] /\ \A j \in 1..(i-1) : s[j] = t[j]
      BY <1>5 DEF TupleLess
    <2>2. i \in 1..(n+1) /\ a[i] < b[i] /\ \A j \in 1..(i-1) : a[j] = b[j]
      BY <1>1, <1>2, <2>1
    <2>3. QED
      BY <1>1, <2>2 DEF TupleLess
  <1>6. QED
    BY <1>4, <1>5 DEF a, b

\* One primary identifier of each document.
Primaries(body, id) == {i \in body.identifiers : i.target = id /\ i.primary}
OnePrimaryIn(body) == \A d \in body.documents : Cardinality(Primaries(body, d.id)) = 1

LEMMA OnePrimaryRow ==
  ASSUME NEW u \in Bundle, OnePrimaryIn(u.body), NEW x \in Targets(u.body)
  PROVE  \E i \in u.body.identifiers :
           /\ {i.type, i.value, Fold[i.type], Fold[i.value]} \subseteq Nat
           /\ PrimaryRows(Rows(u.body), x) = {<<Fold[i.type], Fold[i.value], i.value>>}
           /\ PrimaryOf(u.body, x) = <<Fold[i.type], Fold[i.value]>>
  <1> DEFINE P == Primaries(u.body, x)
  <1>1. Cardinality(P) = 1
    BY DEF OnePrimaryIn, Targets
  <1>2. P \in SUBSET u.body.identifiers /\ IsFiniteSet(u.body.identifiers)
    BY BundleAssumption DEF Primaries
  <1> HIDE DEF P
  <1>3. IsFiniteSet(P)
    BY <1>2, FS_Subset
  <1>4. PICK i : P = {i}
    BY <1>1, <1>3, FS_Singleton
  <1>5. i \in u.body.identifiers /\ i.target = x
    BY <1>4 DEF P, Primaries
  <1>6. i.type \in Text /\ i.value \in Text /\ i.namespace \in Text
    BY <1>5, BundleAssumption
  <1>7. {i.type, i.value, i.namespace, Fold[i.type], Fold[i.value]} \subseteq Nat
    BY <1>6, TextAssumption
  <1>8. PrimaryRows(Rows(u.body), x) = {<<Fold[i.type], Fold[i.value], i.value>>}
    <2>1. {j \in Rows(u.body).identifiers : j.target = x /\ j.primary} = {i}
      BY <1>4 DEF P, Primaries, Rows
    <2>2. PrimaryRows(Rows(u.body), x) = {<<Fold[j.type], Fold[j.value], j.value>> : j \in {i}}
      BY <2>1 DEF PrimaryRows
    <2>3. QED
      BY <2>2
  <1>9. PrimaryOf(u.body, x) = <<Fold[i.type], Fold[i.value]>>
    <2> DEFINE own == {j \in u.body.identifiers : j.target = x}
               rank(j) == <<j.namespace, j.type, j.value>>
               best == CHOOSE j \in {i} : \A k \in {i} : ~TupleLess(rank(k), rank(j))
    <2>1. own # {} /\ {j \in own : j.primary} = {i}
      BY <1>4, <1>5 DEF P, Primaries
    <2>2. ~TupleLess(rank(i), rank(i))
      <3>1. rank(i) \in [1..3 -> Nat] /\ 3 \in Nat
        BY <1>7
      <3> HIDE DEF rank
      <3>2. QED
        BY <3>1, TupleOrder
    <2>3. best = i
      <3> HIDE DEF rank
      <3>1. \E j \in {i} : \A k \in {i} : ~TupleLess(rank(k), rank(j))
        BY <2>2
      <3>2. QED
        BY <3>1
    <2>4. PrimaryOf(u.body, x) = <<Fold[best.type], Fold[best.value]>>
      BY <2>1 DEF PrimaryOf
    <2>5. QED
      BY <2>3, <2>4
  <1>10. QED
    BY <1>5, <1>7, <1>8, <1>9

-----------------------------------------------------------------------------
(* The index and the reference. *)

\* The keys that matches are sorted by: of the reference, and of the index.
PlainKey(body, x) == SortKey(The(body, x).facets, PrimaryOf(body, x), x)
RowKey(body, j) == SortKey(The(body, j[1]).facets, j[2], j[1]) \o <<j[2][3]>>

EightNumbers(k, x) == k \in [1..8 -> Nat] /\ k[8] = x

LEMMA PlainKeys ==
  ASSUME NEW u \in Bundle, OnePrimaryIn(u.body), NEW x \in Targets(u.body)
  PROVE  /\ EightNumbers(PlainKey(u.body, x), x)
         /\ \E p : /\ PrimaryRows(Rows(u.body), x) = {p} /\ p[3] \in Nat
                   /\ RowKey(u.body, <<x, p>>) = PlainKey(u.body, x) \o <<p[3]>>
  <1> DEFINE body == u.body
             d == The(body, x)
  <1>1. PICK i \in body.identifiers :
           /\ {i.type, i.value, Fold[i.type], Fold[i.value]} \subseteq Nat
           /\ PrimaryRows(Rows(body), x) = {<<Fold[i.type], Fold[i.value], i.value>>}
           /\ PrimaryOf(body, x) = <<Fold[i.type], Fold[i.value]>>
    BY OnePrimaryRow
  <1>2. d \in body.documents
    BY DEF The, Targets
  <1> HIDE DEF d
  <1>3. \A k \in {"platform", "product", "provider", "channel", "lifecycle"} : Fold[d.facets[k]] \in Nat
    BY <1>2, BundleAssumption, TextAssumption
  <1>4. x \in Nat
    BY BundleAssumption, GraphAssumption
  <1> DEFINE p == <<Fold[i.type], Fold[i.value], i.value>>
             q == PrimaryOf(body, x)
  <1>5. p[1] = Fold[i.type] /\ p[2] = Fold[i.value] /\ p[3] = i.value /\ q[1] = p[1] /\ q[2] = p[2]
    BY <1>1
  <1>6. PrimaryRows(Rows(body), x) = {p} /\ {p[1], p[2], p[3]} \subseteq Nat
    BY <1>1, <1>5
  <1> HIDE DEF p, q
  <1>7. PlainKey(body, x) = <<Fold[d.facets["platform"]], Fold[d.facets["product"]], Fold[d.facets["provider"]],
                             Fold[d.facets["channel"]], p[1], p[2], Fold[d.facets["lifecycle"]], x>>
    BY <1>5 DEF PlainKey, SortKey, d, q
  <1>8. EightNumbers(PlainKey(body, x), x)
    <2>1. PICK a \in Nat, b \in Nat, c \in Nat, e \in Nat, f \in Nat, g \in Nat, h \in Nat :
            PlainKey(body, x) = <<a, b, c, e, f, g, h, x>>
      BY <1>3, <1>6, <1>7
    <2>2. QED
      BY <1>4, <2>1 DEF EightNumbers
  <1>9. RowKey(body, <<x, p>>) = PlainKey(body, x) \o <<p[3]>>
    <2> DEFINE j == <<x, p>>
    <2>1. j[1] = x /\ j[2] = p
      OBVIOUS
    <2> HIDE DEF j
    <2>2. SortKey(The(body, j[1]).facets, j[2], j[1]) = PlainKey(body, x)
      BY <1>7, <2>1 DEF SortKey, d
    <2>3. RowKey(body, j) = PlainKey(body, x) \o <<p[3]>>
      BY <2>1, <2>2 DEF RowKey
    <2>4. QED
      BY <2>3 DEF j
  <1>10. QED
    BY <1>6, <1>8, <1>9

LEMMA PlainKeyOrder ==
  ASSUME NEW u \in Bundle, OnePrimaryIn(u.body),
         NEW x \in Targets(u.body), NEW y \in Targets(u.body),
         NEW p, PrimaryRows(Rows(u.body), x) = {p}, NEW q, PrimaryRows(Rows(u.body), y) = {q}
  PROVE  TupleLess(RowKey(u.body, <<x, p>>), RowKey(u.body, <<y, q>>))
           <=> TupleLess(PlainKey(u.body, x), PlainKey(u.body, y))
  <1> DEFINE s == PlainKey(u.body, x)
             t == PlainKey(u.body, y)
  <1>1. s \in [1..8 -> Nat] /\ s[8] = x /\ t \in [1..8 -> Nat] /\ t[8] = y /\ 8 \in Nat
    BY PlainKeys DEF EightNumbers
  <1>2. p[3] \in Nat /\ RowKey(u.body, <<x, p>>) = s \o <<p[3]>>
    <2>1. PICK a : /\ PrimaryRows(Rows(u.body), x) = {a} /\ a[3] \in Nat
                   /\ RowKey(u.body, <<x, a>>) = s \o <<a[3]>>
      BY PlainKeys
    <2>2. a = p
      BY <2>1
    <2>3. QED
      BY <2>1, <2>2
  <1>3. q[3] \in Nat /\ RowKey(u.body, <<y, q>>) = t \o <<q[3]>>
    <2>1. PICK a : /\ PrimaryRows(Rows(u.body), y) = {a} /\ a[3] \in Nat
                   /\ RowKey(u.body, <<y, a>>) = t \o <<a[3]>>
      BY PlainKeys
    <2>2. a = q
      BY <2>1
    <2>3. QED
      BY <2>1, <2>2
  <1> DEFINE a == s \o <<p[3]>>
             b == t \o <<q[3]>>
  <1> HIDE DEF s, t
  <1>4. CASE x # y
    <2>1. s # t
      BY <1>1, <1>4
    <2>2. TupleLess(a, b) <=> TupleLess(s, t)
      BY ONLY <1>1, <1>2, <1>3, <2>1, MoreKeepsOrder
    <2>3. QED
      BY <1>2, <1>3, <2>2 DEF s, t
  <1>5. CASE x = y
    <2>1. a = b /\ s = t
      BY <1>5 DEF s, t
    <2>2. ~TupleLess(s, s)
      BY <1>1, TupleOrder
    <2>3. a \in [1..(8+1) -> Nat]
      BY ONLY <1>1, <1>2, OneMore
    <2>4. 8 + 1 \in Nat
      OBVIOUS
    <2> HIDE DEF a, b
    <2>5. ~TupleLess(a, a)
      BY <2>3, <2>4, TupleOrder
    <2>6. QED
      BY <1>2, <1>3, <2>1, <2>2, <2>5 DEF s, t, a, b
  <1>6. QED
    BY <1>4, <1>5

\* The rows of the index come in the order of the reference (sqlite_search
\* ORDER BY, _stable_record_key).
LEMMA SameOrder ==
  ASSUME NEW u \in Bundle, OnePrimaryIn(u.body), NEW targets \in SUBSET Targets(u.body), NEW stage
  PROVE  /\ _envelope(u.body, stage, targets) = Answered(stage, SelectDocuments(Rows(u.body), targets))
         /\ DOMAIN SelectDocuments(Rows(u.body), targets) = 1..Cardinality(targets)
         /\ IsFiniteSet(targets)
  <1> DEFINE body == u.body
             rows == Rows(body)
             plain(x) == PlainKey(body, x)
             key(j) == RowKey(body, j)
             row(x) == CHOOSE p : PrimaryRows(rows, x) = {p}
             joined == UNION {{<<x, p>> : p \in PrimaryRows(rows, x)} : x \in targets}
             h == [x \in targets |-> <<x, row(x)>>]
             R == {r \in targets \X targets : TupleLess(plain(r[1]), plain(r[2]))}
             Q == {r \in joined \X joined : TupleLess(key(r[1]), key(r[2]))}
  <1>1. \A x \in targets : PrimaryRows(rows, x) = {row(x)} /\ EightNumbers(plain(x), x)
    BY PlainKeys
  <1>2. \A x, y \in targets : TupleLess(key(<<x, row(x)>>), key(<<y, row(y)>>)) <=> TupleLess(plain(x), plain(y))
    BY <1>1, PlainKeyOrder
  <1>3. \A x \in targets : <<x, row(x)>>[1] = x
    OBVIOUS
  <1>4. IsFiniteSet(targets)
    BY BundleAssumption, GraphAssumption, FS_Subset
  <1>5. joined = {<<x, row(x)>> : x \in targets}
    BY <1>1
  <1>6. \A x, y \in targets : <<x, y>> \in R <=> TupleLess(plain(x), plain(y))
    OBVIOUS
  <1>7. \A i, j \in joined : <<i, j>> \in Q <=> TupleLess(key(i), key(j))
    OBVIOUS
  <1> DEFINE sorted == Ordered(joined, LAMBDA x, y : TupleLess(key(x), key(y)))
             expected == Ordered(targets, LAMBDA x, y : TupleLess(plain(x), plain(y)))
  <1>8. SelectDocuments(rows, targets) = [i \in DOMAIN sorted |-> sorted[i][1]]
    BY DEF SelectDocuments, RowKey, The, Rows
  <1>9. _envelope(body, stage, targets) = Answered(stage, expected)
    BY DEF _envelope, PlainKey
  <1> DEFINE nth(i) == CHOOSE x \in joined : Cardinality({y \in joined : TupleLess(key(y), key(x))}) = i - 1
             place(i) == CHOOSE x \in targets : Cardinality({y \in targets : TupleLess(plain(y), plain(x))}) = i - 1
  <1>10. sorted = [i \in 1..Cardinality(joined) |-> nth(i)]
    BY DEF Ordered
  <1>11. expected = [i \in 1..Cardinality(targets) |-> place(i)]
    BY DEF Ordered
  <1> HIDE DEF plain, key, row, sorted, expected
  <1>12. \A x \in joined : Below(Q, joined, x) = {y \in joined : TupleLess(key(y), key(x))}
    BY DEF Below
  <1>13. \A x \in targets : Below(R, targets, x) = {y \in targets : TupleLess(plain(y), plain(x))}
    BY DEF Below
  <1>14. sorted = Ranked(Q, joined)
    <2>1. ASSUME NEW i \in 1..Cardinality(joined) PROVE nth(i) = AtRank(Q, joined, i)
      BY <1>12, Zenon DEF AtRank
    <2> HIDE DEF nth
    <2>2. QED
      BY <1>10, <2>1 DEF Ranked
  <1>15. expected = Ranked(R, targets)
    <2>1. ASSUME NEW i \in 1..Cardinality(targets) PROVE place(i) = AtRank(R, targets, i)
      BY <1>13, Zenon DEF AtRank
    <2> HIDE DEF place
    <2>2. QED
      BY <1>11, <2>1 DEF Ranked
  <1> HIDE DEF nth, place
  <1>16. h \in Bijection(targets, joined)
    <2>1. h \in [targets -> joined] /\ \A x, y \in targets : h[x] = h[y] => x = y
      BY <1>5
    <2>2. \A j \in joined : \E x \in targets : h[x] = j
      BY <1>5
    <2> HIDE DEF h, joined
    <2>3. QED
      BY <2>1, <2>2 DEF Bijection, Injection, Surjection, IsInjective
  <1>17. \A x, y \in targets : <<x, y>> \in R <=> <<h[x], h[y]>> \in Q
    <2>1. \A x \in targets : h[x] = <<x, row(x)>> /\ h[x] \in joined
      BY <1>5
    <2> HIDE DEF h, joined, R, Q
    <2>2. QED
      BY <1>2, <1>6, <1>7, <2>1
  <1> HIDE DEF R
  <1>18. Orders(R, targets)
    <2>1. \A x \in targets : plain(x) \in [1..8 -> Nat] /\ plain(x)[8] = x
      BY <1>1 DEF EightNumbers
    <2>2. 8 \in Nat
      OBVIOUS
    <2>3. \A x \in targets : <<x, x>> \notin R
      BY <1>6, <2>1, <2>2, TupleOrder
    <2>4. \A x, y, z \in targets : <<x, y>> \in R /\ <<y, z>> \in R => <<x, z>> \in R
      BY <1>6, <2>1, <2>2, TupleOrder
    <2>5. \A x, y \in targets : x # y => <<x, y>> \in R \/ <<y, x>> \in R
      BY <1>6, <2>1, <2>2, TupleOrder
    <2>6. QED
      BY <1>4, <2>3, <2>4, <2>5 DEF Orders
  <1>19. \A x \in targets : h[x][1] = x
    OBVIOUS
  <1> HIDE DEF h, joined, Q
  <1>20. /\ Cardinality(joined) = Cardinality(targets)
         /\ \A i \in 1..Cardinality(targets) : Ranked(Q, joined)[i] = h[Ranked(R, targets)[i]]
    BY <1>16, <1>17, <1>18, RanksKept
  <1>21. /\ DOMAIN Ranked(R, targets) = 1..Cardinality(targets)
         /\ \A i \in 1..Cardinality(targets) : Ranked(R, targets)[i] \in targets
    BY <1>18, RankedElements
  <1>22. DOMAIN sorted = 1..Cardinality(targets)
    BY <1>10, <1>20
  <1>23. \A i \in 1..Cardinality(targets) : sorted[i][1] = expected[i]
    BY <1>14, <1>15, <1>19, <1>20, <1>21
  <1>24. SelectDocuments(rows, targets) = expected
    BY <1>8, <1>11, <1>22, <1>23
  <1>25. QED
    BY <1>4, <1>8, <1>9, <1>22, <1>24

\* What is built of a corpus is well made, so the theorems below speak of
\* every bundle that build_phase544_bundle returns.
LEMMA BuiltIsWellMade ==
  ASSUME NEW c, build_phase544_bundle(c).ok,
         \A r \in c.records : r.facets = [k \in FilterKey |-> r.facets[k]]
  PROVE  WellMade(build_phase544_bundle(c).body)
  <1> DEFINE body == build_phase544_bundle(c).body
  <1>1. body.filters = {[target |-> r.id, facets |-> r.facets] : r \in c.records}
    BY DEF build_phase544_bundle
  <1>2. /\ body.documents = {DocumentOf(r) : r \in c.records}
        /\ body.identifiers = UNION {IdentifiersOf(r) : r \in c.records}
    BY DEF build_phase544_bundle, build_projection_bundle
  <1>3. /\ \A r, s \in c.records : r.id = s.id => r = s
        /\ \A r \in c.records : \A i \in r.ids : i.numeric => i.value \in DOMAIN Decimal
    BY DEF build_phase544_bundle, Projectable
  <1> HIDE DEF body
  <1>4. OneFilter(body)
    BY <1>1, <1>3 DEF OneFilter
  <1>5. ASSUME NEW r \in c.records
        PROVE  \E f \in body.filters : f.target = DocumentOf(r).id /\
                 \A k \in FilterKey \ {"version"} : f.facets[k] = DocumentOf(r).facets[k]
    <2>1. [target |-> r.id, facets |-> r.facets] \in body.filters
      BY <1>1
    <2>2. DocumentOf(r).id = r.id /\ DocumentOf(r).facets = [r.facets EXCEPT !["version"] = 0]
      BY DEF DocumentOf
    <2>3. \A k \in FilterKey \ {"version"} : r.facets[k] = DocumentOf(r).facets[k]
      BY <2>2
    <2>4. QED
      BY <2>1, <2>2, <2>3
  <1>6. \A i \in body.identifiers : i.numeric => i.value \in DOMAIN Decimal
    BY <1>2, <1>3 DEF IdentifiersOf
  <1>7. QED
    BY <1>2, <1>4, <1>5, <1>6 DEF WellMade, body

\* The facet rows of a document are the facets of its filter that have a value.
LEMMA FacetsOfFilter ==
  ASSUME NEW body, OneFilter(body), NEW f \in body.filters, NEW k \in FilterKey
  PROVE  \A v : HasFacet(Rows(body), f.target, k, v) <=> f.facets[k] # 0 /\ Fold[f.facets[k]] = Fold[v]
  <1> TAKE v
  <1>1. ASSUME HasFacet(Rows(body), f.target, k, v) PROVE f.facets[k] # 0 /\ Fold[f.facets[k]] = Fold[v]
    <2>1. PICK w \in FacetRows(body) : w.target = f.target /\ w.key = k /\ Fold[w.value] = Fold[v]
      BY <1>1 DEF HasFacet, Rows
    <2>2. PICK g \in body.filters, l \in FilterKey :
            g.facets[l] # 0 /\ w = [target |-> g.target, key |-> l, value |-> g.facets[l]]
      BY <2>1 DEF FacetRows
    <2>3. g = f /\ l = k
      BY <2>1, <2>2 DEF OneFilter
    <2>4. QED
      BY <2>1, <2>2, <2>3
  <1>2. ASSUME f.facets[k] # 0, Fold[f.facets[k]] = Fold[v] PROVE HasFacet(Rows(body), f.target, k, v)
    <2>1. [target |-> f.target, key |-> k, value |-> f.facets[k]] \in FacetRows(body)
      BY <1>2 DEF FacetRows
    <2>2. QED
      BY <1>2, <2>1 DEF HasFacet, Rows
  <1>3. QED
    BY <1>1, <1>2

LEMMA ScopeAgrees ==
  ASSUME NEW u, validate_projection_bundle(u), WellMade(u.body), NEW x \in Targets(u.body),
         NEW hints, DOMAIN hints \subseteq FilterKey \ {"version"}
  PROVE  Scoped(Rows(u.body), x, hints) <=> InScope(u.body, x, hints)
  <1> DEFINE d == The(u.body, x)
  <1>1. d \in u.body.documents /\ d.id = x
    BY DEF The, Targets
  <1> HIDE DEF d
  <1>2. PICK f \in u.body.filters : f.target = x /\ \A k \in FilterKey \ {"version"} : f.facets[k] = d.facets[k]
    BY <1>1 DEF WellMade
  <1>3. ASSUME NEW k \in DOMAIN hints
        PROVE  HasFacet(Rows(u.body), x, k, hints[k]) <=> d.facets[k] # 0 /\ Fold[d.facets[k]] = Fold[hints[k]]
    <2>1. k \in FilterKey \ {"version"} /\ f.facets[k] = d.facets[k]
      BY <1>2
    <2>2. HasFacet(Rows(u.body), f.target, k, hints[k]) <=> f.facets[k] # 0 /\ Fold[f.facets[k]] = Fold[hints[k]]
      BY <2>1, FacetsOfFilter DEF WellMade
    <2>3. QED
      BY <1>2, <2>1, <2>2
  <1>4. QED
    BY <1>3 DEF Scoped, InScope, d

ExactStages == {"canonical_identifier", "scoped_identifier", "native_identifier", "alias"}

LEMMA Agreed ==
  ASSUME NEW u \in Bundle, validate_projection_bundle(u), WellMade(u.body), OnePrimaryIn(u.body),
         NEW q, DOMAIN ScopeHints(q) \subseteq FilterKey \ {"version"}, NEW n,
         NEW r \in Resolutions(Rows(u.body), q, n)
  PROVE  \/ r = ReferenceResolve(u.body, q)
         \/ r.stage \notin ExactStages /\ ReferenceResolve(u.body, q).stage \notin ExactStages
  <1> DEFINE body == u.body
             rows == Rows(body)
             p == parse_query(q)
             canonical == {d.id : d \in {d \in body.documents : Whole(q) = <<d.id>>}}
             exact == MatchingIdentifiers(rows, p)
             alias == MatchingAliases(rows, q, p)
             stage == IF DOMAIN p.hints # {} THEN "scoped_identifier" ELSE "native_identifier"
  <1>1. p.hints = ScopeHints(q)
    BY DEF parse_query
  <1>2. rows.documents = body.documents /\ rows.identifiers = body.identifiers /\ rows.aliases = body.aliases
    BY DEF Rows
  <1>3. \A x \in Targets(body) : Scoped(rows, x, p.hints) <=> InScope(body, x, p.hints)
    BY <1>1, ScopeAgrees
  <1>4. /\ \A i \in body.identifiers : i.target \in Targets(body)
        /\ \A a \in body.aliases : a.target \in Targets(body)
    BY DEF validate_projection_bundle
  <1>5. canonical \subseteq Targets(body) /\ exact \subseteq Targets(body) /\ alias \subseteq Targets(body)
    BY <1>2, <1>4 DEF Targets, MatchingIdentifiers, MatchingAliases
  <1>6. ExactIdentifiers(body, p) = exact
    BY <1>2, <1>3, <1>4 DEF ExactIdentifiers, MatchingIdentifiers
  <1>7. ExactAliases(body, q, p) = alias
    BY <1>2, <1>3, <1>4 DEF ExactAliases, MatchingAliases
  <1>8. ReferenceResolve(body, q) =
          IF canonical # {} THEN _envelope(body, "canonical_identifier", canonical)
          ELSE IF exact # {} THEN _envelope(body, stage, exact)
          ELSE IF alias # {} THEN _envelope(body, "alias", alias)
          ELSE Answered("lexical_reference", Ordered(Contained(body, p), <))
    BY <1>6, <1>7 DEF ReferenceResolve
  <1>9. Resolutions(rows, q, n) =
          IF canonical # {} THEN {Answered("canonical_identifier", SelectDocuments(rows, canonical))}
          ELSE IF exact # {} THEN {Answered(stage, SelectDocuments(rows, exact))}
          ELSE IF alias # {} THEN {Answered("alias", SelectDocuments(rows, alias))}
          ELSE {Answered("lexical", s) : s \in {s \in BestOf(LexicalHits(rows, p), n) : Len(Tokens(p)) <= MaxTerms}}
    BY <1>2 DEF Resolutions
  <1> HIDE DEF p, canonical, exact, alias, stage
  <1>10. ASSUME NEW targets \in SUBSET Targets(body), NEW at
         PROVE  _envelope(body, at, targets) = Answered(at, SelectDocuments(rows, targets))
    BY SameOrder
  <1>11. CASE canonical # {}
    BY <1>5, <1>8, <1>9, <1>10, <1>11
  <1>12. CASE canonical = {} /\ exact # {}
    BY <1>5, <1>8, <1>9, <1>10, <1>12
  <1>13. CASE canonical = {} /\ exact = {} /\ alias # {}
    BY <1>5, <1>8, <1>9, <1>10, <1>13
  <1>14. CASE canonical = {} /\ exact = {} /\ alias = {}
    <2> DEFINE found == Ordered(Contained(body, p), <)
    <2>1. ReferenceResolve(body, q) = Answered("lexical_reference", found)
      BY <1>8, <1>14
    <2>2. PICK s : r = Answered("lexical", s)
      BY <1>9, <1>14
    <2> HIDE DEF found
    <2>3. QED
      BY <2>1, <2>2 DEF Answered, ExactStages
  <1>15. QED
    BY <1>11, <1>12, <1>13, <1>14

\* Where every document has one primary identifier, the index answers the exact
\* stages as the reference does: the same stage, the same documents, in the
\* same order (SQLiteSearchCore.resolve, ReferenceResolver.resolve).
THEOREM ExactStagesAgree ==
  ASSUME \A u \in Bundle : WellMade(u.body)
  PROVE  SearchSpec => []ExactAgreement
  <1>1. AnswerInv /\ SearchInv => ExactAgreement
    <2> SUFFICES ASSUME AnswerInv, SearchInv, Answering, OnePrimary, "version" \notin DOMAIN ScopeHints(answer.query)
                 PROVE  LET reference == ReferenceResolve(Body, answer.query)
                        IN /\ answer.stage \in ExactStages <=> reference.stage \in ExactStages
                           /\ answer.stage \in ExactStages =>
                                reference = [stage |-> answer.stage, matches |-> answer.matches]
      BY DEF ExactAgreement, ExactStages
    <2> DEFINE q == answer.query
               reference == ReferenceResolve(Body, q)
    <2>1. /\ Body = core.bundle[1].body /\ core.bundle[1] \in Bundle /\ Tables = Rows(Body)
          /\ validate_projection_bundle(core.bundle[1])
      BY DEF Answering, AnswerInv, SearchInv, CoreInv, ServesExpected, Body, validate_phase544_bundle
    <2>2. PICK r \in Resolutions(Rows(Body), q, answer.limit) : r.stage = answer.stage /\ r.matches = answer.matches
      BY <2>1 DEF Answering, AnswerInv
    <2>3. r = [stage |-> r.stage, matches |-> r.matches]
      BY DEF Resolutions, Answered
    <2>4. q \in Query
      BY DEF Answering, AnswerInv
    <2>5. DOMAIN ScopeHints(q) \subseteq FilterKey \ {"version"}
      BY <2>4, QueryAssumption
    <2>6. OnePrimaryIn(Body)
      BY DEF OnePrimary, OnePrimaryIn, Primaries
    <2>7. r = reference \/ (r.stage \notin ExactStages /\ reference.stage \notin ExactStages)
      BY <2>1, <2>5, <2>6, Agreed
    <2> HIDE DEF q, reference
    <2>8. QED
      BY <2>2, <2>3, <2>7 DEF q, reference
  <1>2. SearchInit => AnswerInv
    BY DEF SearchInit, AnswerInv
  <1>3. AnswerInv /\ SearchInv /\ [SearchNext]_search => AnswerInv'
    BY AnswerStep
  <1>4. QED
    BY <1>1, <1>2, <1>3, SearchInvariant, PTL DEF SearchSpec

-----------------------------------------------------------------------------
(* The catalog. *)

\* The documents that have one spelling of a facet's value, under a filter.
Having(rows, key, value, filters) ==
  {f.target : f \in {f \in rows.facets : f.key = key /\ f.value = value /\ Scoped(rows, f.target, filters)}}
Together(rows, key, values, filters) == UNION {Having(rows, key, v, filters) : v \in values}

\* The counts of values that no document shares add up to the number of
\* documents that have any of them.
LEMMA FacetTotals ==
  ASSUME NEW rows, NEW key, NEW filters, NEW V, IsFiniteSet(V),
         NEW U, IsFiniteSet(U), Together(rows, key, V, filters) \subseteq U,
         \A v, w \in V : v # w => Having(rows, key, v, filters) \intersect Having(rows, key, w, filters) = {}
  PROVE  FacetTotal(rows, key, V, filters) = Cardinality(Together(rows, key, V, filters))
  <1> DEFINE one(S) == CHOOSE x \in S : TRUE
             docs(S) == Together(rows, key, S, filters)
             count(v) == FacetCount(rows, key, v, filters)
             F(f) == [S \in SUBSET V |-> IF S = {} THEN 0 ELSE count(one(S)) + f[S \ {one(S)}]]
             iter == CHOOSE f : f = F(f)
             size == [S \in SUBSET V |-> Cardinality(docs(S))]
  <1>1. FacetTotal(rows, key, V, filters) = iter[V]
    BY DEF FacetTotal, MapThenSumSet, MapThenFoldSet
  <1>2. \A v \in V : count(v) = Cardinality(Having(rows, key, v, filters))
    BY DEF FacetCount, Having
  <1>3. \A S \in SUBSET V : S # {} => one(S) \in S
    OBVIOUS
  <1> HIDE DEF one, count
  <1>4. ASSUME NEW S \in SUBSET V PROVE IsFiniteSet(docs(S)) /\ size[S] = Cardinality(docs(S)) /\ size[S] \in Nat
    <2>1. docs(S) \in SUBSET U
      BY DEF Together
    <2>2. IsFiniteSet(docs(S))
      BY <2>1, FS_Subset
    <2>3. QED
      BY <2>2, FS_CardinalityType
  <1>5. ASSUME NEW S \in SUBSET V, NEW v \in S PROVE size[S] = count(v) + size[S \ {v}]
    <2> DEFINE A == Having(rows, key, v, filters)
               B == docs(S \ {v})
    <2>1. docs(S) = A \union B
      BY DEF Together
    <2>2. A \intersect B = {}
      BY DEF Together
    <2>3. IsFiniteSet(docs(S)) /\ IsFiniteSet(B) /\ size[S] = Cardinality(docs(S)) /\ size[S \ {v}] = Cardinality(B)
      BY <1>4
    <2> HIDE DEF A, B, docs, size
    <2>4. IsFiniteSet(A)
      BY <2>1, <2>3, FS_Subset
    <2>5. Cardinality(docs(S)) = Cardinality(A) + Cardinality(B) - Cardinality({})
      BY <2>1, <2>2, <2>3, <2>4, FS_Union
    <2>6. Cardinality({}) = 0 /\ Cardinality(A) \in Nat /\ Cardinality(B) \in Nat
      BY <2>3, <2>4, FS_EmptySet, FS_CardinalityType
    <2>7. count(v) = Cardinality(A)
      BY <1>2 DEF A
    <2>8. QED
      BY <2>3, <2>5, <2>6, <2>7
  <1>6. size[{}] = 0
    <2>1. docs({}) = {}
      BY DEF Together
    <2>2. QED
      BY <2>1, FS_EmptySet
  <1>7. size = [S \in SUBSET V |-> size[S]]
    OBVIOUS
  <1> HIDE DEF docs, size
  <1>8. size = F(size)
    <2>1. \A S \in SUBSET V : size[S] = IF S = {} THEN 0 ELSE count(one(S)) + size[S \ {one(S)}]
      BY <1>3, <1>5, <1>6
    <2>2. QED
      BY <1>7, <2>1
  <1>9. iter = F(iter)
    BY <1>8
  <1> HIDE DEF iter
  <1>10. \A S \in SUBSET V : iter[S] = IF S = {} THEN 0 ELSE count(one(S)) + iter[S \ {one(S)}]
    BY <1>9
  <1> HIDE DEF F
  <1> DEFINE n == Cardinality(V)
             Known == {k \in 0..n : \A S \in SUBSET V : Cardinality(S) = k => iter[S] = size[S]}
  <1>11. n \in Nat
    BY FS_CardinalityType
  <1>12. 0 \in Known
    <2>1. ASSUME NEW S \in SUBSET V, Cardinality(S) = 0 PROVE iter[S] = size[S]
      <3>1. S = {}
        BY <2>1, FS_Subset, FS_EmptySet
      <3>2. QED
        BY <1>6, <1>10, <3>1
    <2>2. QED
      BY <1>11, <2>1
  <1>13. ASSUME NEW k \in 1..n, k - 1 \in Known PROVE k \in Known
    <2> SUFFICES ASSUME NEW S \in SUBSET V, Cardinality(S) = k PROVE iter[S] = size[S]
      BY <1>11
    <2>1. IsFiniteSet(S) /\ S # {}
      BY <1>11, FS_Subset, FS_EmptySet
    <2>2. one(S) \in S
      BY <1>3, <2>1
    <2> DEFINE T == S \ {one(S)}
    <2>3. Cardinality(T) = k - 1
      BY <2>1, <2>2, FS_RemoveElement
    <2>4. iter[T] = size[T]
      BY <1>13, <2>3
    <2>5. QED
      BY <1>5, <1>10, <2>1, <2>2, <2>4
  <1> HIDE DEF Known
  <1>14. 0..n \subseteq Known
    BY <1>11, <1>12, <1>13, IntervalInduction
  <1>15. n \in Known
    BY <1>11, <1>14
  <1>16. iter[V] = size[V]
    BY <1>15 DEF Known, n
  <1>17. QED
    BY <1>1, <1>4, <1>16 DEF docs

\* A document has one row of each facet, at most.
LEMMA OneFacetRow ==
  ASSUME NEW body, OneFilter(body),
         NEW f \in Rows(body).facets, NEW g \in Rows(body).facets, f.target = g.target, f.key = g.key
  PROVE  f = g
  <1>1. PICK a \in body.filters, k \in FilterKey : f = [target |-> a.target, key |-> k, value |-> a.facets[k]]
    BY DEF Rows, FacetRows
  <1>2. PICK b \in body.filters, l \in FilterKey : g = [target |-> b.target, key |-> l, value |-> b.facets[l]]
    BY DEF Rows, FacetRows
  <1>3. a = b /\ k = l
    BY <1>1, <1>2 DEF OneFilter
  <1>4. QED
    BY <1>1, <1>2, <1>3

Spellings(rows, f) == {h.value : h \in {h \in rows.facets : h.key = f.key /\ Fold[h.value] = Fold[f.value]}}

LEMMA BrowsedTogether ==
  ASSUME NEW u \in Bundle, validate_projection_bundle(u), OneFilter(u.body),
         NEW f \in Rows(u.body).facets, NEW g \in Rows(u.body).facets, g.key # f.key \/ g = f
  PROVE  Browse(Rows(u.body), [k \in {f.key, g.key} |-> IF k = f.key THEN f.value ELSE g.value])
           = Together(Rows(u.body), f.key, Spellings(Rows(u.body), f), [k \in {g.key} |-> g.value])
  <1> DEFINE rows == Rows(u.body)
             own == [k \in {g.key} |-> g.value]
             both == [k \in {f.key, g.key} |-> IF k = f.key THEN f.value ELSE g.value]
  <1>1. DOMAIN own = {g.key} /\ own[g.key] = g.value
    OBVIOUS
  <1>2. DOMAIN both = {f.key, g.key} /\ both[f.key] = f.value /\ both[g.key] = g.value
    OBVIOUS
  <1> HIDE DEF own, both
  <1>3. \A x : Scoped(rows, x, own) <=> HasFacet(rows, x, g.key, g.value)
    BY <1>1 DEF Scoped
  <1>4. \A x : Scoped(rows, x, both) <=> HasFacet(rows, x, f.key, f.value) /\ HasFacet(rows, x, g.key, g.value)
    BY <1>2 DEF Scoped
  <1>5. \A x : x \in Browse(rows, both) <=> x \in Targets(u.body) /\ Scoped(rows, x, both)
    BY DEF Browse, Rows, Targets
  <1>6. \A h \in rows.facets : h.target \in Targets(u.body)
    BY DEF Rows, FacetRows, validate_projection_bundle
  <1> HIDE DEF rows
  <1>7. ASSUME NEW x \in Browse(rows, both) PROVE x \in Together(rows, f.key, Spellings(rows, f), own)
    <2>1. PICK h \in rows.facets : h.target = x /\ h.key = f.key /\ Fold[h.value] = Fold[f.value]
      BY <1>4, <1>5 DEF HasFacet
    <2>2. Scoped(rows, x, own)
      BY <1>3, <1>4, <1>5
    <2>3. h.value \in Spellings(rows, f) /\ x \in Having(rows, f.key, h.value, own)
      BY <2>1, <2>2 DEF Spellings, Having
    <2>4. QED
      BY <2>3 DEF Together
  <1>8. ASSUME NEW x \in Together(rows, f.key, Spellings(rows, f), own) PROVE x \in Browse(rows, both)
    <2>1. PICK v \in Spellings(rows, f) : x \in Having(rows, f.key, v, own)
      BY DEF Together
    <2>2. PICK h \in rows.facets : h.target = x /\ h.key = f.key /\ h.value = v /\ Scoped(rows, x, own)
      BY <2>1 DEF Having
    <2>3. Fold[v] = Fold[f.value]
      BY DEF Spellings
    <2>4. HasFacet(rows, x, f.key, f.value)
      BY <2>2, <2>3 DEF HasFacet
    <2>5. QED
      BY <1>3, <1>4, <1>5, <1>6, <2>2, <2>4
  <1>9. QED
    BY <1>7, <1>8 DEF own, both, rows

\* facet_values and browse.
LEMMA FacetsAddUp ==
  ASSUME NEW u \in Bundle, validate_projection_bundle(u), OneFilter(u.body),
         NEW f \in Rows(u.body).facets, NEW g \in Rows(u.body).facets, g.key # f.key \/ g = f
  PROVE  FacetTotal(Rows(u.body), f.key, Spellings(Rows(u.body), f), [k \in {g.key} |-> g.value])
           = Cardinality(Browse(Rows(u.body), [k \in {f.key, g.key} |-> IF k = f.key THEN f.value ELSE g.value]))
  <1> DEFINE rows == Rows(u.body)
             own == [k \in {g.key} |-> g.value]
             both == [k \in {f.key, g.key} |-> IF k = f.key THEN f.value ELSE g.value]
             V == Spellings(rows, f)
             U == Targets(u.body)
  <1>1. IsFiniteSet(U)
    BY BundleAssumption, GraphAssumption, FS_Subset
  <1>2. \A h \in rows.facets : h.target \in U
    BY DEF Rows, FacetRows, validate_projection_bundle
  <1>3. IsFiniteSet(V)
    <2> DEFINE H == {h \in rows.facets : h.key = f.key /\ Fold[h.value] = Fold[f.value]}
               at == [h \in H |-> h.target]
               value == [h \in H |-> h.value]
    <2>1. \A h, j \in H : h.target = j.target => h = j
      BY OneFacetRow
    <2>2. at \in Injection(H, U)
      BY <1>2, <2>1 DEF Injection, IsInjective
    <2>3. V = {h.value : h \in H}
      BY DEF Spellings
    <2>4. value \in Surjection(H, V)
      BY <2>3 DEF Surjection
    <2> HIDE DEF H, at, value, U, V
    <2>5. IsFiniteSet(H)
      BY <1>1, <2>2, FS_Injection
    <2>6. QED
      BY <2>4, <2>5, FS_Surjection
  <1>4. Together(rows, f.key, V, own) \subseteq U
    BY <1>2 DEF Together, Having
  <1>5. ASSUME NEW v \in V, NEW w \in V, v # w
        PROVE  Having(rows, f.key, v, own) \intersect Having(rows, f.key, w, own) = {}
    <2> SUFFICES ASSUME NEW x \in Having(rows, f.key, v, own), x \in Having(rows, f.key, w, own) PROVE FALSE
      OBVIOUS
    <2>1. PICK h \in rows.facets : h.target = x /\ h.key = f.key /\ h.value = v
      BY DEF Having
    <2>2. PICK j \in rows.facets : j.target = x /\ j.key = f.key /\ j.value = w
      BY DEF Having
    <2>3. QED
      BY <1>5, <2>1, <2>2, OneFacetRow
  <1>6. Browse(rows, both) = Together(rows, f.key, V, own)
    BY BrowsedTogether
  <1> HIDE DEF rows, own, both, V, U
  <1>7. FacetTotal(rows, f.key, V, own) = Cardinality(Together(rows, f.key, V, own))
    BY <1>1, <1>3, <1>4, <1>5, FacetTotals
  <1>8. QED
    BY <1>6, <1>7 DEF rows, own, both, V

LEMMA RankedRise ==
  ASSUME NEW R, NEW S, Orders(R, S), NEW i \in 1..Cardinality(S), NEW j \in 1..Cardinality(S), i < j
  PROVE  <<Ranked(R, S)[i], Ranked(R, S)[j]>> \in R
  <1> DEFINE x == Ranked(R, S)[i]
             y == Ranked(R, S)[j]
  <1>1. /\ x \in S /\ Cardinality(Below(R, S, x)) = i - 1
        /\ y \in S /\ Cardinality(Below(R, S, y)) = j - 1
    BY RankedElements
  <1>2. i \in Nat /\ j \in Nat
    BY RankedElements
  <1> HIDE DEF x, y
  <1>3. x # y
    BY <1>1, <1>2
  <1>4. ASSUME <<y, x>> \in R PROVE FALSE
    <2>1. Below(R, S, y) \in SUBSET Below(R, S, x) /\ Below(R, S, x) \in SUBSET S
      BY <1>1, <1>4 DEF Orders, Below
    <2>2. IsFiniteSet(Below(R, S, x))
      BY <2>1, FS_Subset DEF Orders
    <2>3. Cardinality(Below(R, S, y)) <= Cardinality(Below(R, S, x))
      BY <2>1, <2>2, FS_Subset
    <2>4. QED
      BY <1>1, <1>2, <2>3
  <1>5. QED
    BY <1>1, <1>3, <1>4 DEF Orders, x, y

\* numeric_browse: what is shown goes up.
LEMMA NumbersRise ==
  ASSUME NEW u \in Bundle, validate_projection_bundle(u), WellMade(u.body), NEW namespace, NEW type, NEW n \in Nat
  PROVE  LET shown == NumericBrowse(Rows(u.body), namespace, type, n)
         IN \A j, k \in DOMAIN shown : j < k => shown[j][1] <= shown[k][1]
  <1> DEFINE ids == {i \in u.body.identifiers : i.namespace = namespace /\ i.type = type /\ i.numeric}
             S == NumericRows(u.body.identifiers, namespace, type)
             R == {r \in S \X S : TupleLess(r[1], r[2])}
             all == Ordered(S, TupleLess)
             row(i) == <<Decimal[i.value], i.target, i.value>>
  <1>1. \A i \in ids : Decimal[i.value] \in Nat /\ i.target \in Nat /\ i.value \in Nat
    <2>1. \A i \in ids : i.value \in DOMAIN Decimal
      BY DEF WellMade
    <2>2. \A i \in ids : i.target \in Nat
      BY BundleAssumption, GraphAssumption DEF validate_projection_bundle
    <2>3. QED
      BY <2>1, <2>2, TextAssumption
  <1>2. S = {row(i) : i \in ids}
    BY DEF NumericRows
  <1>3. S \subseteq [1..3 -> Nat] /\ \A x \in S : x[1] \in Nat
    BY <1>1, <1>2
  <1>4. IsFiniteSet(S)
    <2> DEFINE h == [i \in ids |-> row(i)]
    <2>1. h \in Surjection(ids, S)
      BY <1>2 DEF Surjection
    <2>2. IsFiniteSet(ids)
      BY BundleAssumption, FS_Subset
    <2> HIDE DEF ids, h, S
    <2>3. QED
      BY <2>1, <2>2, FS_Surjection
  <1> HIDE DEF ids, S
  <1>5. \A x, y \in S : <<x, y>> \in R <=> TupleLess(x, y)
    OBVIOUS
  <1> HIDE DEF R
  <1>6. Orders(R, S)
    <2>1. 3 \in Nat
      OBVIOUS
    <2>2. \A x \in S : <<x, x>> \notin R
      BY <1>3, <1>5, <2>1, TupleOrder
    <2>3. \A x, y, z \in S : <<x, y>> \in R /\ <<y, z>> \in R => <<x, z>> \in R
      BY <1>3, <1>5, <2>1, TupleOrder
    <2>4. \A x, y \in S : x # y => <<x, y>> \in R \/ <<y, x>> \in R
      BY <1>3, <1>5, <2>1, TupleOrder
    <2>5. QED
      BY <1>4, <2>2, <2>3, <2>4 DEF Orders
  <1> DEFINE nth(i) == CHOOSE x \in S : Cardinality({y \in S : TupleLess(y, x)}) = i - 1
  <1>7. all = [i \in 1..Cardinality(S) |-> nth(i)]
    BY DEF Ordered
  <1>8. all = Ranked(R, S)
    <2>1. \A x \in S : Below(R, S, x) = {y \in S : TupleLess(y, x)}
      BY <1>5 DEF Below
    <2>2. ASSUME NEW i \in 1..Cardinality(S) PROVE nth(i) = AtRank(R, S, i)
      BY <2>1, Zenon DEF AtRank
    <2> HIDE DEF nth, all
    <2>3. QED
      BY <1>7, <2>2 DEF Ranked
  <1> HIDE DEF all, nth
  <1>9. DOMAIN all = 1..Cardinality(S) /\ Cardinality(S) \in Nat
    BY <1>6, <1>7, RankedElements
  <1>10. ASSUME NEW j \in 1..Cardinality(S), NEW k \in 1..Cardinality(S), j < k PROVE all[j][1] <= all[k][1]
    <2>1. all[j] \in S /\ all[k] \in S
      BY <1>6, <1>8, RankedElements
    <2>2. TupleLess(all[j], all[k])
      BY <1>5, <1>6, <1>8, <1>10, <2>1, RankedRise
    <2>3. PICK i \in 1..3 : all[j][i] < all[k][i] /\ \A l \in 1..(i-1) : all[j][l] = all[k][l]
      BY <1>3, <2>1, <2>2 DEF TupleLess
    <2>4. CASE i = 1
      BY <1>3, <2>1, <2>3, <2>4
    <2>5. CASE i # 1
      BY <1>3, <2>1, <2>3, <2>5
    <2>6. QED
      BY <2>4, <2>5
  <1> DEFINE shown == NumericBrowse(Rows(u.body), namespace, type, n)
  <1>11. Len(all) = Cardinality(S)
    BY <1>9
  <1>12. shown = FirstOf(all, n)
    BY DEF NumericBrowse, Rows, all, S
  <1>13. \A k \in DOMAIN shown : k \in 1..Cardinality(S) /\ shown[k] = all[k]
    BY <1>9, <1>11, <1>12 DEF FirstOf
  <1> HIDE DEF shown
  <1>14. \A j, k \in DOMAIN shown : j < k => shown[j][1] <= shown[k][1]
    BY <1>10, <1>13
  <1>15. QED
    BY <1>14 DEF shown

\* The counts of the facets add up to what browsing returns, and numeric
\* browsing shows what the reference shows, the smallest number first
\* (facet_values, browse, numeric_browse).
THEOREM BrowsingIsConsistent ==
  ASSUME \A u \in Bundle : WellMade(u.body)
  PROVE  SearchSpec => []BrowsingAgrees
  <1>1. ASSUME SearchInv, JustOpened PROVE BrowsingAgrees
    <2> DEFINE u == core.bundle[1]
    <2>1. /\ Body = u.body /\ u \in Bundle /\ Tables = Rows(u.body)
          /\ validate_projection_bundle(u) /\ WellMade(u.body) /\ OneFilter(u.body)
      BY <1>1 DEF JustOpened, SearchInv, CoreInv, ServesExpected, Body, validate_phase544_bundle, WellMade
    <2> HIDE DEF u
    <2>2. FacetsCountDocuments
      <3> SUFFICES ASSUME NEW f \in Tables.facets, NEW g \in Tables.facets, g.key # f.key \/ g = f
                   PROVE  FacetTotal(Tables, f.key, Spellings(Tables, f), [k \in {g.key} |-> g.value])
                            = Cardinality(Browse(Tables, [k \in {f.key, g.key} |-> IF k = f.key THEN f.value ELSE g.value]))
        BY DEF FacetsCountDocuments, Spellings
      <3>1. QED
        BY <2>1, FacetsAddUp
    <2>3. NumericOrder
      <3> SUFFICES ASSUME NEW i \in Tables.identifiers, NEW n \in 1..MaxLimit
                   PROVE  LET shown == NumericBrowse(Tables, i.namespace, i.type, n)
                          IN /\ shown = FirstOf(ReferenceNumeric(Body, i.namespace, i.type), n)
                             /\ \A j, k \in DOMAIN shown : j < k => shown[j][1] <= shown[k][1]
        BY DEF NumericOrder
      <3>1. Tables.identifiers = Body.identifiers
        BY <2>1 DEF Rows
      <3>2. NumericBrowse(Tables, i.namespace, i.type, n) = FirstOf(ReferenceNumeric(Body, i.namespace, i.type), n)
        BY <3>1 DEF NumericBrowse, ReferenceNumeric
      <3>3. n \in Nat
        BY LimitAssumption
      <3>4. QED
        BY <2>1, <3>2, <3>3, NumbersRise
    <2>4. QED
      BY <2>2, <2>3 DEF BrowsingAgrees
  <1>2. SearchInv => BrowsingAgrees
    BY <1>1 DEF BrowsingAgrees, FacetsCountDocuments, NumericOrder
  <1>3. QED
    BY <1>2, SearchInvariant, PTL
=============================================================================
