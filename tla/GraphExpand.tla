----------------------------- MODULE GraphExpand -----------------------------
(***************************************************************************)
(* Bounded relationship expansion (internal/graph of the Go core and, line *)
(* for line, graph_expand of tools/search/catalog_graph.py): it walks the  *)
(* edges of the active search projection breadth first, a visit at a time, *)
(* and returns at most Limit documents nearest to the seeds.               *)
(*                                                                         *)
(* Documents and relationship types are numbers in the order of their      *)
(* texts.  New accepts edges in strictly ascending order only, so a graph  *)
(* is a set of edges.  The inner loop is one step per pivot: the sorted    *)
(* candidates are walked by taking, each time, the first one that is still *)
(* unvisited, and no candidate becomes unvisited again.                    *)
(***************************************************************************)
EXTENDS Naturals, Sequences, FiniteSets

CONSTANTS
  Document,       \* documents of the search projection
  Relationship,   \* registered relationship types
  Default,        \* those followed when the request names none
  Graphs,         \* edge sets of the packs that may be activated
  MaxDepth, MaxSeeds, MaxResults, MaxTypes    \* limits of the code

Edge == [source : Document, type : Relationship, target : Document]

ASSUME GraphAssumption ==
  /\ Document \subseteq Nat /\ IsFiniteSet(Document)
  /\ Relationship \subseteq Nat
  /\ Default \subseteq Relationship /\ Default # {}
  /\ Graphs \subseteq SUBSET Edge
  /\ {MaxDepth, MaxSeeds, MaxResults, MaxTypes} \subseteq Nat \ {0}

Direction == {"outgoing", "incoming", "both"}

VARIABLES
  edges,    \* of the active pack; a runtime's graph never changes
  seeds, depth, allowed, direction, limit,   \* the request being served
  pc,       \* "idle", "expanding", "done"
  queue,    \* documents to visit, the head is being visited
  visited,
  out       \* pivots found

request == <<seeds, depth, allowed, direction, limit>>
vars    == <<edges, request, pc, queue, visited, out>>

Pivot ==
  [target : Document, depth : 1..MaxDepth, via : Document,
   type : Relationship, direction : {"outgoing", "incoming"}]

Init ==
  /\ edges \in Graphs
  /\ seeds = {} /\ depth = 0 /\ allowed = {} /\ direction = "both" /\ limit = 1
  /\ pc = "idle" /\ queue = <<>> /\ visited = {} /\ out = <<>>

-----------------------------------------------------------------------------
\* The checks of a request for the seeds s and the types t: <<>> if it names
\* none, <<T>> for the set T.  The code counts repetitions; s and T are within
\* the limits in some list.
Valid(s, d, t, l) ==
  /\ s # {} /\ Cardinality(s) <= MaxSeeds /\ s \subseteq Document
  /\ d <= MaxDepth
  /\ l >= 1 /\ l <= MaxResults
  /\ t # <<>> => t[1] # {} /\ Cardinality(t[1]) <= MaxTypes /\ t[1] \subseteq Relationship

Ascending(S) ==
  CHOOSE f \in [1..Cardinality(S) -> S] :
    \A i, j \in 1..Cardinality(S) : i < j => f[i] < f[j]

Visits(S) == [i \in 1..Cardinality(S) |-> [id |-> Ascending(S)[i], depth |-> 0]]

Begin(s, d, t, r, l) ==
  /\ seeds' = s /\ depth' = d /\ direction' = r /\ limit' = l
  /\ allowed' = IF t = <<>> THEN Default ELSE t[1]
  /\ visited' = IF d = 0 THEN {} ELSE s
  /\ out' = <<>>
  /\ queue' = IF d = 0 THEN <<>> ELSE Visits(s)
  /\ pc' = IF d = 0 THEN "done" ELSE "expanding"

\* A request that is not valid is an error and changes nothing.
Expand ==
  /\ pc = "idle"
  /\ \E s \in SUBSET Document, d \in 0..(MaxDepth + 1), r \in Direction,
        t \in {<<>>} \union {<<T>> : T \in SUBSET Relationship}, l \in 0..(MaxResults + 1) :
       Valid(s, d, t, l) /\ Begin(s, d, t, r, l)
  /\ UNCHANGED edges

\* The edges at x that the direction admits, each with the document at its
\* other end.
Candidates(x) ==
  {[target |-> e.target, type |-> e.type, direction |-> "outgoing"] :
     e \in {e \in edges : e.source = x /\ direction # "incoming"}}
  \union
  {[target |-> e.source, type |-> e.type, direction |-> "incoming"] :
     e \in {e \in edges : e.target = x /\ direction # "outgoing"}}

\* The order of the candidates of one document; "incoming" is the lower text.
Before(c, d) ==
  \/ c.type < d.type
  \/ c.type = d.type /\ c.direction = "incoming" /\ d.direction = "outgoing"
  \/ c.type = d.type /\ c.direction = d.direction /\ c.target < d.target

Fresh(x) == {c \in Candidates(x) : c.type \in allowed /\ c.target \notin visited}

Current == Head(queue)

\* Documents at the requested depth are not expanded.
Exhausted == Current.depth >= depth \/ Fresh(Current.id) = {}

Enqueue_Front(visit) == <<Current, visit>> \o Tail(queue)
Enqueue(visit) == Append(queue, visit)

Full(n) == n >= limit

\* The document being visited has one more pivot; the limit ends everything.
Discover ==
  /\ pc = "expanding" /\ queue # <<>> /\ ~Exhausted
  /\ \E c \in Fresh(Current.id) :
       /\ \A d \in Fresh(Current.id) : d # c => Before(c, d)
       /\ visited' = visited \union {c.target}
       /\ out' = Append(out, [target |-> c.target, depth |-> Current.depth + 1,
                              via |-> Current.id, type |-> c.type,
                              direction |-> c.direction])
       /\ IF Full(Len(out) + 1)
          THEN pc' = "done" /\ queue' = <<>>
          ELSE pc' = pc /\ queue' = Enqueue([id |-> c.target, depth |-> Current.depth + 1])
  /\ UNCHANGED <<edges, request>>

NextVisit ==
  /\ pc = "expanding" /\ queue # <<>> /\ Exhausted
  /\ queue' = Tail(queue)
  /\ UNCHANGED <<edges, request, pc, visited, out>>

Return ==
  /\ pc = "expanding" /\ queue = <<>>
  /\ pc' = "done"
  /\ UNCHANGED <<edges, request, queue, visited, out>>

\* The answer leaves and nothing of the expansion is kept.
Answer ==
  /\ pc = "done"
  /\ seeds' = {} /\ depth' = 0 /\ allowed' = {} /\ direction' = "both" /\ limit' = 1
  /\ pc' = "idle" /\ queue' = <<>> /\ visited' = {} /\ out' = <<>>
  /\ UNCHANGED edges

Next == Expand \/ Discover \/ NextVisit \/ Return \/ Answer

Spec == Init /\ [][Next]_vars

-----------------------------------------------------------------------------
\* One hop along the allowed relationships, in the direction of the request.
Neighbours(S) ==
  {e.target : e \in {e \in edges : e.type \in allowed /\ e.source \in S /\ direction # "incoming"}}
  \union
  {e.source : e \in {e \in edges : e.type \in allowed /\ e.target \in S /\ direction # "outgoing"}}

\* The documents at most n hops from a seed.
Ball[n \in Nat] ==
  IF n = 0 THEN seeds ELSE LET near == Ball[n-1] IN near \union Neighbours(near)

Reported == {out[i].target : i \in 1..Len(out)}

\* The depth of every pivot is its distance from the nearest seed: a document
\* that several paths reach is reported at the end of a shortest one.
DepthIsDistance ==
  \A i \in 1..Len(out) :
    out[i].target \in Ball[out[i].depth] \ Ball[out[i].depth - 1]

\* A finished expansion is complete, or it has reached the limit and leaves
\* out nothing nearer than what it returns.
NearestOnly ==
  pc = "done" =>
    IF Len(out) < limit THEN Reported = Ball[depth] \ seeds
    ELSE Len(out) = limit /\ Ball[out[limit].depth - 1] \subseteq Reported \union seeds

\* The path can be followed back: a pivot was reached over a relationship of
\* its own type and direction from a seed or from an earlier pivot one hop
\* nearer, and no allowed relationship between the two comes first.
PathBack ==
  \A i \in 1..Len(out) :
    LET p == out[i]
        c == [target |-> p.target, type |-> p.type, direction |-> p.direction]
    IN /\ p.type \in allowed
       /\ \/ p.depth = 1 /\ p.via \in seeds
          \/ \E j \in 1..(i-1) : out[j].target = p.via /\ out[j].depth = p.depth - 1
       /\ c \in Candidates(p.via)
       /\ \A d \in Candidates(p.via) :
            d.target = p.target /\ d.type \in allowed => c = d \/ Before(c, d)

\* What an expansion returns is a breadth-first search of the allowed graph,
\* however the limit, the depth, cycles and parallel relationships meet.
ExpansionSound == DepthIsDistance /\ NearestOnly /\ PathBack
=============================================================================
