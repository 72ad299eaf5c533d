------------------------ MODULE ReferencePackProofs ------------------------
(***************************************************************************)
(* Safety of ReferencePack for every set of processes, every set of        *)
(* archives, whatever they contain, every clock and every bound on faults. *)
(*                                                                         *)
(* The invariant has six parts: the types of the state (TypeOK); who holds *)
(* the lock (Locked, Stale); the clock (Anchored); what is signed (Endorsed);*)
(* what an installation knows of the state file, which no other one writes *)
(* (Following); and what the two pointers name (Pointed, Agreeing).        *)
(*                                                                         *)
(* Then the builder of archives, for every set of whole signed directories *)
(* as its source and every bound, with an invariant of what it has read,   *)
(* verified and published (BuildInv); and the directory that the release   *)
(* signs, for every blueprint, fixtures and catalog.                       *)
(***************************************************************************)
EXTENDS MCReferencePack, Recursion, FiniteSetTheorems, SequenceTheorems

Opt(S) == {<<>>} \union {<<x>> : x \in S}

\* The packs that manifests of the schema stand for.
Schematic == {m \in OfTheKind("manifest") : m.schema}
PackOf(m) == [id |-> m.id, version |-> m.version, digest |-> m.digest, spc |-> m.spc, index |-> m.spc]
Packs  == {PackOf(m) : m \in Schematic}
Digest == {m.digest : m \in Schematic}

Metadata     == {t \in OfTheKind("metadata") : t.signed}
HighestSeen       == [version : Nat, digest : Digest]
RuntimeState == [active : Opt(Digest), lkg : Opt(Digest), highest : [PackId -> Opt(HighestSeen)]]
Node         == [path : Seq(Component), data : Opt(Data)]
Locals       == [nodes : SUBSET Node, now : Clock \union {0}, pack : Opt(Packs), state : RuntimeState]
Generation   == [pack : Packs, intact : BOOLEAN]

\* The phases of an installation: after the guard, with a pack, with the state
\* that it has loaded, with its generation in place, after the activation.
Switched == {"confirm", "commit", "revert"}
Staged   == {"health", "advance", "activate"} \union Switched
Loaded   == {"stage"} \union Staged
Accepted == {"load"} \union Loaded
Guarded  == {"extract", "refresh", "verify"} \union Accepted
Phase    == {"idle", "guard", "leave"} \union Guarded

TypeOK ==
  /\ file \in Opt(RuntimeState)
  /\ time \in Clock \union {0}
  /\ cache \in Opt(Metadata)
  /\ gens \in [DOMAIN gens -> Generation]
  /\ lock \in Opt(Proc)
  /\ pc \in [Proc -> Phase]
  /\ loc \in [Proc -> Locals]

\* Whoever is inside holds the lock; a lock without an owner has its reason.
Locked == \A p \in Proc : pc[p] # "idle" => lock = <<p>>
Stale  == \A p \in Proc : lock = <<p>> /\ pc[p] = "idle" => Seen("kill") \/ Seen("write")

\* An installation past the guard has read the clock, and the record is that
\* reading, as is what guards any durable trust, as long as no record is lost.
Anchored ==
  /\ \A p \in Proc : pc[p] \in Guarded => loc[p].now # 0
  /\ ~Seen("loss") =>
       /\ Durable => time # 0
       /\ \A p \in Proc : pc[p] \in Guarded => time = loc[p].now

\* A pack whose manifest is authorized by metadata that is not newer than c.
Backed(v, c) ==
  \E w \in Trustworthy : w.manifest = v.digest /\ w.spc = v.spc /\ w.version <= c[1].version

Endorsed ==
  /\ \A g \in DOMAIN gens : gens[g].pack.digest = g /\ cache # <<>> /\ Backed(gens[g].pack, cache)
  /\ \A p \in Proc : pc[p] \in {"verify"} \union Accepted => cache # <<>>
  /\ \A p \in Proc : pc[p] \in Accepted => loc[p].pack # <<>> /\ Backed(Pack(p), cache)

\* What an installation that has loaded the state knows of the file: it is
\* what it has loaded, or what it has written itself.
FollowingOf(p) ==
  /\ pc[p] \in Loaded => Admissible(Pack(p), loc[p].state.highest[Pack(p).id])
  /\ pc[p] \in {"stage", "health", "advance"} => loc[p].state = State
  /\ pc[p] = "activate" => file = <<Advanced(p)>>
  /\ pc[p] \in Switched => file = <<Activating(p)>>
  /\ pc[p] \in Staged => Pack(p).digest \in DOMAIN gens
Following == \A p \in Proc : FollowingOf(p)

\* A pack is on record: below the highest seen of its id, or that one.
Recorded(v, highest) ==
  LET h == highest[v.id]
  IN h # <<>> /\ (v.version < h[1].version \/ [version |-> v.version, digest |-> v.digest] = h[1])

\* What a pointer names is installed and on record, and the last known good
\* was confirmed.
Named(x, highest, gs) == x # <<>> => x[1] \in DOMAIN gs /\ Recorded(gs[x[1]].pack, highest)

Sound(s, gs, ps) ==
  /\ Named(s.active, s.highest, gs) /\ Named(s.lkg, s.highest, gs)
  /\ s.lkg # <<>> => s.lkg[1] \in ps

Pointed ==
  /\ Sound(State, gens, proven)
  /\ \A p \in Proc : pc[p] \in Loaded => Sound(loc[p].state, gens, proven)
  /\ \A p \in Proc : pc[p] = "commit" => Pack(p).digest \in proven

\* Unless a write fails or a process is killed, the two pointers differ only
\* between the activation and what ends it.
Agreeing ==
  ~Seen("write") /\ ~Seen("kill") =>
    /\ (\A p \in Proc : pc[p] \notin Switched) => State.active = State.lkg
    /\ \A p \in Proc : pc[p] \in Loaded => loc[p].state.active = loc[p].state.lkg

IInv == TypeOK /\ Locked /\ Stale /\ Anchored /\ Endorsed /\ Following /\ Pointed /\ Agreeing
-----------------------------------------------------------------------------
(* What the extraction leaves: nodes with what the archive carries. *)

\* The result of _mkdir_chain_without_links is typed.
Chained == [ok : BOOLEAN, at : Seq(Component), nodes : SUBSET Node]

LEMMA MkdirType ==
  ASSUME NEW a \in Chained, NEW part \in Component
  PROVE  Mkdir(a, part) \in Chained
  <1> DEFINE q    == Append(a.at, part)
             here == Found(a.nodes, q)
             n    == CHOOSE n \in here : TRUE
  <1>1. q \in Seq(Component)
    BY DEF Chained
  <1>2. [path |-> q, data |-> <<>>] \in Node
    BY <1>1 DEF Node, Opt
  <1>3. here # {} => n \in Node
    BY DEF Chained, Found
  <1>4. CASE ~a.ok
    BY <1>4 DEF Mkdir
  <1>5. CASE a.ok /\ here = {}
    <2>1. a.nodes \union {[path |-> q, data |-> <<>>]} \in SUBSET Node
      BY <1>2 DEF Chained
    <2>2. Mkdir(a, part) = [ok |-> TRUE, at |-> q, nodes |-> a.nodes \union {[path |-> q, data |-> <<>>]}]
      BY <1>5 DEF Mkdir
    <2> HIDE DEF q
    <2>3. QED
      BY <1>1, <2>1, <2>2 DEF Chained
  <1>6. CASE a.ok /\ here # {}
    <2>1. Mkdir(a, part) = [ok |-> n.data = <<>>, at |-> n.path, nodes |-> a.nodes]
      BY <1>6 DEF Mkdir
    <2>2. n \in Node
      BY <1>3, <1>6
    <2> HIDE DEF n
    <2>3. QED
      BY <2>1, <2>2 DEF Chained, Node
  <1>7. QED
    BY <1>4, <1>5, <1>6

LEMMA MkdirChainType ==
  ASSUME NEW nodes \in SUBSET Node, NEW p \in Seq(Component)
  PROVE  MkdirChain(nodes, p) \in Chained
  <1> DEFINE base == [ok |-> TRUE, at |-> <<>>, nodes |-> nodes]
             steps == [k \in 1..Len(p) |-> [a \in Chained |-> Mkdir(a, p[k])]]
             F(f) == [k \in 0..Len(p) |-> IF k = 0 THEN base ELSE Mkdir(f[k-1], p[k])]
             chain[k \in 0..Len(p)] == IF k = 0 THEN base ELSE Mkdir(chain[k-1], p[k])
  <1>1. base \in Chained
    BY DEF Chained
  <1>2. steps \in [1..Len(p) -> [Chained -> Chained]]
    BY MkdirType
  <1>3. \A k \in 1..Len(p), a \in Chained : steps[k][a] = Mkdir(a, p[k])
    OBVIOUS
  <1>4. Len(p) \in Nat
    OBVIOUS
  <1>5. MkdirChain(nodes, p) = chain[Len(p)]
    BY DEF MkdirChain
  <1>6. chain = CHOOSE f : f = F(f)
    OBVIOUS
  <1> HIDE DEF base, steps, chain
  <1>7. Defined(Len(p), Chained, base, steps)
    BY <1>1, <1>2, <1>4, Recursion, Zenon
  <1>8. PICK f \in [0..Len(p) -> Chained] :
          f[0] = base /\ \A k \in 1..Len(p) : f[k] = steps[k][f[k-1]]
    BY <1>7 DEF Defined
  <1>9. f = F(f)
    BY <1>3, <1>8
  <1>10. chain = F(chain)
    BY <1>6, <1>9
  <1>11. Unfolds(chain, Len(p), Chained, base, steps)
    BY <1>3, <1>10 DEF Unfolds
  <1>12. chain \in [0..Len(p) -> Chained]
    BY <1>1, <1>2, <1>4, <1>11, RecursiveFunction, Zenon
  <1>13. QED
    BY <1>4, <1>5, <1>12

\* The result of placing one entry after the other is typed.
Placed == [ok : BOOLEAN, nodes : SUBSET Node]

LEMMA PlaceType ==
  ASSUME NEW a \in Placed, NEW e, e.data \in Data, e.path \in Seq(Component), e.path # <<>>
  PROVE  Place(a, e) \in Placed
  <1>1. CASE ~a.ok
    BY <1>1 DEF Place
  <1>2. CASE a.ok /\ e.dir
    <2> DEFINE d == MkdirChain(a.nodes, e.path)
    <2>1. d \in Chained
      BY MkdirChainType DEF Placed
    <2>2. Place(a, e) = [ok |-> d.ok, nodes |-> d.nodes]
      BY <1>2 DEF Place
    <2> HIDE DEF d
    <2>3. QED
      BY <2>1, <2>2 DEF Placed, Chained
  <1>3. CASE a.ok /\ ~e.dir
    <2> DEFINE d == MkdirChain(a.nodes, Front(e.path))
               q == Append(d.at, Last(e.path))
    <2>1. Front(e.path) \in Seq(Component) /\ Last(e.path) \in Component
      BY DEF Front, Last
    <2>2. d \in Chained
      BY <2>1, MkdirChainType DEF Placed
    <2>3. Place(a, e) = [ok |-> d.ok /\ Found(d.nodes, q) = {} /\ e.actual = e.size,
                         nodes |-> d.nodes \union {[path |-> q, data |-> <<e.data>>]}]
      BY <1>3 DEF Place, Write
    <2> HIDE DEF d
    <2>4. q \in Seq(Component) /\ d.ok \in BOOLEAN /\ d.nodes \in SUBSET Node
      BY <2>1, <2>2 DEF Chained
    <2> HIDE DEF q
    <2>5. [path |-> q, data |-> <<e.data>>] \in Node
      BY <2>4 DEF Node, Opt
    <2>6. QED
      BY <2>3, <2>4, <2>5 DEF Placed
  <1>4. QED
    BY <1>1, <1>2, <1>3 DEF Placed

\* safe_extract_atlaspack writes nothing that the archive does not carry.
LEMMA ExtractType ==
  ASSUME NEW a \in Archive
  PROVE  Extracted[a] \in Placed
  <1> DEFINE es   == Content[a]
             base == [ok |-> TRUE, nodes |-> {}]
             steps == [k \in 1..Len(es) |-> [x \in Placed |-> Place(x, es[k])]]
             F(f) == [k \in 0..Len(es) |-> IF k = 0 THEN base ELSE Place(f[k-1], es[k])]
             placed[k \in 0..Len(es)] == IF k = 0 THEN base ELSE Place(placed[k-1], es[k])
  <1>1. base \in Placed
    BY DEF Placed
  <1>2. Len(es) \in Nat /\ DOMAIN es = 1..Len(es)
    BY DataAssumption
  <1>3. ASSUME NEW k \in 1..Len(es) PROVE es[k].data \in Data /\ es[k].path \in Seq(Component)
    <2>1. es \in Range(Content)
      BY ReferenceAssumption DEF Range
    <2>2. QED
      BY <1>2, <2>1, DataAssumption DEF Data
  <1>4. Extracted[a] = IF Preflight(es) THEN placed[Len(es)] ELSE [ok |-> FALSE, nodes |-> {}]
    BY DEF Extracted, Extract
  <1>5. CASE ~Preflight(es)
    BY <1>4, <1>5 DEF Placed
  <1>6. CASE Preflight(es)
    <2>1. \A k \in 1..Len(es) : es[k].path # <<>>
      BY <1>2, <1>6 DEF Preflight, MemberName
    <2>2. steps \in [1..Len(es) -> [Placed -> Placed]]
      BY <1>3, <2>1, PlaceType
    <2>3. \A k \in 1..Len(es), x \in Placed : steps[k][x] = Place(x, es[k])
      OBVIOUS
    <2>4. placed = CHOOSE f : f = F(f)
      OBVIOUS
    <2> HIDE DEF base, steps, placed, es
    <2>5. Defined(Len(es), Placed, base, steps)
      BY <1>1, <1>2, <2>2, Recursion, Zenon
    <2>6. PICK f \in [0..Len(es) -> Placed] :
            f[0] = base /\ \A k \in 1..Len(es) : f[k] = steps[k][f[k-1]]
      BY <2>5 DEF Defined
    <2>7. f = F(f)
      BY <1>2, <2>3, <2>6
    <2>8. placed = F(placed)
      BY <2>4, <2>7
    <2>9. Unfolds(placed, Len(es), Placed, base, steps)
      BY <1>2, <2>3, <2>8 DEF Unfolds
    <2>10. placed \in [0..Len(es) -> Placed]
      BY <1>1, <1>2, <2>2, <2>9, RecursiveFunction, Zenon
    <2>11. QED
      BY <1>2, <1>4, <1>6, <2>10
  <1>7. QED
    BY <1>5, <1>6

-----------------------------------------------------------------------------
(* What is trusted: metadata, and the pack that it authorizes. *)

LEMMA ReadsData ==
  ASSUME NEW nodes \in SUBSET Node, NEW space, NEW p
  PROVE  Reads(nodes, space, p) \subseteq Data
  <1> SUFFICES ASSUME NEW n \in Found(nodes, <<space>> \o p), n.data # <<>>
               PROVE  n.data[1] \in Data
    BY DEF Reads
  <1>1. n \in Node
    BY DEF Found
  <1>2. QED
    BY <1>1 DEF Node, Opt

\* Newer is what refresh demands of metadata and what it leaves in the cache.
Newer(c, d) == c # <<>> => d # <<>> /\ d[1].version >= c[1].version

LEMMA NewerTransitive ==
  ASSUME NEW c \in Opt(Metadata), NEW d \in Opt(Metadata), NEW e \in Opt(Metadata), Newer(c, d), Newer(d, e)
  PROVE  Newer(c, e)
  BY DataAssumption DEF Newer, Opt, Metadata

LEMMA RefreshResult ==
  ASSUME NEW nodes \in SUBSET Node, NEW c \in Opt(Metadata), Refresh(nodes, c).ok
  PROVE  LET d == Refresh(nodes, c).cache
         IN d \in Opt(Metadata) /\ d # <<>> /\ Newer(c, d)
  <1> DEFINE files == Reads(nodes, "metadata", <<"targets.json">>)
             new   == CHOOSE t \in files : TRUE
             ok    == /\ files # {} /\ new.kind = "metadata" /\ new.signed
                      /\ c # <<>> => new.version >= c[1].version
             d     == IF c # <<>> /\ new.version = c[1].version THEN c ELSE <<new>>
  <1>1. Refresh(nodes, c) = [ok |-> ok, cache |-> d]
    BY DEF Refresh
  <1>2. files # {} => new \in files
    OBVIOUS
  <1>3. files \subseteq Data
    BY ReadsData
  <1> HIDE DEF files, new
  <1>4. ok /\ Refresh(nodes, c).cache = d
    BY <1>1
  <1>5. new \in Metadata /\ new.version \in Nat
    BY <1>2, <1>3, <1>4, DataAssumption DEF Metadata, OfTheKind
  <1>6. d \in Opt(Metadata) /\ d # <<>>
    BY <1>5 DEF Opt
  <1>7. Newer(c, d)
    <2>1. CASE c # <<>> /\ new.version = c[1].version
      <3>1. d = c /\ c[1] \in Metadata
        BY <2>1 DEF Opt
      <3>2. QED
        BY <3>1, DataAssumption DEF Newer, Metadata
    <2>2. CASE ~(c # <<>> /\ new.version = c[1].version)
      <3>1. d = <<new>>
        BY <2>2
      <3>2. QED
        BY <1>4, <3>1 DEF Newer
    <2>3. QED
      BY <2>1, <2>2
  <1> HIDE DEF d
  <1>8. QED
    BY <1>4, <1>6, <1>7

LEMMA IndexOfPack ==
  ASSUME NEW m, NEW s
  PROVE  IndexOf(m, s) = m.spc
  <1> DEFINE good == {x \in s : x.kind = "index" /\ x.of = m.spc}
  <1>1. good # {} => (CHOOSE x \in good : TRUE) \in good
    OBVIOUS
  <1>2. IndexOf(m, s) = IF good # {} THEN (CHOOSE x \in good : TRUE).of ELSE m.spc
    BY DEF IndexOf
  <1>3. (CHOOSE x \in good : TRUE) \in good => (CHOOSE x \in good : TRUE).of = m.spc
    OBVIOUS
  <1>4. QED
    BY <1>1, <1>2, <1>3

\* What verify_pack_directory accepts is what a manifest of the schema says,
\* and the metadata authorizes that manifest with all that it binds.
LEMMA VerifiedResult ==
  ASSUME NEW nodes \in SUBSET Node, NEW t \in Metadata, NEW v \in VerifiedPack(nodes, t)
  PROVE  /\ v \in Packs
         /\ \E w \in Trustworthy : w.manifest = v.digest /\ w.spc = v.spc /\ w.version = t.version
  <1>1. PICK m \in Download(nodes, t, Manifest) :
          /\ v = [id |-> m.id, version |-> m.version, digest |-> m.digest, spc |-> m.spc,
                  index |-> IndexOf(m, Artifacts(nodes, t, m, "search-index"))]
          /\ \E i \in Download(nodes, t, Inventory) : ContractPair(m, i)
          /\ \A i \in DOMAIN m.artifacts :
               \E d \in Download(nodes, t, m.artifacts[i].path) : d.digest = m.artifacts[i].digest
    BY DEF VerifiedPack
  <1>2. PICK i \in Download(nodes, t, Inventory) : ContractPair(m, i)
    BY <1>1
  <1>3. m \in Schematic /\ m \in OfTheKind("manifest") /\ <<Manifest, m.digest>> \in t.targets
    BY <1>2, ReadsData DEF Download, ContractPair, ValidManifest, Schematic, OfTheKind
  <1>4. i \in OfTheKind("inventory") /\ m.inventory = i.digest /\ <<Inventory, m.inventory>> \in t.targets
    BY <1>2, ReadsData DEF Download, ContractPair, ValidInventory, OfTheKind
  <1>5. Clean(m)
    BY <1>2, <1>4 DEF Clean, ContractPair, ValidInventory
  <1>6. ASSUME NEW j \in DOMAIN m.artifacts
        PROVE  <<m.artifacts[j].path, m.artifacts[j].digest>> \in t.targets
    BY <1>1 DEF Download
  <1>7. t \in OfTheKind("metadata") /\ Authorizes(t, m)
    BY <1>3, <1>4, <1>6 DEF Authorizes, Metadata
  <1>8. v = PackOf(m)
    BY <1>1, IndexOfPack DEF PackOf
  <1>9. [manifest |-> m.digest, spc |-> m.spc, version |-> t.version] \in Trustworthy
    BY <1>3, <1>5, <1>7 DEF Trustworthy
  <1>10. v.digest = m.digest /\ v.spc = m.spc
    BY <1>1
  <1>11. QED
    BY <1>3, <1>8, <1>9, <1>10 DEF Packs

\* A digest names one pack.
LEMMA OnePack ==
  ASSUME NEW v \in Packs, NEW w \in Packs, v.digest = w.digest
  PROVE  v = w
  BY DataAssumption DEF Packs, PackOf, Schematic

LEMMA PackType ==
  ASSUME NEW v \in Packs
  PROVE  v.id \in PackId /\ v.version \in Nat /\ v.digest \in Digest /\ v.index = v.spc
  BY DataAssumption DEF Packs, PackOf, Schematic, Digest

-----------------------------------------------------------------------------
(* What an installation writes into the state file. *)

\* The highest-seen records grow: no version goes back, and none is exchanged.
Grows(h, k) ==
  \A i \in PackId : h[i] # <<>> =>
    /\ k[i] # <<>> /\ k[i][1].version >= h[i][1].version
    /\ k[i][1].version = h[i][1].version => k[i] = h[i]

LEMMA GrowsReflexive ==
  ASSUME NEW h \in [PackId -> Opt(HighestSeen)]
  PROVE  Grows(h, h)
  <1> SUFFICES ASSUME NEW i \in PackId, h[i] # <<>>
               PROVE  h[i][1].version >= h[i][1].version
    BY DEF Grows
  <1>1. h[i] \in Opt(HighestSeen)
    OBVIOUS
  <1>2. h[i][1] \in HighestSeen
    BY <1>1 DEF Opt
  <1>3. QED
    BY <1>2 DEF HighestSeen

\* A pack on record stays on record.
LEMMA RecordedKept ==
  ASSUME NEW h \in [PackId -> Opt(HighestSeen)], NEW k \in [PackId -> Opt(HighestSeen)],
         Grows(h, k), NEW v \in Packs, Recorded(v, h)
  PROVE  Recorded(v, k)
  <1>1. v.id \in PackId /\ v.version \in Nat
    BY PackType
  <1> DEFINE a == h[v.id]
             b == k[v.id]
  <1>2. a \in Opt(HighestSeen) /\ b \in Opt(HighestSeen)
    BY <1>1
  <1>3. a # <<>> /\ (v.version < a[1].version \/ [version |-> v.version, digest |-> v.digest] = a[1])
    BY DEF Recorded
  <1>4. b # <<>> /\ b[1].version >= a[1].version /\ (b[1].version = a[1].version => b = a)
    BY <1>1, <1>3 DEF Grows
  <1> HIDE DEF a, b
  <1>5. a[1].version \in Nat /\ b[1].version \in Nat
    BY <1>2, <1>3, <1>4 DEF Opt, HighestSeen
  <1>6. v.version < b[1].version \/ [version |-> v.version, digest |-> v.digest] = b[1]
    <2>1. CASE v.version < a[1].version
      BY <1>1, <1>4, <1>5, <2>1
    <2>2. CASE [version |-> v.version, digest |-> v.digest] = a[1]
      <3>1. a[1].version = v.version
        BY <2>2
      <3>2. CASE b[1].version = a[1].version
        BY <1>4, <2>2, <3>2
      <3>3. CASE b[1].version # a[1].version
        BY <1>1, <1>4, <1>5, <3>1, <3>3
      <3>4. QED
        BY <3>2, <3>3
    <2>3. QED
      BY <1>3, <2>1, <2>2
  <1>7. QED
    BY <1>4, <1>6 DEF Recorded, b

\* The four states that an installation writes differ from what it has loaded
\* in the record of its pack, which grows to hold the pack, and in the pointers.
LEMMA AdvancedState ==
  ASSUME NEW p \in Proc, loc[p] \in Locals, loc[p].pack # <<>>,
         Admissible(Pack(p), loc[p].state.highest[Pack(p).id])
  PROVE  /\ Advanced(p) \in RuntimeState
         /\ Advanced(p).active = loc[p].state.active
         /\ Advanced(p).lkg = loc[p].state.lkg
         /\ Grows(loc[p].state.highest, Advanced(p).highest)
         /\ Recorded(Pack(p), Advanced(p).highest)
  <1> DEFINE s == loc[p].state
             m == Pack(p)
             h == s.highest[m.id]
             r == IF h = <<>> \/ m.version > h[1].version
                  THEN <<[version |-> m.version, digest |-> m.digest]>> ELSE h
  <1>1. s \in RuntimeState /\ m \in Packs
    BY DEF Locals, Pack, Opt
  <1>2. m.id \in PackId /\ m.version \in Nat /\ m.digest \in Digest
    BY <1>1, PackType
  <1>3. Advanced(p) = [s EXCEPT !.highest[m.id] = r]
    BY DEF Advanced
  <1>4. Admissible(m, h)
    OBVIOUS
  <1> HIDE DEF s, m
  <1>5. h \in Opt(HighestSeen) /\ s.highest \in [PackId -> Opt(HighestSeen)]
    BY <1>1, <1>2 DEF RuntimeState
  <1>6. h # <<>> => h[1] \in HighestSeen /\ h[1].version \in Nat /\ h = <<h[1]>>
                    /\ h[1] = [version |-> h[1].version, digest |-> h[1].digest]
    BY <1>5 DEF Opt, HighestSeen
  <1> HIDE DEF h
  <1>7. r \in Opt(HighestSeen)
    BY <1>2, <1>5 DEF Opt, HighestSeen
  <1>8. r # <<>> /\ r[1] = [version |-> m.version, digest |-> m.digest]
    BY <1>2, <1>4, <1>6 DEF Admissible
  <1>9. h # <<>> => r[1].version >= h[1].version /\ (r[1].version = h[1].version => r = h)
    BY <1>2, <1>6
  <1> HIDE DEF r
  <1> DEFINE k == [s.highest EXCEPT ![m.id] = r]
  <1>10. k \in [PackId -> Opt(HighestSeen)] /\ k[m.id] = r
    BY <1>2, <1>5, <1>7
  <1>11. Advanced(p) \in RuntimeState /\ Advanced(p).active = s.active
         /\ Advanced(p).lkg = s.lkg /\ Advanced(p).highest = k
    BY <1>1, <1>3, <1>10 DEF RuntimeState
  <1>12. Grows(s.highest, k)
    <2> SUFFICES ASSUME NEW i \in PackId, s.highest[i] # <<>>
                 PROVE  /\ k[i] # <<>> /\ k[i][1].version >= s.highest[i][1].version
                        /\ k[i][1].version = s.highest[i][1].version => k[i] = s.highest[i]
      BY DEF Grows
    <2>1. CASE i = m.id
      BY <1>8, <1>9, <1>10, <2>1 DEF h
    <2>2. CASE i # m.id
      <3>1. k[i] = s.highest[i] /\ Grows(s.highest, s.highest)
        BY <1>5, <2>2, GrowsReflexive
      <3>2. QED
        BY <3>1 DEF Grows
    <2>3. QED
      BY <2>1, <2>2
  <1>13. Recorded(m, k)
    BY <1>8, <1>10 DEF Recorded
  <1> HIDE DEF k
  <1>14. QED
    BY <1>11, <1>12, <1>13 DEF s, m

LEMMA WrittenStates ==
  ASSUME NEW p \in Proc, loc[p] \in Locals, loc[p].pack # <<>>,
         Admissible(Pack(p), loc[p].state.highest[Pack(p).id])
  PROVE  LET a == Activating(p)
             c == [a EXCEPT !.lkg = <<Pack(p).digest>>]
             r == RevertedState(p)
             s == loc[p].state
         IN /\ a \in RuntimeState /\ a.highest = Advanced(p).highest
            /\ a.active = <<Pack(p).digest>> /\ a.lkg = s.lkg
            /\ c \in RuntimeState /\ c.highest = Advanced(p).highest
            /\ c.active = <<Pack(p).digest>> /\ c.lkg = <<Pack(p).digest>>
            /\ r \in RuntimeState /\ r.highest = Advanced(p).highest
            /\ r.active = (IF s.lkg # <<>> THEN s.lkg ELSE s.active) /\ r.lkg = s.lkg
  <1> DEFINE d == Advanced(p)
             s == loc[p].state
             t == <<Pack(p).digest>>
  <1>1. d \in RuntimeState /\ d.active = s.active /\ d.lkg = s.lkg
    BY AdvancedState
  <1>2. s \in RuntimeState /\ t \in Opt(Digest)
    BY PackType DEF Locals, Pack, Opt
  <1>3. Activating(p) = [d EXCEPT !.active = t]
    BY DEF Activating
  <1>4. RevertedState(p) = [d EXCEPT !.active = IF s.lkg # <<>> THEN s.lkg ELSE s.active, !.lkg = s.lkg]
    BY DEF RevertedState
  <1> HIDE DEF d, s, t
  <1>5. QED
    BY <1>1, <1>2, <1>3, <1>4 DEF RuntimeState, d, s, t

-----------------------------------------------------------------------------
(* Type correctness. *)

\* What is read when there is no state file.
LEMMA StateType == ASSUME TypeOK PROVE State \in RuntimeState
  BY DEF TypeOK, State, Empty, RuntimeState, Opt

LEMMA IdleType == Idle \in Locals
  BY DEF Idle, Empty, Locals, RuntimeState, Opt

LEMMA TypeInit == Init => TypeOK
  BY IdleType DEF Init, TypeOK, Opt, Phase

\* Setting one of the locals of an installation.
LEMMA LocalsSet ==
  ASSUME NEW w \in Locals
  PROVE  /\ \A n \in Clock : [w EXCEPT !.now = n] \in Locals
         /\ \A n \in SUBSET Node : [w EXCEPT !.nodes = n] \in Locals
         /\ \A s \in RuntimeState : [w EXCEPT !.state = s] \in Locals
         /\ \A v \in Packs : [w EXCEPT !.pack = <<v>>, !.nodes = {}] \in Locals
  BY DEF Locals, Opt

\* A step that writes the state file writes a runtime state.
LEMMA WriteType ==
  ASSUME TypeOK, NEW p \in Proc, NEW s \in RuntimeState, NEW l \in Phase,
         WriteState(p, s, Goto(p, l)) \/ WriteState(p, s, ToLeave(p))
  PROVE  TypeOK'
  <1> USE DEF TypeOK
  <1>1. file' \in Opt(RuntimeState)
    BY DEF WriteState, Replaced, Opt
  <1>2. pc' \in [Proc -> Phase] /\ loc' \in [Proc -> Locals]
    BY IdleType DEF WriteState, Replaced, Goto, ToLeave, Phase
  <1>3. QED
    BY <1>1, <1>2 DEF WriteState

\* The four states that may be written are there when they are.
LEMMA Writable ==
  ASSUME TypeOK, Endorsed, Following, NEW p \in Proc, pc[p] \in Loaded
  PROVE  /\ loc[p] \in Locals /\ loc[p].pack # <<>> /\ Pack(p) \in Packs
         /\ Admissible(Pack(p), loc[p].state.highest[Pack(p).id])
  <1>1. loc[p] \in Locals /\ loc[p].pack # <<>>
    BY DEF TypeOK, Endorsed, Accepted
  <1>2. Pack(p) \in Packs
    BY <1>1 DEF Locals, Opt, Pack
  <1>3. QED
    BY <1>1, <1>2 DEF Following, FollowingOf

LEMMA TypeStep == TypeOK /\ Endorsed /\ Following /\ [Next]_vars => TypeOK'
  <1> SUFFICES ASSUME TypeOK, Endorsed, Following, [Next]_vars PROVE TypeOK'
    OBVIOUS
  <1> USE DEF TypeOK
  <1>1. ASSUME NEW p \in Proc, Enter(p) PROVE TypeOK'
    BY <1>1 DEF Enter, At, Goto, Fault, disk, Opt, Phase, Guarded
  <1>2. ASSUME NEW p \in Proc, Guard(p) PROVE TypeOK'
    <2>1. PICK now \in Clock :
            \/ ToLeave(p) /\ time' \in {time, now}
            \/ Set(p, "extract", "now", now) /\ time' \in {time, now}
      BY <1>2 DEF Guard, Replaced
    <2> DEFINE w == [loc[p] EXCEPT !.now = now]
    <2>2. w \in Locals /\ (loc' = [loc EXCEPT ![p] = Idle] \/ loc' = [loc EXCEPT ![p] = w])
      BY <2>1, LocalsSet DEF ToLeave, Set
    <2>3. loc' \in [Proc -> Locals]
      <3> HIDE DEF w
      <3>1. QED
        BY <2>2, IdleType
    <2>4. pc' \in [Proc -> Phase]
      BY <2>1 DEF ToLeave, Set, Phase, Guarded
    <2>5. QED
      BY <1>2, <2>1, <2>3, <2>4 DEF Guard
  <1>3. ASSUME NEW p \in Proc, ExtractArchive(p) PROVE TypeOK'
    <2>1. PICK a \in Archive :
            ToLeave(p) \/ Set(p, "refresh", "nodes", Extracted[a].nodes)
      BY <1>3 DEF ExtractArchive
    <2>2. Extracted[a].nodes \in SUBSET Node
      BY ExtractType DEF Placed
    <2> DEFINE w == [loc[p] EXCEPT !.nodes = Extracted[a].nodes]
    <2>3. w \in Locals /\ (loc' = [loc EXCEPT ![p] = Idle] \/ loc' = [loc EXCEPT ![p] = w])
      BY <2>1, <2>2, LocalsSet DEF ToLeave, Set
    <2>4. loc' \in [Proc -> Locals]
      <3> HIDE DEF w
      <3>1. QED
        BY <2>3, IdleType
    <2>5. pc' \in [Proc -> Phase]
      BY <2>1 DEF ToLeave, Set, Phase, Guarded
    <2>6. QED
      BY <1>3, <2>4, <2>5 DEF ExtractArchive, disk
  <1>4. ASSUME NEW p \in Proc, RefreshCache(p) PROVE TypeOK'
    <2>1. loc[p].nodes \in SUBSET Node
      BY DEF Locals
    <2>2. cache' \in Opt(Metadata)
      BY <1>4, <2>1, RefreshResult DEF RefreshCache, Nodes
    <2>3. pc' \in [Proc -> Phase] /\ loc' \in [Proc -> Locals]
      BY <1>4, IdleType DEF RefreshCache, Goto, ToLeave, Phase, Guarded
    <2>4. QED
      BY <1>4, <2>2, <2>3 DEF RefreshCache
  <1>5. ASSUME NEW p \in Proc, Verify(p) PROVE TypeOK'
    <2>1. loc[p].nodes \in SUBSET Node /\ cache[1] \in Metadata
      BY <1>5 DEF Verify, At, Locals, Endorsed, Opt
    <2>2. VerifiedPack(Nodes(p), cache[1]) \subseteq Packs
      BY <2>1, VerifiedResult DEF Nodes
    <2>3. ASSUME NEW v \in VerifiedPack(Nodes(p), cache[1]),
                 loc' = [loc EXCEPT ![p].pack = <<v>>, ![p].nodes = {}]
          PROVE  loc' \in [Proc -> Locals]
      <3> DEFINE w == [loc[p] EXCEPT !.pack = <<v>>, !.nodes = {}]
      <3>1. w \in Locals /\ loc' = [loc EXCEPT ![p] = w]
        BY <2>2, <2>3, LocalsSet
      <3> HIDE DEF w
      <3>2. QED
        BY <3>1
    <2>4. loc' \in [Proc -> Locals]
      BY <1>5, <2>3, IdleType DEF Verify, ToLeave
    <2>5. pc' \in [Proc -> Phase]
      BY <1>5 DEF Verify, ToLeave, Phase, Guarded, Accepted
    <2>6. QED
      BY <1>5, <2>4, <2>5 DEF Verify, disk
  <1>6. ASSUME NEW p \in Proc, LoadState(p) PROVE TypeOK'
    <2> DEFINE w == [loc[p] EXCEPT !.state = State]
    <2>1. w \in Locals /\ (loc' = [loc EXCEPT ![p] = Idle] \/ loc' = [loc EXCEPT ![p] = w])
      BY <1>6, StateType, LocalsSet DEF LoadState, ToLeave, Set, State
    <2>2. loc' \in [Proc -> Locals]
      <3> HIDE DEF w
      <3>1. QED
        BY <2>1, IdleType
    <2>3. pc' \in [Proc -> Phase]
      BY <1>6 DEF LoadState, ToLeave, Set, Phase, Guarded, Accepted, Loaded
    <2>4. QED
      BY <1>6, <2>2, <2>3 DEF LoadState, disk
  <1>7. ASSUME NEW p \in Proc, StageGeneration(p) PROVE TypeOK'
    <2> DEFINE v == Pack(p)
               n == [pack |-> v, intact |-> TRUE]
    <2>1. v \in Packs
      BY <1>7, Writable DEF StageGeneration, At, Loaded
    <2>2. gens' = gens \/ gens' = [d \in DOMAIN gens \union {v.digest} |-> IF d = v.digest THEN n ELSE gens[d]]
      BY <1>7 DEF StageGeneration, Replaced
    <2>3. n \in Generation
      BY <2>1 DEF Generation
    <2> HIDE DEF n, v
    <2>4. gens' \in [DOMAIN gens' -> Generation]
      BY <2>2, <2>3
    <2>5. pc' \in [Proc -> Phase] /\ loc' \in [Proc -> Locals]
      BY <1>7, IdleType DEF StageGeneration, Replaced, Goto, ToLeave, Phase, Guarded,
         Accepted, Loaded, Staged
    <2>6. QED
      BY <1>7, <2>4, <2>5 DEF StageGeneration
  <1>8. ASSUME NEW p \in Proc, Health(p) PROVE TypeOK'
    BY <1>8, IdleType DEF Health, Goto, ToLeave, disk, Phase, Guarded, Accepted, Loaded, Staged
  <1>9. ASSUME NEW p \in Proc, AdvanceTrust(p) PROVE TypeOK'
    <2>1. Advanced(p) \in RuntimeState
      BY <1>9, Writable, AdvancedState DEF AdvanceTrust, At, Loaded, Staged
    <2>2. "activate" \in Phase
      BY DEF Phase, Guarded, Accepted, Loaded, Staged
    <2>3. QED
      BY <1>9, <2>1, <2>2, WriteType DEF AdvanceTrust
  <1>10. ASSUME NEW p \in Proc, Activate(p) PROVE TypeOK'
    <2>1. Activating(p) \in RuntimeState
      BY <1>10, Writable, WrittenStates DEF Activate, At, Loaded, Staged
    <2>2. "confirm" \in Phase
      BY DEF Phase, Guarded, Accepted, Loaded, Staged, Switched
    <2>3. QED
      BY <1>10, <2>1, <2>2, WriteType DEF Activate
  <1>11. ASSUME NEW p \in Proc, Confirm(p) PROVE TypeOK'
    BY <1>11 DEF Confirm, Goto, disk, Phase, Guarded, Accepted, Loaded, Staged, Switched
  <1>12. ASSUME NEW p \in Proc, Commit(p) PROVE TypeOK'
    <2>1. [Activating(p) EXCEPT !.lkg = <<Pack(p).digest>>] \in RuntimeState
      BY <1>12, Writable, WrittenStates DEF Commit, At, Loaded, Staged, Switched
    <2>2. "leave" \in Phase
      BY DEF Phase
    <2>3. QED
      BY <1>12, <2>1, <2>2, WriteType DEF Commit
  <1>13. ASSUME NEW p \in Proc, Revert(p) PROVE TypeOK'
    <2>1. RevertedState(p) \in RuntimeState
      BY <1>13, Writable, WrittenStates DEF Revert, At, Loaded, Staged, Switched
    <2>2. "leave" \in Phase
      BY DEF Phase
    <2>3. QED
      BY <1>13, <2>1, <2>2, WriteType DEF Revert
  <1>14. ASSUME NEW p \in Proc, Leave(p) PROVE TypeOK'
    BY <1>14 DEF Leave, Goto, disk, Opt, Phase
  <1>15. ASSUME NEW p \in Proc, Kill(p) PROVE TypeOK'
    BY <1>15, IdleType DEF Kill, disk, Phase
  <1>16. CASE AdminRecovery
    BY <1>16 DEF AdminRecovery, disk, Opt
  <1>17. CASE Damage
    <2>1. PICK g \in DOMAIN gens : gens' = [gens EXCEPT ![g].intact = FALSE]
      BY <1>17 DEF Damage
    <2> DEFINE n == [gens[g] EXCEPT !.intact = FALSE]
    <2>2. n \in Generation /\ gens' = [gens EXCEPT ![g] = n]
      BY <2>1 DEF Generation
    <2> HIDE DEF n
    <2>3. gens' = [h \in DOMAIN gens |-> IF h = g THEN n ELSE gens[h]]
      BY <2>2
    <2>4. gens' \in [DOMAIN gens' -> Generation]
      BY <2>2, <2>3
    <2>5. QED
      BY <1>17, <2>4 DEF Damage
  <1>18. CASE LoseTime
    BY <1>18 DEF LoseTime
  <1>19. CASE UNCHANGED vars
    BY <1>19 DEF vars, disk
  <1>20. QED
    BY <1>1, <1>2, <1>3, <1>4, <1>5, <1>6, <1>7, <1>8, <1>9, <1>10, <1>11, <1>12, <1>13,
       <1>14, <1>15, <1>16, <1>17, <1>18, <1>19 DEF Next, Step

-----------------------------------------------------------------------------
(* The lock. *)

\* While a process takes a step of an installation, every other one is idle.
LEMMA OthersIdle ==
  ASSUME TypeOK, Locked, NEW p \in Proc, Step(p), NEW q \in Proc \ {p}
  PROVE  pc[q] = "idle" /\ pc'[q] = "idle" /\ loc'[q] = loc[q]
  <1>1. pc[p] = "idle" => lock = <<>>
    BY DEF Step, Enter, Guard, ExtractArchive, RefreshCache, Verify, LoadState, StageGeneration,
       Health, AdvanceTrust, Activate, Confirm, Commit, Revert, Leave, Kill, At, LockFree
  <1>2. lock # <<q>>
    BY <1>1 DEF Locked
  <1>3. pc[q] = "idle"
    BY <1>2 DEF Locked
  <1>4. pc'[q] = pc[q] /\ loc'[q] = loc[q]
    BY DEF TypeOK, Step, Enter, Guard, ExtractArchive, RefreshCache, Verify, LoadState, StageGeneration,
       Health, AdvanceTrust, Activate, Confirm, Commit, Revert, Leave, Kill, WriteState, Replaced,
       Goto, Set, ToLeave
  <1>5. QED
    BY <1>3, <1>4

\* Only an entry and the end of an installation touch the lock, and only a
\* kill or a failure to write the lock file or to remove it make a process idle
\* otherwise.
LEMMA LockEffect ==
  ASSUME TypeOK, NEW p \in Proc, Step(p)
  PROVE  \/ pc[p] = "idle" /\ lock = <<>> /\ lock' = <<p>> /\ (pc'[p] = "idle" => "write" \in faults')
         \/ pc[p] # "idle" /\ pc'[p] # "idle" /\ lock' = lock
         \/ pc[p] # "idle" /\ pc'[p] = "idle" /\ lock' = <<>>
         \/ pc[p] # "idle" /\ pc'[p] = "idle" /\ lock' = lock /\ faults' \intersect {"kill", "write"} # {}
  <1> USE DEF TypeOK, At
  <1>1. CASE Enter(p)
    BY <1>1 DEF Enter, LockFree, Goto, Fault
  <1>2. CASE Guard(p) \/ ExtractArchive(p) \/ RefreshCache(p) \/ Verify(p) \/ LoadState(p)
    BY <1>2 DEF Guard, ExtractArchive, RefreshCache, Verify, LoadState, Replaced, Goto, Set, ToLeave
  <1>3. CASE StageGeneration(p) \/ Health(p) \/ Confirm(p)
    BY <1>3 DEF StageGeneration, Health, Confirm, Replaced, Goto, ToLeave
  <1>4. CASE AdvanceTrust(p) \/ Activate(p) \/ Commit(p) \/ Revert(p)
    BY <1>4 DEF AdvanceTrust, Activate, Commit, Revert, WriteState, Replaced, Goto, ToLeave
  <1>5. CASE Leave(p)
    BY <1>5 DEF Leave, Goto, Fault
  <1>6. CASE Kill(p)
    BY <1>6 DEF Kill, Fault
  <1>7. QED
    BY <1>1, <1>2, <1>3, <1>4, <1>5, <1>6 DEF Step

\* A failure is not forgotten.
LEMMA FaultsKept == [Next]_vars => faults \subseteq faults'
  BY DEF Next, Step, Enter, Guard, ExtractArchive, RefreshCache, Verify, LoadState, StageGeneration,
     Health, AdvanceTrust, Activate, Confirm, Commit, Revert, Leave, Kill, AdminRecovery, Damage,
     LoseTime, WriteState, Replaced, Fault, vars

LEMMA LockStep == TypeOK /\ Locked /\ Stale /\ [Next]_vars => (Locked /\ Stale)'
  <1> SUFFICES ASSUME TypeOK, Locked, Stale, [Next]_vars PROVE Locked' /\ Stale'
    OBVIOUS
  <1>1. ASSUME NEW p \in Proc, Step(p) PROVE Locked' /\ Stale'
    <2>1. \A q \in Proc \ {p} : pc[q] = "idle" /\ pc'[q] = "idle"
      BY <1>1, OthersIdle
    <2>2. Locked'
      BY <1>1, <2>1, LockEffect DEF Locked
    <2>3. Stale'
      BY <1>1, <2>1, LockEffect, FaultsKept DEF Locked, Stale, Seen
    <2>4. QED
      BY <2>2, <2>3
  <1>2. CASE AdminRecovery
    BY <1>2 DEF AdminRecovery, At, Locked, Stale
  <1>3. CASE Damage \/ LoseTime
    BY <1>3, FaultsKept DEF Damage, LoseTime, Locked, Stale, Seen
  <1>4. CASE UNCHANGED vars
    BY <1>4 DEF vars, Locked, Stale, Seen
  <1>5. QED
    BY <1>1, <1>2, <1>3, <1>4 DEF Next

-----------------------------------------------------------------------------
(* What the steps that set a local leave, if they do not end the installation. *)

LEMMA GuardEffect ==
  ASSUME TypeOK, NEW p \in Proc, Guard(p), pc'[p] \in Guarded
  PROVE  /\ pc'[p] = "extract"
         /\ \E now \in Clock :
              /\ loc'[p].now = now /\ time' = now
              /\ time' = time \/ (now > time /\ ~Refused(now))
  <1>1. PICK now \in Clock :
          LET extract == Set(p, "extract", "now", now)
          IN \/ Refused(now) /\ ToLeave(p) /\ UNCHANGED <<time, faults>>
             \/ ~Refused(now) /\ now = time /\ extract /\ UNCHANGED <<time, faults>>
             \/ ~Refused(now) /\ now > time /\ Replaced(p, time' = now, time' = time, extract)
    BY DEF Guard
  <1> DEFINE w == [loc[p] EXCEPT !.now = now]
  <1>2. ~ToLeave(p)
    BY DEF TypeOK, ToLeave, Guarded, Accepted, Loaded, Staged, Switched
  <1>3. time' = now /\ (time' = time \/ (now > time /\ ~Refused(now)))
    BY <1>1, <1>2 DEF Replaced
  <1>4. pc'[p] = "extract" /\ loc' = [loc EXCEPT ![p] = w] /\ w.now = now
    BY <1>1, <1>2 DEF TypeOK, Replaced, Set, Locals
  <1> HIDE DEF w
  <1>5. QED
    BY <1>3, <1>4 DEF TypeOK

LEMMA ExtractEffect ==
  ASSUME TypeOK, NEW p \in Proc, ExtractArchive(p), pc'[p] \in Guarded
  PROVE  pc'[p] = "refresh" /\ loc'[p].now = loc[p].now
  <1>1. ~ToLeave(p)
    BY DEF TypeOK, ToLeave, Guarded, Accepted, Loaded, Staged, Switched
  <1>2. PICK n : Set(p, "refresh", "nodes", n)
    BY <1>1 DEF ExtractArchive
  <1> DEFINE w == [loc[p] EXCEPT !.nodes = n]
  <1>3. pc'[p] = "refresh" /\ loc' = [loc EXCEPT ![p] = w] /\ w.now = loc[p].now
    BY <1>2 DEF Set, TypeOK, Locals
  <1> HIDE DEF w
  <1>4. QED
    BY <1>3 DEF TypeOK

LEMMA VerifyEffect ==
  ASSUME TypeOK, NEW p \in Proc, Verify(p), pc'[p] \in Guarded
  PROVE  /\ pc'[p] = "load" /\ loc'[p].now = loc[p].now
         /\ \E v \in VerifiedPack(Nodes(p), cache[1]) : loc'[p].pack = <<v>>
  <1>1. ~ToLeave(p)
    BY DEF TypeOK, ToLeave, Guarded, Accepted, Loaded, Staged, Switched
  <1>2. PICK v \in VerifiedPack(Nodes(p), cache[1]) :
          loc' = [loc EXCEPT ![p].pack = <<v>>, ![p].nodes = {}]
    BY <1>1 DEF Verify
  <1> DEFINE w == [loc[p] EXCEPT !.pack = <<v>>, !.nodes = {}]
  <1>3. loc' = [loc EXCEPT ![p] = w] /\ w.now = loc[p].now /\ w.pack = <<v>>
    BY <1>2 DEF TypeOK, Locals
  <1>4. pc'[p] = "load"
    BY <1>1 DEF Verify, TypeOK
  <1> HIDE DEF w
  <1>5. QED
    BY <1>3, <1>4 DEF TypeOK

LEMMA LoadEffect ==
  ASSUME TypeOK, NEW p \in Proc, LoadState(p), pc'[p] \in Guarded
  PROVE  /\ pc'[p] = "stage" /\ loc'[p].now = loc[p].now
         /\ loc'[p].pack = loc[p].pack /\ loc'[p].state = State
         /\ Admissible(Pack(p), State.highest[Pack(p).id])
  <1>1. ~ToLeave(p)
    BY DEF TypeOK, ToLeave, Guarded, Accepted, Loaded, Staged, Switched
  <1>2. Set(p, "stage", "state", State) /\ Admissible(Pack(p), State.highest[Pack(p).id])
    BY <1>1 DEF LoadState, State
  <1> DEFINE w == [loc[p] EXCEPT !.state = State]
  <1>3. /\ pc'[p] = "stage" /\ loc' = [loc EXCEPT ![p] = w]
        /\ w.now = loc[p].now /\ w.pack = loc[p].pack /\ w.state = State
    BY <1>2 DEF Set, TypeOK, Locals
  <1> HIDE DEF w
  <1>4. QED
    BY <1>2, <1>3 DEF TypeOK

\* The other steps set no local, and each has its next phase.
LEMMA PhaseEffect ==
  ASSUME TypeOK, NEW p \in Proc, Step(p), pc'[p] \in Guarded
  PROVE  \/ Guard(p) \/ ExtractArchive(p) \/ Verify(p) \/ LoadState(p)
         \/ /\ loc' = loc
            /\ \/ RefreshCache(p) /\ pc'[p] = "verify"
               \/ StageGeneration(p) /\ pc'[p] = "health"
               \/ Health(p) /\ pc'[p] = "advance"
               \/ AdvanceTrust(p) /\ pc'[p] = "activate"
               \/ Activate(p) /\ pc'[p] = "confirm"
               \/ Confirm(p) /\ pc'[p] \in {"commit", "revert"}
  <1>1. ~ToLeave(p) /\ ~Enter(p) /\ ~Leave(p) /\ ~Kill(p)
    BY DEF TypeOK, ToLeave, Enter, Leave, Kill, At, Goto, Guarded, Accepted, Loaded, Staged, Switched
  <1>2. ~Commit(p) /\ ~Revert(p)
    BY <1>1 DEF Commit, Revert, WriteState, Replaced
  <1>3. RefreshCache(p) => loc' = loc /\ pc'[p] = "verify"
    BY <1>1 DEF RefreshCache, Goto, TypeOK
  <1>4. StageGeneration(p) => loc' = loc /\ pc'[p] = "health"
    BY <1>1 DEF StageGeneration, Replaced, Goto, TypeOK
  <1>5. Health(p) => loc' = loc /\ pc'[p] = "advance"
    BY <1>1 DEF Health, Goto, TypeOK
  <1>6. AdvanceTrust(p) => loc' = loc /\ pc'[p] = "activate"
    BY <1>1 DEF AdvanceTrust, WriteState, Replaced, Goto, TypeOK
  <1>7. Activate(p) => loc' = loc /\ pc'[p] = "confirm"
    BY <1>1 DEF Activate, WriteState, Replaced, Goto, TypeOK
  <1>8. Confirm(p) => loc' = loc /\ pc'[p] \in {"commit", "revert"}
    BY <1>1 DEF Confirm, Goto, TypeOK
  <1>9. QED
    BY <1>1, <1>2, <1>3, <1>4, <1>5, <1>6, <1>7, <1>8 DEF Step

-----------------------------------------------------------------------------
(* The clock. *)

\* The guard writes a later reading of the clock, and no other step of an
\* installation writes the record; durable trust appears past the guard only.
LEMMA TimeEffect ==
  ASSUME TypeOK, NEW p \in Proc, Step(p)
  PROVE  /\ time' # time => \E now \in Clock : time' = now /\ now > time /\ ~Refused(now)
         /\ pc[p] \notin Guarded => UNCHANGED <<file, cache, gens>>
         /\ pc[p] \in Guarded => time' = time
  <1> USE DEF At, Guarded, Accepted, Loaded, Staged, Switched
  <1>1. CASE Guard(p)
    BY <1>1 DEF Guard, Replaced
  <1>2. CASE ExtractArchive(p) \/ Verify(p) \/ LoadState(p) \/ Health(p) \/ Confirm(p) \/ RefreshCache(p)
    BY <1>2 DEF ExtractArchive, Verify, LoadState, Health, Confirm, RefreshCache, disk
  <1>3. CASE StageGeneration(p) \/ AdvanceTrust(p) \/ Activate(p) \/ Commit(p) \/ Revert(p)
    BY <1>3 DEF StageGeneration, AdvanceTrust, Activate, Commit, Revert, WriteState
  <1>4. CASE Enter(p) \/ Leave(p) \/ Kill(p)
    BY <1>4 DEF Enter, Leave, Kill, disk
  <1>5. QED
    BY <1>1, <1>2, <1>3, <1>4 DEF Step

LEMMA ReadingEffect ==
  ASSUME TypeOK, NEW p \in Proc, Step(p), pc'[p] \in Guarded
  PROVE  \/ Guard(p) /\ \E now \in Clock : loc'[p].now = now /\ time' = now
         \/ pc[p] \in Guarded /\ loc'[p].now = loc[p].now /\ time' = time
  <1>1. CASE Guard(p)
    BY <1>1, GuardEffect
  <1>2. CASE ~Guard(p)
    <2>1. pc[p] \in Guarded
      BY <1>2, PhaseEffect DEF ExtractArchive, Verify, LoadState, RefreshCache, StageGeneration, Health,
         AdvanceTrust, Activate, Confirm, At, Guarded, Accepted, Loaded, Staged, Switched
    <2>2. loc'[p].now = loc[p].now
      BY <1>2, PhaseEffect, ExtractEffect, VerifyEffect, LoadEffect
    <2>3. QED
      BY <2>1, <2>2, TimeEffect
  <1>3. QED
    BY <1>1, <1>2

LEMMA AnchorStep == TypeOK /\ Locked /\ Anchored /\ [Next]_vars => Anchored'
  <1> SUFFICES ASSUME TypeOK, Locked, Anchored, [Next]_vars PROVE Anchored'
    OBVIOUS
  <1>0. 0 \notin Clock
    BY ReferenceAssumption
  <1>1. ASSUME NEW p \in Proc, Step(p) PROVE Anchored'
    <2>1. \A q \in Proc \ {p} : pc'[q] \notin Guarded
      BY <1>1, OthersIdle DEF Guarded, Accepted, Loaded, Staged, Switched
    <2>2. pc'[p] \in Guarded => loc'[p].now # 0
      BY <1>0, <1>1, ReadingEffect DEF Anchored
    <2>3. ASSUME ~Seen("loss")'
          PROVE  /\ Durable' => time' # 0
                 /\ pc'[p] \in Guarded => time' = loc'[p].now
      <3>1. ~Seen("loss")
        BY <2>3, FaultsKept DEF Seen
      <3>2. pc'[p] \in Guarded => time' = loc'[p].now
        BY <1>1, <3>1, ReadingEffect DEF Anchored
      <3>3. CASE pc[p] \in Guarded
        <4>1. time' = time /\ time # 0
          BY <1>1, <3>1, <3>3, TimeEffect DEF Anchored
        <4>2. QED
          BY <3>2, <4>1
      <3>4. CASE pc[p] \notin Guarded
        <4>1. Durable' = Durable
          BY <1>1, <3>4, TimeEffect DEF Durable
        <4>2. Durable' => time' # 0
          BY <1>0, <1>1, <3>1, <4>1, TimeEffect DEF Anchored
        <4>3. QED
          BY <3>2, <4>2
      <3>5. QED
        BY <3>3, <3>4
    <2>4. QED
      BY <2>1, <2>2, <2>3 DEF Anchored
  <1>2. CASE AdminRecovery
    BY <1>2 DEF AdminRecovery, disk, Anchored, Durable, Seen
  <1>3. CASE Damage
    <2>1. gens # <<>>
      BY <1>3 DEF Damage
    <2>2. QED
      BY <1>3, <2>1, FaultsKept DEF Damage, Anchored, Durable, Seen
  <1>4. CASE LoseTime
    BY <1>4 DEF LoseTime, Fault, Anchored, Seen
  <1>5. CASE UNCHANGED vars
    BY <1>5 DEF vars, disk, Anchored, Durable, Seen
  <1>6. QED
    BY <1>1, <1>2, <1>3, <1>4, <1>5 DEF Next

-----------------------------------------------------------------------------
(* What is signed. *)

LEMMA NewerReflexive ==
  ASSUME NEW c \in Opt(Metadata)
  PROVE  Newer(c, c)
  BY DataAssumption DEF Newer, Opt, Metadata

\* The cache is only replaced by newer metadata, in the refresh.
LEMMA CacheEffect ==
  ASSUME TypeOK, [Next]_vars
  PROVE  /\ Newer(cache, cache')
         /\ \A p \in Proc : RefreshCache(p) /\ pc'[p] # "leave" => cache' # <<>>
  <1>1. Newer(cache, cache)
    BY NewerReflexive DEF TypeOK
  <1>2. ASSUME NEW p \in Proc, RefreshCache(p)
        PROVE  Newer(cache, cache') /\ (pc'[p] # "leave" => cache' # <<>>)
    <2>1. Nodes(p) \in SUBSET Node /\ cache \in Opt(Metadata)
      BY DEF TypeOK, Locals, Nodes
    <2>2. CASE Refresh(Nodes(p), cache).ok
      BY <1>2, <2>1, <2>2, RefreshResult DEF RefreshCache
    <2>3. CASE ~Refresh(Nodes(p), cache).ok
      BY <1>1, <1>2, <2>3 DEF RefreshCache, ToLeave, TypeOK
    <2>4. QED
      BY <2>2, <2>3
  <1>3. (\A p \in Proc : ~RefreshCache(p)) => cache' = cache
    BY DEF Next, Step, Enter, Guard, ExtractArchive, Verify, LoadState, StageGeneration,
       Health, AdvanceTrust, Activate, Confirm, Commit, Revert, Leave, Kill, AdminRecovery, Damage,
       LoseTime, WriteState, vars, disk
  <1>4. QED
    BY <1>1, <1>2, <1>3

LEMMA BackedKept ==
  ASSUME NEW c \in Opt(Metadata), NEW d \in Opt(Metadata), c # <<>>, Newer(c, d), NEW v, Backed(v, c)
  PROVE  Backed(v, d)
  <1>1. PICK w \in Trustworthy : w.manifest = v.digest /\ w.spc = v.spc /\ w.version <= c[1].version
    BY DEF Backed
  <1>2. w.version \in Nat
    <2>1. PICK m \in OfTheKind("manifest"), t \in OfTheKind("metadata") :
            Authorizes(t, m) /\ w = [manifest |-> m.digest, spc |-> m.spc, version |-> t.version]
      BY DEF Trustworthy
    <2>2. QED
      BY <2>1, DataAssumption DEF Authorizes
  <1>3. c[1].version \in Nat /\ d[1].version \in Nat /\ d[1].version >= c[1].version
    BY DataAssumption DEF Newer, Opt, Metadata
  <1>4. w.version <= d[1].version
    BY <1>1, <1>2, <1>3
  <1>5. QED
    BY <1>1, <1>4 DEF Backed

\* A generation stays what it is, and only the staging of a pack adds one.
LEMMA GenerationEffect ==
  ASSUME TypeOK, [Next]_vars
  PROVE  /\ DOMAIN gens \subseteq DOMAIN gens'
         /\ \A g \in DOMAIN gens : gens'[g].pack = gens[g].pack
         /\ \A g \in DOMAIN gens' \ DOMAIN gens :
              \E p \in Proc : StageGeneration(p) /\ g = Pack(p).digest /\ gens'[g].pack = Pack(p)
         /\ \A p \in Proc : StageGeneration(p) /\ pc'[p] # "leave" => Pack(p).digest \in DOMAIN gens'
  <1>1. ASSUME NEW p \in Proc, StageGeneration(p)
        PROVE  /\ DOMAIN gens \subseteq DOMAIN gens'
               /\ \A g \in DOMAIN gens : gens'[g].pack = gens[g].pack
               /\ \A g \in DOMAIN gens' \ DOMAIN gens : g = Pack(p).digest /\ gens'[g].pack = Pack(p)
               /\ pc'[p] # "leave" => Pack(p).digest \in DOMAIN gens'
    <2> DEFINE g == Pack(p).digest
               n == [pack |-> Pack(p), intact |-> TRUE]
    <2>1. \/ gens' = gens
          \/ g \notin DOMAIN gens /\ gens' = [d \in DOMAIN gens \union {g} |-> IF d = g THEN n ELSE gens[d]]
      BY <1>1 DEF StageGeneration, Replaced
    <2>2. n.pack = Pack(p)
      OBVIOUS
    <2>3. pc'[p] # "leave" => g \in DOMAIN gens'
      BY <1>1 DEF StageGeneration, Replaced, Goto, ToLeave, TypeOK
    <2> HIDE DEF n, g
    <2>4. QED
      BY <2>1, <2>2, <2>3 DEF g
  <1>2. ASSUME Damage
        PROVE  DOMAIN gens' = DOMAIN gens /\ \A g \in DOMAIN gens : gens'[g].pack = gens[g].pack
    <2>1. PICK d \in DOMAIN gens : gens' = [gens EXCEPT ![d].intact = FALSE]
      BY <1>2 DEF Damage
    <2> DEFINE n == [gens[d] EXCEPT !.intact = FALSE]
    <2>2. n.pack = gens[d].pack /\ gens' = [gens EXCEPT ![d] = n]
      BY <2>1 DEF TypeOK, Generation
    <2> HIDE DEF n
    <2>3. gens' = [h \in DOMAIN gens |-> IF h = d THEN n ELSE gens[h]]
      BY <2>2
    <2>4. QED
      BY <2>2, <2>3
  <1>3. (\A p \in Proc : ~StageGeneration(p)) /\ ~Damage => gens' = gens
    BY DEF Next, Step, Enter, Guard, ExtractArchive, RefreshCache, Verify, LoadState,
       Health, AdvanceTrust, Activate, Confirm, Commit, Revert, Leave, Kill, AdminRecovery,
       LoseTime, WriteState, vars, disk
  <1>4. Damage => \A p \in Proc : ~StageGeneration(p)
    BY DEF Damage, StageGeneration, At, Replaced, Goto, ToLeave, TypeOK
  <1>5. CASE \E p \in Proc : StageGeneration(p)
    <2>1. PICK p \in Proc : StageGeneration(p)
      BY <1>5
    <2>2. \A q \in Proc : StageGeneration(q) => q = p
      BY <2>1 DEF StageGeneration, At, Replaced, Goto, ToLeave, TypeOK
    <2>3. QED
      BY <1>1, <2>1, <2>2
  <1>6. CASE (\A p \in Proc : ~StageGeneration(p)) /\ Damage
    BY <1>2, <1>6
  <1>7. CASE (\A p \in Proc : ~StageGeneration(p)) /\ ~Damage
    BY <1>3, <1>7
  <1>8. QED
    BY <1>5, <1>6, <1>7

LEMMA EndorsedStep == TypeOK /\ TypeOK' /\ Locked /\ Endorsed /\ [Next]_vars => Endorsed'
  <1> SUFFICES ASSUME TypeOK, TypeOK', Locked, Endorsed, [Next]_vars PROVE Endorsed'
    OBVIOUS
  <1>1. cache \in Opt(Metadata) /\ cache' \in Opt(Metadata) /\ Newer(cache, cache')
    BY CacheEffect DEF TypeOK
  <1>2. cache # <<>> => cache' # <<>>
    BY <1>1 DEF Newer
  <1>3. ASSUME NEW v, cache # <<>>, Backed(v, cache) PROVE Backed(v, cache')
    BY <1>1, <1>3, BackedKept
  <1>4. ASSUME NEW p \in Proc, StageGeneration(p)
        PROVE  cache # <<>> /\ Backed(Pack(p), cache)
    BY <1>4 DEF Endorsed, StageGeneration, At, Accepted, Loaded
  <1>5. ASSUME NEW g \in DOMAIN gens'
        PROVE  gens'[g].pack.digest = g /\ cache' # <<>> /\ Backed(gens'[g].pack, cache')
    <2>1. CASE g \in DOMAIN gens
      BY <1>2, <1>3, <2>1, GenerationEffect DEF Endorsed
    <2>2. CASE g \notin DOMAIN gens
      BY <1>2, <1>3, <1>4, <2>2, GenerationEffect
    <2>3. QED
      BY <2>1, <2>2
  <1>6. ASSUME NEW p \in Proc, Step(p), pc'[p] \in {"verify"} \union Accepted
        PROVE  /\ cache' # <<>>
               /\ pc'[p] \in Accepted => loc'[p].pack # <<>> /\ Backed(loc'[p].pack[1], cache')
    <2> USE DEF At, Guarded, Accepted, Loaded, Staged, Switched
    <2>1. ~Guard(p) /\ ~ExtractArchive(p)
      BY <1>6, GuardEffect, ExtractEffect
    <2>2. CASE Verify(p)
      <3>1. cache' = cache /\ cache # <<>> /\ cache[1] \in Metadata /\ Nodes(p) \in SUBSET Node
        BY <2>2 DEF Verify, Endorsed, disk, TypeOK, Opt, Locals, Nodes
      <3>2. PICK v \in VerifiedPack(Nodes(p), cache[1]) : loc'[p].pack = <<v>>
        BY <1>6, <2>2, VerifyEffect
      <3>3. PICK w \in Trustworthy : w.manifest = v.digest /\ w.spc = v.spc /\ w.version = cache[1].version
        BY <3>1, VerifiedResult
      <3>4. cache[1].version <= cache[1].version
        BY <3>1, DataAssumption DEF Metadata
      <3>5. Backed(v, cache')
        BY <3>1, <3>3, <3>4 DEF Backed
      <3>6. QED
        BY <3>1, <3>2, <3>5
    <2>3. CASE LoadState(p)
      <3>1. pc[p] = "load" /\ loc'[p].pack = loc[p].pack
        BY <1>6, <2>3, LoadEffect DEF LoadState
      <3>2. QED
        BY <1>2, <1>3, <3>1 DEF Endorsed, Pack
    <2>4. CASE RefreshCache(p)
      <3>1. pc'[p] # "leave" /\ pc'[p] \in {"verify", "leave"}
        BY <1>6, <2>4 DEF RefreshCache, Goto, ToLeave, TypeOK
      <3>2. cache' # <<>>
        BY <2>4, <3>1, CacheEffect
      <3>3. QED
        BY <3>1, <3>2
    <2>5. CASE ~Verify(p) /\ ~LoadState(p) /\ ~RefreshCache(p)
      <3>1. loc' = loc /\ pc[p] \in Loaded
        BY <1>6, <2>1, <2>5, PhaseEffect DEF StageGeneration, Health, AdvanceTrust, Activate, Confirm
      <3>2. QED
        BY <1>2, <1>3, <3>1 DEF Endorsed, Pack
    <2>6. QED
      BY <2>2, <2>3, <2>4, <2>5
  <1>7. ASSUME NEW q \in Proc
        PROVE  /\ pc'[q] \in {"verify"} \union Accepted => cache' # <<>>
               /\ pc'[q] \in Accepted => loc'[q].pack # <<>> /\ Backed(loc'[q].pack[1], cache')
    <2>1. CASE Step(q)
      BY <1>6, <2>1 DEF Accepted
    <2>2. ASSUME NEW p \in Proc \ {q}, Step(p)
          PROVE  pc'[q] = "idle"
      BY <2>2, OthersIdle
    <2>3. CASE AdminRecovery \/ Damage \/ LoseTime \/ UNCHANGED vars
      <3>1. pc' = pc /\ loc' = loc
        BY <2>3 DEF AdminRecovery, Damage, LoseTime, vars
      <3>2. QED
        BY <1>2, <1>3, <3>1 DEF Endorsed, Pack
    <2>4. QED
      BY <2>1, <2>2, <2>3 DEF Next, Accepted, Loaded, Staged, Switched
  <1>8. QED
    BY <1>5, <1>7 DEF Endorsed, Pack

-----------------------------------------------------------------------------
(* What an installation knows of the state file. *)

\* Only four steps write the state file, each its own state, or fail and leave.
LEMMA FileEffect ==
  ASSUME TypeOK, [Next]_vars
  PROVE  \/ file' = file
         \/ \E p \in Proc :
              \/ AdvanceTrust(p) /\ file' = <<Advanced(p)>>
              \/ Activate(p) /\ file' = <<Activating(p)>>
              \/ Commit(p) /\ file' = <<[Activating(p) EXCEPT !.lkg = <<Pack(p).digest>>]>>
              \/ Revert(p) /\ file' = <<RevertedState(p)>>
  <1>1. ASSUME NEW p \in Proc, AdvanceTrust(p) \/ Activate(p) \/ Commit(p) \/ Revert(p)
        PROVE  \/ file' = file
               \/ AdvanceTrust(p) /\ file' = <<Advanced(p)>>
               \/ Activate(p) /\ file' = <<Activating(p)>>
               \/ Commit(p) /\ file' = <<[Activating(p) EXCEPT !.lkg = <<Pack(p).digest>>]>>
               \/ Revert(p) /\ file' = <<RevertedState(p)>>
    BY <1>1 DEF AdvanceTrust, Activate, Commit, Revert, WriteState, Replaced
  <1>2. (\A p \in Proc : ~AdvanceTrust(p) /\ ~Activate(p) /\ ~Commit(p) /\ ~Revert(p)) => file' = file
    BY DEF Next, Step, Enter, Guard, ExtractArchive, RefreshCache, Verify, LoadState, StageGeneration,
       Health, Confirm, Leave, Kill, AdminRecovery, Damage, LoseTime, vars, disk
  <1>3. QED
    BY <1>1, <1>2

\* A step that goes on has done what it is for.
LEMMA WriteEffect ==
  ASSUME TypeOK, NEW p \in Proc, pc'[p] # "leave"
  PROVE  /\ AdvanceTrust(p) => file' = <<Advanced(p)>>
         /\ Activate(p) => file' = <<Activating(p)>>
         /\ StageGeneration(p) \/ Health(p) \/ Confirm(p) \/ LoadState(p) => file' = file
  <1>1. ~ToLeave(p)
    BY DEF ToLeave, TypeOK
  <1>2. QED
    BY <1>1 DEF AdvanceTrust, Activate, WriteState, Replaced, StageGeneration, Health, Confirm,
       LoadState, disk

LEMMA FollowStep == TypeOK /\ Locked /\ Following /\ [Next]_vars => Following'
  <1> SUFFICES ASSUME TypeOK, Locked, Following, [Next]_vars, NEW q \in Proc
               PROVE  FollowingOf(q)'
    BY DEF Following
  <1> USE DEF Guarded, Accepted, Loaded, Staged, Switched
  <1>0. FollowingOf(q)
    BY DEF Following
  <1>1. ASSUME Step(q), pc'[q] \in Loaded PROVE FollowingOf(q)'
    <2>1. ~Guard(q) /\ ~ExtractArchive(q) /\ ~Verify(q)
      BY <1>1, GuardEffect, ExtractEffect, VerifyEffect
    <2>2. CASE LoadState(q)
      <3>1. /\ pc'[q] = "stage" /\ loc'[q].pack = loc[q].pack /\ loc'[q].state = State
            /\ Admissible(Pack(q), State.highest[Pack(q).id])
        BY <1>1, <2>2, LoadEffect
      <3>2. State' = State
        BY <1>1, <2>2, WriteEffect DEF State
      <3>3. QED
        BY <3>1, <3>2 DEF FollowingOf, Pack
    <2>3. CASE ~LoadState(q)
      <3>1. /\ loc' = loc
            /\ \/ StageGeneration(q) /\ pc'[q] = "health"
               \/ Health(q) /\ pc'[q] = "advance"
               \/ AdvanceTrust(q) /\ pc'[q] = "activate"
               \/ Activate(q) /\ pc'[q] = "confirm"
               \/ Confirm(q) /\ pc'[q] \in {"commit", "revert"}
        BY <1>1, <2>1, <2>3, PhaseEffect
      <3>2. /\ Pack(q)' = Pack(q) /\ Advanced(q)' = Advanced(q) /\ Activating(q)' = Activating(q)
        BY <3>1 DEF Pack, Advanced, Activating
      <3>3. pc[q] \in Loaded /\ Admissible(Pack(q), loc'[q].state.highest[Pack(q).id])
        BY <1>0, <3>1 DEF FollowingOf, StageGeneration, Health, AdvanceTrust, Activate, Confirm, At
      <3>4. Pack(q).digest \in DOMAIN gens'
        BY <1>0, <3>1, GenerationEffect DEF FollowingOf, Health, AdvanceTrust, Activate, Confirm, At
      <3>5. pc'[q] \in {"health", "advance"} => loc'[q].state = State'
        BY <1>0, <3>1, WriteEffect DEF FollowingOf, State, StageGeneration, Health, At
      <3>6. pc'[q] = "activate" => file' = <<Advanced(q)>>
        BY <3>1, WriteEffect
      <3>7. pc'[q] \in Switched => file' = <<Activating(q)>>
        BY <1>0, <3>1, WriteEffect DEF FollowingOf, Confirm, At
      <3>8. pc'[q] # "stage"
        BY <3>1
      <3>9. QED
        BY <3>2, <3>3, <3>4, <3>5, <3>6, <3>7, <3>8 DEF FollowingOf
    <2>4. QED
      BY <2>2, <2>3
  <1>2. ASSUME pc'[q] \notin Loaded PROVE FollowingOf(q)'
    BY <1>2 DEF FollowingOf
  <1>3. ASSUME NEW p \in Proc \ {q}, Step(p) PROVE pc'[q] = "idle"
    BY <1>3, OthersIdle
  <1>4. CASE AdminRecovery \/ Damage \/ LoseTime \/ UNCHANGED vars
    <2>1. pc' = pc /\ loc' = loc /\ file' = file
      BY <1>4 DEF AdminRecovery, Damage, LoseTime, vars, disk
    <2>2. Pack(q)' = Pack(q) /\ Advanced(q)' = Advanced(q) /\ Activating(q)' = Activating(q) /\ State' = State
      BY <2>1 DEF Pack, Advanced, Activating, State
    <2>3. QED
      BY <1>0, <2>1, <2>2, GenerationEffect DEF FollowingOf
  <1>5. QED
    BY <1>1, <1>2, <1>3, <1>4 DEF Next

\* No step makes the highest-seen records shrink.
LEMMA GrowStep ==
  ASSUME TypeOK, Endorsed, Following, [Next]_vars
  PROVE  Grows(State.highest, State'.highest)
  <1>1. State.highest \in [PackId -> Opt(HighestSeen)]
    BY StateType DEF RuntimeState
  <1>2. CASE file' = file
    <2>1. State' = State
      BY <1>2 DEF State
    <2>2. QED
      BY <1>1, <2>1, GrowsReflexive
  <1>3. ASSUME NEW p \in Proc, AdvanceTrust(p), file' = <<Advanced(p)>>
        PROVE  Grows(State.highest, State'.highest)
    <2>1. pc[p] \in Loaded /\ loc[p].state = State
      BY <1>3 DEF AdvanceTrust, At, Following, FollowingOf, Loaded, Staged
    <2>2. State' = Advanced(p)
      BY <1>3 DEF State
    <2>3. QED
      BY <2>1, <2>2, Writable, AdvancedState
  <1>4. ASSUME NEW p \in Proc, pc[p] \in {"activate"} \union Switched,
               \/ file' = <<Activating(p)>>
               \/ file' = <<[Activating(p) EXCEPT !.lkg = <<Pack(p).digest>>]>>
               \/ file' = <<RevertedState(p)>>
        PROVE  Grows(State.highest, State'.highest)
    <2>1. pc[p] \in Loaded /\ file \in {<<Advanced(p)>>, <<Activating(p)>>}
      BY <1>4 DEF Following, FollowingOf, Loaded, Staged
    <2> DEFINE h == Advanced(p).highest
               c == [Activating(p) EXCEPT !.lkg = <<Pack(p).digest>>]
    <2>2. Activating(p).highest = h /\ c.highest = h /\ RevertedState(p).highest = h
      BY <2>1, Writable, WrittenStates
    <2>3. State \in {Advanced(p), Activating(p)}
      BY <2>1 DEF State
    <2>4. State' \in {Activating(p), c, RevertedState(p)}
      BY <1>4 DEF State
    <2> HIDE DEF c
    <2>5. State.highest = h /\ State'.highest = h
      BY <2>2, <2>3, <2>4
    <2>6. QED
      BY <1>1, <2>5, GrowsReflexive
  <1>5. QED
    BY <1>2, <1>3, <1>4, FileEffect DEF Activate, Commit, Revert, At, Switched

-----------------------------------------------------------------------------
(* What the pointers name. *)

LEMMA NamedGrown ==
  ASSUME NEW h \in [PackId -> Opt(HighestSeen)], NEW k \in [PackId -> Opt(HighestSeen)], Grows(h, k),
         TypeOK, NEW x, Named(x, h, gens)
  PROVE  Named(x, k, gens)
  <1> SUFFICES ASSUME x # <<>> PROVE x[1] \in DOMAIN gens /\ Recorded(gens[x[1]].pack, k)
    BY DEF Named
  <1>1. x[1] \in DOMAIN gens /\ Recorded(gens[x[1]].pack, h)
    BY DEF Named
  <1>2. gens[x[1]].pack \in Packs
    BY <1>1 DEF TypeOK, Generation
  <1>3. QED
    BY <1>1, <1>2, RecordedKept

\* The states that an installation writes name what is there.
LEMMA WrittenSound ==
  ASSUME TypeOK, Endorsed, Following, NEW p \in Proc, pc[p] \in Staged, Sound(loc[p].state, gens, proven)
  PROVE  /\ Sound(Advanced(p), gens, proven)
         /\ Sound(Activating(p), gens, proven)
         /\ Sound(RevertedState(p), gens, proven)
         /\ Pack(p).digest \in proven => Sound([Activating(p) EXCEPT !.lkg = <<Pack(p).digest>>], gens, proven)
  <1> DEFINE s == loc[p].state
             d == Pack(p).digest
             h == Advanced(p).highest
  <1>1. /\ loc[p] \in Locals /\ loc[p].pack # <<>> /\ Pack(p) \in Packs
        /\ Admissible(Pack(p), s.highest[Pack(p).id])
    BY Writable DEF Loaded
  <1>2. /\ Advanced(p) \in RuntimeState /\ Advanced(p).active = s.active /\ Advanced(p).lkg = s.lkg
        /\ Grows(s.highest, h) /\ Recorded(Pack(p), h)
    BY <1>1, AdvancedState
  <1>3. s.highest \in [PackId -> Opt(HighestSeen)] /\ h \in [PackId -> Opt(HighestSeen)]
    BY <1>1, <1>2 DEF Locals, RuntimeState
  <1>4. Named(s.active, h, gens) /\ Named(s.lkg, h, gens) /\ (s.lkg # <<>> => s.lkg[1] \in proven)
    BY <1>2, <1>3, NamedGrown DEF Sound
  <1>5. Named(<<d>>, h, gens)
    <2>1. d \in DOMAIN gens /\ gens[d].pack.digest = d /\ gens[d].pack \in Packs
      BY DEF Following, FollowingOf, Endorsed, TypeOK, Generation
    <2>2. gens[d].pack = Pack(p)
      BY <1>1, <2>1, OnePack
    <2>3. QED
      BY <1>2, <2>1, <2>2 DEF Named
  <1>6. Sound(Advanced(p), gens, proven)
    BY <1>2, <1>4 DEF Sound
  <1>7. LET a == Activating(p)
            c == [a EXCEPT !.lkg = <<d>>]
            r == RevertedState(p)
        IN /\ a.highest = h /\ a.active = <<d>> /\ a.lkg = s.lkg
           /\ c.highest = h /\ c.active = <<d>> /\ c.lkg = <<d>>
           /\ r.highest = h /\ r.active = (IF s.lkg # <<>> THEN s.lkg ELSE s.active) /\ r.lkg = s.lkg
    BY <1>1, WrittenStates
  <1> HIDE DEF d, h
  <1>8. QED
    BY <1>4, <1>5, <1>6, <1>7 DEF Sound, d

\* What was named and confirmed stays so.
LEMMA SoundKept ==
  ASSUME TypeOK, [Next]_vars, NEW s, Sound(s, gens, proven)
  PROVE  Sound(s, gens', proven')
  <1>1. proven \subseteq proven'
    BY DEF Next, Step, Enter, Guard, ExtractArchive, RefreshCache, Verify, LoadState, StageGeneration,
       Health, AdvanceTrust, Activate, Confirm, Commit, Revert, Leave, Kill, AdminRecovery, Damage,
       LoseTime, WriteState, vars
  <1>2. /\ DOMAIN gens \subseteq DOMAIN gens'
        /\ \A g \in DOMAIN gens : gens'[g].pack = gens[g].pack
    BY GenerationEffect
  <1>3. ASSUME NEW x, Named(x, s.highest, gens) PROVE Named(x, s.highest, gens')
    BY <1>2, <1>3 DEF Named
  <1>4. QED
    BY <1>1, <1>3 DEF Sound

LEMMA PointStep ==
  TypeOK /\ Locked /\ Endorsed /\ Following /\ Pointed /\ [Next]_vars => Pointed'
  <1> SUFFICES ASSUME TypeOK, Locked, Endorsed, Following, Pointed, [Next]_vars PROVE Pointed'
    OBVIOUS
  <1> USE DEF Guarded, Accepted, Loaded, Staged, Switched
  <1>1. Sound(State, gens', proven')
    BY SoundKept DEF Pointed
  <1>2. ASSUME NEW p \in Proc, pc[p] \in Staged
        PROVE  /\ Sound(Advanced(p), gens', proven')
               /\ Sound(Activating(p), gens', proven')
               /\ Sound(RevertedState(p), gens', proven')
               /\ pc[p] = "commit" =>
                    Sound([Activating(p) EXCEPT !.lkg = <<Pack(p).digest>>], gens', proven')
    <2>1. Sound(loc[p].state, gens, proven)
      BY <1>2 DEF Pointed
    <2>2. pc[p] = "commit" => Pack(p).digest \in proven
      BY DEF Pointed
    <2>3. QED
      BY <1>2, <2>1, <2>2, WrittenSound, SoundKept
  <1>3. Sound(State', gens', proven')
    <2>1. CASE file' = file
      BY <1>1, <2>1 DEF State
    <2>2. ASSUME NEW p \in Proc, AdvanceTrust(p), file' = <<Advanced(p)>>
          PROVE  Sound(State', gens', proven')
      BY <1>2, <2>2 DEF AdvanceTrust, At, State
    <2>3. ASSUME NEW p \in Proc, Activate(p), file' = <<Activating(p)>>
          PROVE  Sound(State', gens', proven')
      BY <1>2, <2>3 DEF Activate, At, State
    <2>4. ASSUME NEW p \in Proc, Commit(p),
                 file' = <<[Activating(p) EXCEPT !.lkg = <<Pack(p).digest>>]>>
          PROVE  Sound(State', gens', proven')
      <3> DEFINE c == [Activating(p) EXCEPT !.lkg = <<Pack(p).digest>>]
      <3>1. Sound(c, gens', proven')
        BY <1>2, <2>4 DEF Commit, At
      <3>2. State' = c
        BY <2>4 DEF State
      <3> HIDE DEF c
      <3>3. QED
        BY <3>1, <3>2
    <2>5. ASSUME NEW p \in Proc, Revert(p), file' = <<RevertedState(p)>>
          PROVE  Sound(State', gens', proven')
      BY <1>2, <2>5 DEF Revert, At, State
    <2>6. QED
      BY <2>1, <2>2, <2>3, <2>4, <2>5, FileEffect
  <1>4. ASSUME NEW p \in Proc, Step(p), pc'[p] \in Loaded
        PROVE  /\ Sound(loc'[p].state, gens', proven')
               /\ pc'[p] = "commit" => loc'[p].pack[1].digest \in proven'
    <2>1. ~Guard(p) /\ ~ExtractArchive(p) /\ ~Verify(p)
      BY <1>4, GuardEffect, ExtractEffect, VerifyEffect
    <2>2. CASE LoadState(p)
      BY <1>1, <1>4, <2>2, LoadEffect
    <2>3. CASE ~LoadState(p)
      <3>1. /\ loc' = loc /\ pc[p] \in Loaded
            /\ pc'[p] = "commit" => Confirm(p)
        BY <1>4, <2>1, <2>3, PhaseEffect DEF StageGeneration, Health, AdvanceTrust, Activate, Confirm, At,
           RefreshCache
      <3>2. Sound(loc'[p].state, gens', proven')
        BY <3>1, SoundKept DEF Pointed
      <3>3. ASSUME pc'[p] = "commit" PROVE Pack(p).digest \in proven'
        <4>1. pc[p] = "confirm" /\ file = <<Activating(p)>>
          BY <3>1, <3>3 DEF Confirm, At, Following, FollowingOf
        <4>2. Activating(p).active = <<Pack(p).digest>>
          BY <3>1, Writable, WrittenStates
        <4>3. proven' = proven \union {file[1].active[1]}
          BY <3>1, <3>3 DEF Confirm, Goto, TypeOK
        <4>4. QED
          BY <4>1, <4>2, <4>3
      <3>4. QED
        BY <3>1, <3>2, <3>3 DEF Pack
    <2>4. QED
      BY <2>2, <2>3
  <1>5. ASSUME NEW q \in Proc
        PROVE  /\ pc'[q] \in Loaded => Sound(loc'[q].state, gens', proven')
               /\ pc'[q] = "commit" => loc'[q].pack[1].digest \in proven'
    <2>1. CASE Step(q)
      BY <1>4, <2>1
    <2>2. ASSUME NEW p \in Proc \ {q}, Step(p) PROVE pc'[q] = "idle"
      BY <2>2, OthersIdle
    <2>3. CASE AdminRecovery \/ Damage \/ LoseTime \/ UNCHANGED vars
      <3>1. pc' = pc /\ loc' = loc /\ proven' = proven
        BY <2>3 DEF AdminRecovery, Damage, LoseTime, vars
      <3>2. QED
        BY <3>1, SoundKept DEF Pointed, Pack
    <2>4. QED
      BY <2>1, <2>2, <2>3 DEF Next
  <1>6. QED
    BY <1>3, <1>5 DEF Pointed, Pack

\* Without a failing write and without a kill, what follows an activation ends
\* by writing its state, and a write before it is done.
LEMMA EndEffect ==
  ASSUME TypeOK, NEW p \in Proc, Step(p), "write" \notin faults', "kill" \notin faults'
  PROVE  /\ pc[p] \in Switched /\ pc'[p] \notin Switched =>
              \/ Commit(p) /\ file' = <<[Activating(p) EXCEPT !.lkg = <<Pack(p).digest>>]>>
              \/ Revert(p) /\ file' = <<RevertedState(p)>>
         /\ Activate(p) => pc'[p] = "confirm"
         /\ pc[p] \notin Switched /\ pc'[p] \in Switched => Activate(p)
  <1> USE DEF Guarded, Accepted, Loaded, Staged, Switched, At
  <1>1. ~Kill(p)
    BY DEF Kill, Fault
  <1>2. Commit(p) => file' = <<[Activating(p) EXCEPT !.lkg = <<Pack(p).digest>>]>>
    BY DEF Commit, WriteState, Replaced, Fault
  <1>3. Revert(p) => file' = <<RevertedState(p)>>
    BY DEF Revert, WriteState, Replaced, Fault
  <1>4. Activate(p) => pc'[p] = "confirm"
    BY DEF Activate, WriteState, Replaced, Fault, Goto, TypeOK
  <1>5. Confirm(p) => pc[p] \in Switched /\ pc'[p] \in Switched
    BY DEF Confirm, Goto, TypeOK
  <1>6. ASSUME pc[p] \in Switched, pc'[p] \notin Switched PROVE Commit(p) \/ Revert(p)
    BY <1>1, <1>5, <1>6 DEF Step, Enter, Guard, ExtractArchive, RefreshCache, Verify, LoadState,
       StageGeneration, Health, AdvanceTrust, Activate, Leave
  <1>7. ASSUME pc[p] \notin Switched, pc'[p] \in Switched PROVE Activate(p)
    BY <1>5, <1>7, PhaseEffect, GuardEffect, ExtractEffect, VerifyEffect, LoadEffect
  <1>8. QED
    BY <1>2, <1>3, <1>4, <1>6, <1>7

LEMMA AgreeStep ==
  TypeOK /\ Locked /\ Endorsed /\ Following /\ Agreeing /\ [Next]_vars => Agreeing'
  <1> SUFFICES ASSUME TypeOK, Locked, Endorsed, Following, Agreeing, [Next]_vars,
                      "write" \notin faults', "kill" \notin faults'
               PROVE  /\ (\A p \in Proc : pc'[p] \notin Switched) => State'.active = State'.lkg
                      /\ \A p \in Proc : pc'[p] \in Loaded => loc'[p].state.active = loc'[p].state.lkg
    BY DEF Agreeing, Seen
  <1>1. /\ (\A p \in Proc : pc[p] \notin Switched) => State.active = State.lkg
        /\ \A p \in Proc : pc[p] \in Loaded => loc[p].state.active = loc[p].state.lkg
    BY FaultsKept DEF Agreeing, Seen
  <1>2. ASSUME NEW p \in Proc, Step(p)
        PROVE  /\ pc'[p] \notin Switched => State'.active = State'.lkg
               /\ pc'[p] \in Loaded => loc'[p].state.active = loc'[p].state.lkg
    <2>1. pc[p] \notin Switched => State.active = State.lkg
      BY <1>1, <1>2, OthersIdle DEF Switched
    <2>2. ASSUME pc'[p] \notin Switched PROVE State'.active = State'.lkg
      <3>1. CASE pc[p] \in Switched
        <4> DEFINE c == [Activating(p) EXCEPT !.lkg = <<Pack(p).digest>>]
                   s == loc[p].state
        <4>1. State' \in {c, RevertedState(p)}
          BY <1>2, <2>2, <3>1, EndEffect DEF State
        <4>2. /\ c.active = c.lkg
              /\ RevertedState(p).active = (IF s.lkg # <<>> THEN s.lkg ELSE s.active)
              /\ RevertedState(p).lkg = s.lkg
          BY <3>1, Writable, WrittenStates DEF Loaded, Staged
        <4>3. s.active = s.lkg
          BY <1>1, <3>1 DEF Loaded, Staged
        <4> HIDE DEF c, s
        <4>4. QED
          BY <4>1, <4>2, <4>3
      <3>2. CASE pc[p] \notin Switched /\ file' = file
        BY <2>1, <3>2 DEF State
      <3>3. CASE pc[p] \notin Switched /\ file' # file
        <4>1. ~Activate(p)
          BY <1>2, <2>2, EndEffect DEF Switched
        <4>2. \A q \in Proc \ {p} : pc[q] = "idle"
          BY <1>2, OthersIdle
        <4>3. AdvanceTrust(p) /\ file' = <<Advanced(p)>>
          BY <3>3, <4>1, <4>2, FileEffect DEF AdvanceTrust, Activate, Commit, Revert, At, Switched
        <4>4. pc[p] \in Loaded
          BY <4>3 DEF AdvanceTrust, At, Loaded, Staged
        <4>5. Advanced(p).active = loc[p].state.active /\ Advanced(p).lkg = loc[p].state.lkg
          BY <4>4, Writable, AdvancedState
        <4>6. QED
          BY <1>1, <4>3, <4>4, <4>5 DEF State
      <3>4. QED
        BY <3>1, <3>2, <3>3
    <2>3. ASSUME pc'[p] \in Loaded PROVE loc'[p].state.active = loc'[p].state.lkg
      <3>1. ~Guard(p) /\ ~ExtractArchive(p) /\ ~Verify(p) /\ pc'[p] \in Guarded
        BY <2>3, GuardEffect, ExtractEffect, VerifyEffect DEF Guarded, Accepted, Loaded, Staged, Switched
      <3>2. CASE LoadState(p)
        BY <2>1, <3>1, <3>2, LoadEffect DEF LoadState, At, Switched
      <3>3. CASE ~LoadState(p)
        <4>1. loc' = loc /\ pc[p] \in Loaded
          BY <1>2, <2>3, <3>1, <3>3, PhaseEffect DEF StageGeneration, Health, AdvanceTrust, Activate,
             Confirm, RefreshCache, At, Guarded, Accepted, Loaded, Staged, Switched
        <4>2. QED
          BY <1>1, <4>1
      <3>4. QED
        BY <3>2, <3>3
    <2>4. QED
      BY <2>2, <2>3
  <1>3. CASE \E p \in Proc : Step(p)
    <2>1. PICK p \in Proc : Step(p)
      BY <1>3
    <2>2. \A q \in Proc \ {p} : pc'[q] = "idle"
      BY <2>1, OthersIdle
    <2>3. QED
      BY <1>2, <2>1, <2>2 DEF Loaded, Staged, Switched
  <1>4. CASE AdminRecovery \/ Damage \/ LoseTime \/ UNCHANGED vars
    <2>1. pc' = pc /\ loc' = loc /\ file' = file
      BY <1>4 DEF AdminRecovery, Damage, LoseTime, vars, disk
    <2>2. QED
      BY <1>1, <2>1 DEF State
  <1>5. QED
    BY <1>3, <1>4 DEF Next

-----------------------------------------------------------------------------
(* The invariant. *)

LEMMA InvInit == Init => IInv
  <1> SUFFICES ASSUME Init PROVE IInv
    OBVIOUS
  <1> USE DEF Init, Guarded, Accepted, Loaded, Staged, Switched
  <1>1. TypeOK
    BY TypeInit
  <1>2. Locked /\ Stale /\ Anchored
    BY DEF Locked, Stale, Anchored, Durable
  <1>3. Endorsed /\ Following
    BY DEF Endorsed, Following, FollowingOf
  <1>4. State = Empty
    BY DEF State
  <1>5. Pointed /\ Agreeing
    BY <1>4 DEF Pointed, Sound, Named, Agreeing, Empty
  <1>6. QED
    BY <1>1, <1>2, <1>3, <1>5 DEF IInv

LEMMA InvStep == IInv /\ [Next]_vars => IInv'
  <1> SUFFICES ASSUME IInv, [Next]_vars PROVE IInv'
    OBVIOUS
  <1>1. TypeOK'
    BY TypeStep DEF IInv
  <1>2. QED
    BY <1>1, LockStep, AnchorStep, EndorsedStep, FollowStep, PointStep, AgreeStep DEF IInv

LEMMA Invariance == Spec => []IInv
  BY InvInit, InvStep, PTL DEF Spec

-----------------------------------------------------------------------------
(* The properties. *)

\* At most one process is ever inside an installation, and a lock without a
\* living owner has been left by a kill or by a failure to write it
\* (RuntimeLock).
THEOREM LockIsDisciplined == Spec => []LockDiscipline
  <1>1. ASSUME IInv PROVE LockDiscipline
    <2> DEFINE S == {p \in Proc : ~At(p, "idle")}
    <2>1. Cardinality(S) <= 1
      <3>1. CASE S = {}
        BY <3>1, FS_EmptySet
      <3>2. CASE S # {}
        <4>1. PICK p : p \in S
          BY <3>2
        <4>2. S = {p}
          BY <1>1, <4>1 DEF IInv, Locked, At
        <4>3. Cardinality(S) = 1
          BY <4>2, FS_Singleton
        <4>4. QED
          BY <4>3
      <3>3. QED
        BY <3>1, <3>2
    <2>2. \A p \in Proc : lock = <<p>> /\ At(p, "idle") => Seen("kill") \/ Seen("write")
      BY <1>1 DEF IInv, Stale, At
    <2>3. QED
      BY <2>1, <2>2 DEF LockDiscipline
  <1>2. QED
    BY <1>1, Invariance, PTL

\* Durable trust never exists without the time that guards it, unless that
\* record was lost (_guard_trusted_time).
THEOREM TrustIsAnchored == Spec => []TrustAnchored
  <1>1. ASSUME IInv PROVE TrustAnchored
    BY <1>1 DEF IInv, TypeOK, Anchored, TrustAnchored, Phase
  <1>2. QED
    BY <1>1, Invariance, PTL

\* Everything that is installed was signed as a whole, under metadata that is
\* not newer than the cache, and is what its manifest says, whatever the
\* archives that were offered contain (verify_pack_directory).
THEOREM InstalledWasSigned == Spec => []InstalledIsSigned
  <1>1. ASSUME IInv PROVE InstalledIsSigned
    <2> SUFFICES ASSUME NEW g \in DOMAIN gens
                 PROVE  LET v == gens[g].pack
                        IN /\ v.index = v.spc
                           /\ \E w \in Trustworthy : w.manifest = g /\ w.spc = v.spc /\ w.version <= cache[1].version
      BY DEF InstalledIsSigned
    <2>1. gens[g].pack \in Packs /\ gens[g].pack.digest = g /\ Backed(gens[g].pack, cache)
      BY <1>1 DEF IInv, TypeOK, Generation, Endorsed
    <2>2. QED
      BY <2>1, PackType DEF Backed
  <1>2. QED
    BY <1>1, Invariance, PTL

\* What the two pointers name is installed and on record, the last known good
\* one was confirmed, and they agree after every installation that ended
\* without a failing write (_install_verified_generation_locked).
THEOREM PointersAreSound == Spec => []PointersSound
  <1>1. ASSUME IInv PROVE PointersSound
    <2>1. Sound(State, gens, proven)
      BY <1>1 DEF IInv, Pointed
    <2>2. ASSUME NEW g \in {State.active, State.lkg} \ {<<>>}
          PROVE  /\ g[1] \in DOMAIN gens
                 /\ LET v == gens[g[1]].pack
                        h == State.highest[v.id]
                    IN h # <<>> /\ (v.version < h[1].version \/ [version |-> v.version, digest |-> g[1]] = h[1])
      <3>1. g[1] \in DOMAIN gens /\ Recorded(gens[g[1]].pack, State.highest)
        BY <2>1, <2>2 DEF Sound, Named
      <3>2. gens[g[1]].pack.digest = g[1]
        BY <1>1, <3>1 DEF IInv, Endorsed
      <3>3. QED
        BY <3>1, <3>2 DEF Recorded
    <2>3. State.lkg # <<>> => State.lkg[1] \in proven
      BY <2>1 DEF Sound
    <2>4. lock = <<>> /\ ~Seen("write") /\ ~Seen("kill") => State.active = State.lkg
      BY <1>1 DEF IInv, Locked, Agreeing, Switched
    <2>5. QED
      BY <2>2, <2>3, <2>4 DEF PointersSound
  <1>2. QED
    BY <1>1, Invariance, PTL

\* No step lowers the highest-seen version of a pack, exchanges its digest at
\* the same version, takes older metadata or turns the recorded time back
\* (observe_pack, refresh, _guard_trusted_time).
THEOREM TrustIsMonotone == Spec => TrustMonotone
  <1> DEFINE A == /\ TimeKept
                  /\ cache # <<>> => cache' # <<>> /\ cache'[1].version >= cache[1].version
                  /\ \A i \in PackId : State.highest[i] # <<>> =>
                       /\ State'.highest[i] # <<>>
                       /\ State'.highest[i][1].version >= State.highest[i][1].version
                       /\ State'.highest[i][1].version = State.highest[i][1].version =>
                            State'.highest[i] = State.highest[i]
  <1>1. ASSUME IInv, [Next]_vars PROVE A
    <2>1. TimeKept
      <3>1. CASE \E p \in Proc : Step(p)
        BY <1>1, <3>1, TimeEffect DEF IInv, TimeKept, Refused
      <3>2. CASE AdminRecovery \/ Damage \/ LoseTime \/ UNCHANGED vars
        BY <3>2 DEF AdminRecovery, Damage, LoseTime, TimeKept, vars, disk
      <3>3. QED
        BY <1>1, <3>1, <3>2 DEF Next
    <2>2. Newer(cache, cache')
      BY <1>1, CacheEffect DEF IInv
    <2>3. Grows(State.highest, State'.highest)
      BY <1>1, GrowStep DEF IInv
    <2>4. QED
      BY <2>1, <2>2, <2>3 DEF Newer, Grows
  <1>2. Spec => [][A]_vars
    BY <1>1, Invariance, PTL DEF Spec
  <1>3. QED
    BY <1>2 DEF TrustMonotone

-----------------------------------------------------------------------------
(***************************************************************************)
(* The builder.  An archive of a directory is extracted to that directory, *)
(* on a file system that folds names or not (ExtractMade); what was read   *)
(* of several states of the source and verifies is the one state whose     *)
(* metadata it carries (VerifiedIsSource); and a tree that verifies        *)
(* verifies where names are folded too (VerifiedAgree).                    *)
(***************************************************************************)

\* The extraction with the folding of names as a parameter.
SameIn(b, p, q) == IF b THEN Folded(p) = Folded(q) ELSE p = q
FoundIn(b, nodes, p) == {n \in nodes : SameIn(b, n.path, p)}
MkdirIn(b, a, part) ==
  LET q    == Append(a.at, part)
      here == FoundIn(b, a.nodes, q)
      n    == CHOOSE n \in here : TRUE
  IN IF ~a.ok THEN a
     ELSE IF here = {}
     THEN [ok |-> TRUE, at |-> q, nodes |-> a.nodes \union {[path |-> q, data |-> <<>>]}]
     ELSE [ok |-> n.data = <<>>, at |-> n.path, nodes |-> a.nodes]

ChainIn(b, nodes, p) ==
  LET chain[k \in 0..Len(p)] ==
        IF k = 0 THEN [ok |-> TRUE, at |-> <<>>, nodes |-> nodes] ELSE MkdirIn(b, chain[k-1], p[k])
  IN chain[Len(p)]

WriteIn(b, a, e) ==
  LET d == ChainIn(b, a.nodes, Front(e.path))
      q == Append(d.at, Last(e.path))
  IN [ok |-> d.ok /\ FoundIn(b, d.nodes, q) = {} /\ e.actual = e.size,
      nodes |-> d.nodes \union {[path |-> q, data |-> <<e.data>>]}]

PlaceIn(b, a, e) ==
  IF ~a.ok THEN a
  ELSE IF e.dir THEN LET d == ChainIn(b, a.nodes, e.path) IN [ok |-> d.ok, nodes |-> d.nodes]
  ELSE WriteIn(b, a, e)

ExtractIn(b, es) ==
  LET placed[k \in 0..Len(es)] ==
        IF k = 0 THEN [ok |-> TRUE, nodes |-> {}] ELSE PlaceIn(b, placed[k-1], es[k])
  IN IF Preflight(es) THEN placed[Len(es)] ELSE [ok |-> FALSE, nodes |-> {}]

\* The two extractions of the model are instances of it.
LEMMA ExtractPlain == ASSUME NEW es PROVE Extract(es) = ExtractIn(CaseInsensitive, es)
  BY DEF Extract, ExtractIn, Place, PlaceIn, Write, WriteIn, MkdirChain, ChainIn, Mkdir, MkdirIn, Found,
         FoundIn, Same, SameIn

LEMMA TotalFolding == ASSUME NEW es, NEW n PROVE Folding!Total(es, n) = Total(es, n)
  BY DEF Folding!Total, Total, FoldLeft, Folding!FoldLeft, MapThenFoldSet, Folding!MapThenFoldSet, Max,
         Folding!Max

LEMMA PreflightFolding == ASSUME NEW es PROVE Folding!Preflight(es) = Preflight(es)
  BY TotalFolding DEF Folding!Preflight, Preflight, Folding!EntryType, EntryType, Folding!MemberName,
                      MemberName, Folding!Folded, Folded, Folding!Top, Top, Folding!Rotated, Rotated,
                      Last, Folding!Last

LEMMA ExtractFolding == ASSUME NEW es PROVE Folding!Extract(es) = ExtractIn(TRUE, es)
  <1> DEFINE F(f) == [k \in 0..Len(es) |-> IF k = 0 THEN [ok |-> TRUE, nodes |-> {}]
                                            ELSE Folding!Place(f[k-1], es[k])]
             G(f) == [k \in 0..Len(es) |-> IF k = 0 THEN [ok |-> TRUE, nodes |-> {}]
                                            ELSE PlaceIn(TRUE, f[k-1], es[k])]
             left  == CHOOSE f : f = F(f)
             right == CHOOSE f : f = G(f)
  <1>1. ASSUME NEW nodes, NEW p PROVE Folding!MkdirChain(nodes, p) = ChainIn(TRUE, nodes, p)
    BY DEF Folding!MkdirChain, ChainIn, Folding!Mkdir, MkdirIn, Folding!Found, FoundIn, Folding!Same, SameIn,
           Folding!Folded, Folded
  <1>2. ASSUME NEW a, NEW e PROVE Folding!Place(a, e) = PlaceIn(TRUE, a, e)
    BY <1>1 DEF Folding!Place, PlaceIn, Folding!Write, WriteIn, Folding!Found, FoundIn, Folding!Same, SameIn,
                Folding!Folded, Folded, Last, Folding!Last, Front, Folding!Front
  <1>3. \A f : F(f) = G(f)
    BY <1>2
  <1>4. Folding!Extract(es) = IF Folding!Preflight(es) THEN left[Len(es)] ELSE [ok |-> FALSE, nodes |-> {}]
    BY DEF Folding!Extract
  <1>5. ExtractIn(TRUE, es) = IF Preflight(es) THEN right[Len(es)] ELSE [ok |-> FALSE, nodes |-> {}]
    BY DEF ExtractIn
  <1> HIDE DEF F, G
  <1>6. left = right
    BY <1>3
  <1> HIDE DEF left, right
  <1>7. Folding!Preflight(es) <=> Preflight(es)
    BY PreflightFolding
  <1>8. CASE Preflight(es)
    BY ONLY <1>4, <1>5, <1>6, <1>7, <1>8
  <1>9. CASE ~Preflight(es)
    BY ONLY <1>4, <1>5, <1>6, <1>7, <1>9
  <1>10. QED
    BY <1>8, <1>9

\* The directories above a file.
Above(p, k) == {[path |-> SubSeq(p, 1, n), data |-> <<>>] : n \in 1..k}

\* The files of a directory tree: one node for each path, on a file system that
\* folds names if b says so.
IsTree(b, t) ==
  /\ \A f \in t : f = [path |-> f.path, data |-> f.data] /\ f.path \in Seq(Component) \ {<<>>}
  /\ \A m, n \in Directory(t) : SameIn(b, m.path, n.path) => m = n

\* A prefix and the component after it are the next prefix.
LEMMA OneFurther ==
  ASSUME NEW s \in Seq(Component), NEW m \in 1..Len(s)
  PROVE  Append(SubSeq(s, 1, m-1), s[m]) = SubSeq(s, 1, m)
  <1> DEFINE q == SubSeq(s, 1, m-1)
             r == SubSeq(s, 1, m)
  <1>1. m \in Nat /\ m - 1 \in Nat /\ \A i \in 1..m : s[i] \in Component
    OBVIOUS
  <1>2. q \in Seq(Component) /\ Len(q) = m - 1 /\ \A i \in 1..(m-1) : q[i] = s[i]
    BY <1>1, SubSeqProperties
  <1>3. r \in Seq(Component) /\ Len(r) = m /\ \A i \in 1..m : r[i] = s[i]
    BY <1>1, SubSeqProperties
  <1> HIDE DEF q, r
  <1> DEFINE t == Append(q, s[m])
  <1>4. t \in Seq(Component) /\ Len(t) = m /\ \A i \in 1..(m-1) : t[i] = s[i]
    BY <1>1, <1>2, AppendProperties
  <1>5. t[m] = s[m]
    BY <1>1, <1>2, AppendProperties
  <1> HIDE DEF t
  <1>6. t = r
    BY <1>1, <1>3, <1>4, <1>5, SeqEqual
  <1>7. QED
    BY <1>6 DEF t, q, r

LEMMA SameReflexive == ASSUME NEW b, NEW p PROVE SameIn(b, p, p)
  BY DEF SameIn

LEMMA DirectoryNodes ==
  ASSUME NEW t, NEW f \in t
  PROVE  /\ [path |-> f.path, data |-> <<f.data>>] \in Directory(t)
         /\ Above(f.path, Len(f.path) - 1) \subseteq Directory(t)
  BY DEF Directory, Above

\* What the chain of directories above a file has led to at its k-th part.
Reached(P, p, k) ==
  [ok |-> TRUE, at |-> SubSeq(p, 1, k), nodes |-> Directory(P) \union Above(p, k)]

\* The directories above a file of a tree are found or made one after the other,
\* and none is taken for another.
LEMMA MkdirMade ==
  ASSUME NEW b, NEW t, IsTree(b, t), NEW P \in SUBSET t, NEW p \in Paths(t),
         NEW k \in Nat, k # 0, k < Len(p)
  PROVE  MkdirIn(b, Reached(P, p, k-1), p[k]) = Reached(P, p, k)
  <1> DEFINE nodes == Directory(P) \union Above(p, k-1)
             a == [ok |-> TRUE, at |-> SubSeq(p, 1, k-1), nodes |-> nodes]
             q == SubSeq(p, 1, k)
             new == [path |-> q, data |-> <<>>]
             here == FoundIn(b, nodes, q)
             one == CHOOSE n \in here : TRUE
  <1>1. p \in Seq(Component) /\ Len(p) \in Nat /\ k \in 1..Len(p)
    BY DEF IsTree, Paths
  <1>2. Append(SubSeq(p, 1, k-1), p[k]) = q
    BY <1>1, OneFurther
  <1>3. new \in Directory(t)
    <2>1. k \in 1..(Len(p) - 1)
      BY <1>1
    <2>2. new \in Above(p, Len(p) - 1)
      BY <2>1 DEF Above
    <2>3. QED
      BY <2>2, DirectoryNodes DEF Paths
  <1>4. nodes \subseteq Directory(t)
    <2>1. Directory(P) \subseteq Directory(t)
      BY DEF Directory
    <2>2. Above(p, k-1) \subseteq Above(p, Len(p) - 1)
      BY <1>1 DEF Above
    <2>3. Above(p, Len(p) - 1) \subseteq Directory(t)
      BY DirectoryNodes DEF Paths
    <2>4. QED
      BY <2>1, <2>2, <2>3
  <1>5. Above(p, k) = Above(p, k-1) \union {new}
    BY <1>1 DEF Above
  <1>6. \A n \in here : n = new
    BY <1>3, <1>4 DEF FoundIn, IsTree
  <1>7. MkdirIn(b, a, p[k]) = IF here = {} THEN [ok |-> TRUE, at |-> q, nodes |-> nodes \union {new}]
                              ELSE [ok |-> one.data = <<>>, at |-> one.path, nodes |-> nodes]
    BY <1>2 DEF MkdirIn
  <1>8. here # {} => one = new /\ new \in nodes
    BY <1>6 DEF FoundIn
  <1>9. nodes \union {new} = Directory(P) \union Above(p, k)
    BY <1>5
  <1> HIDE DEF here, one, nodes, q
  <1>10. MkdirIn(b, a, p[k]) = [ok |-> TRUE, at |-> q, nodes |-> nodes \union {new}]
    <2>1. CASE here = {}
      BY <1>7, <2>1
    <2>2. CASE here # {}
      <3>1. one.data = <<>> /\ one.path = q /\ nodes \union {new} = nodes
        BY <1>8, <2>2
      <3>2. QED
        BY <1>7, <2>2, <3>1
    <2>3. QED
      BY <2>1, <2>2
  <1>11. QED
    BY <1>9, <1>10 DEF Reached, nodes, q

LEMMA ChainMade ==
  ASSUME NEW b, NEW t, IsTree(b, t), NEW P \in SUBSET t, NEW f \in t
  PROVE  ChainIn(b, Directory(P), Front(f.path))
           = [ok |-> TRUE, at |-> Front(f.path), nodes |-> Directory(P) \union Above(f.path, Len(f.path) - 1)]
  <1> DEFINE p == Front(f.path)
             n == Len(f.path) - 1
             base == [ok |-> TRUE, at |-> <<>>, nodes |-> Directory(P)]
             F(h) == [k \in 0..Len(p) |-> IF k = 0 THEN base ELSE MkdirIn(b, h[k-1], p[k])]
             chain == CHOOSE h : h = F(h)
             G(k) == Reached(P, f.path, k)
             g == [k \in 0..Len(p) |-> G(k)]
  <1>1. n \in Nat /\ f.path \in Seq(Component) /\ Len(f.path) = n + 1
    BY DEF IsTree
  <1>2. p = SubSeq(f.path, 1, n) /\ Len(p) = n /\ \A k \in 1..n : p[k] = f.path[k]
    BY <1>1 DEF Front
  <1>3. ChainIn(b, Directory(P), p) = chain[Len(p)]
    BY DEF ChainIn
  <1> HIDE DEF p
  <1>4. g[0] = base
    <2>1. SubSeq(f.path, 1, 0) = <<>> /\ Above(f.path, 0) = {}
      BY SubSeqEmpty DEF Above
    <2>2. G(0) = base
      BY <2>1 DEF Reached
    <2>3. g[0] = G(0)
      BY <1>1, <1>2
    <2>4. QED
      BY <2>2, <2>3
  <1>5. ASSUME NEW k \in 1..n PROVE MkdirIn(b, G(k-1), p[k]) = G(k)
    <2>1. k \in Nat /\ k # 0 /\ k < Len(f.path) /\ p[k] = f.path[k]
      BY <1>1, <1>2
    <2>2. f.path \in Paths(t)
      BY DEF Paths
    <2> DEFINE full == f.path
    <2> HIDE DEF full
    <2>3. MkdirIn(b, Reached(P, full, k-1), full[k]) = Reached(P, full, k)
      BY <2>1, <2>2, MkdirMade DEF full
    <2>4. QED
      BY <2>1, <2>3 DEF full
  <1>6. \A k \in 1..n : g[k-1] = G(k-1) /\ g[k] = G(k)
    BY <1>1, <1>2
  <1> HIDE DEF G
  <1>7. g = F(g)
    <2>1. \A k \in 0..n : g[k] = IF k = 0 THEN base ELSE MkdirIn(b, g[k-1], p[k])
      BY <1>1, <1>2, <1>4, <1>5, <1>6
    <2>2. g = [k \in 0..n |-> g[k]]
      BY <1>2
    <2> HIDE DEF g, base
    <2>3. QED
      BY <1>2, <2>1, <2>2
  <1>8. chain = F(chain)
    BY <1>7
  <1> HIDE DEF g, base, chain
  <1> DEFINE S == {k \in 0..n : chain[k] = g[k]}
  <1>9. 0 \in S
    BY <1>1, <1>2, <1>4, <1>8
  <1>10. ASSUME NEW k \in 1..n, k - 1 \in S PROVE k \in S
    <2>1. chain[k] = MkdirIn(b, chain[k-1], p[k]) /\ g[k] = MkdirIn(b, g[k-1], p[k])
      BY <1>1, <1>2, <1>7, <1>8
    <2>2. QED
      BY <1>10, <2>1
  <1> HIDE DEF S
  <1>11. 0..n \subseteq S
    BY <1>1, <1>9, <1>10, IntervalInduction
  <1>12. chain[n] = g[n]
    BY <1>1, <1>11 DEF S
  <1>13. g[n] = G(n)
    BY <1>1, <1>2 DEF g
  <1>14. ChainIn(b, Directory(P), p) = G(n)
    BY <1>2, <1>3, <1>12, <1>13
  <1>15. QED
    BY <1>2, <1>14 DEF G, p, Reached

\* A function on the subsets of a finite set that takes one element away after
\* the other, and starts with base at the empty set.
Chooses(pick, V) == \A S \in SUBSET V : S # {} => pick[S] \in S
Closed(op, V, A) == \A x \in V, a \in A : op[x][a] \in A
TakesAway(f, V, base, pick, op) ==
  \A S \in SUBSET V : f[S] = IF S = {} THEN base ELSE op[pick[S]][f[S \ {pick[S]}]]

LEMMA SetRecursion ==
  ASSUME NEW V, IsFiniteSet(V), NEW A, NEW base \in A, NEW pick, Chooses(pick, V), NEW op, Closed(op, V, A)
  PROVE  \E f \in [SUBSET V -> A] : TakesAway(f, V, base, pick, op)
  <1> USE DEF Chooses, Closed
  <1> DEFINE F(f) == [S \in SUBSET V |-> IF S = {} THEN base ELSE op[pick[S]][f[S \ {pick[S]}]]]
             B == [SUBSET V -> A]
             start == [S \in SUBSET V |-> base]
             next == [h \in B |-> F(h)]
  <1>1. start \in B
    OBVIOUS
  <1>2. next \in [B -> B]
    <2> SUFFICES ASSUME NEW h \in B PROVE F(h) \in B
      OBVIOUS
    <2>1. ASSUME NEW S \in SUBSET V, S # {} PROVE op[pick[S]][h[S \ {pick[S]}]] \in A
      <3>1. pick[S] \in V /\ S \ {pick[S]} \in SUBSET V
        BY <2>1
      <3>2. h[S \ {pick[S]}] \in A
        BY <3>1
      <3>3. QED
        BY <3>1, <3>2
    <2>2. \A S \in SUBSET V : (IF S = {} THEN base ELSE op[pick[S]][h[S \ {pick[S]}]]) \in A
      BY <2>1
    <2>3. QED
      BY <2>2
  <1> HIDE DEF start, next, B
  <1>3. PICK g \in [Nat -> B] : g[0] = start /\ \A k \in Nat \ {0} : g[k] = next[g[k-1]]
    BY ONLY <1>1, <1>2, NatRecursion
  <1> DEFINE size(S) == Cardinality(S)
             f == [S \in SUBSET V |-> g[size(S)][S]]
  <1>4. \A S \in SUBSET V : IsFiniteSet(S) /\ size(S) \in Nat
    BY FS_Subset, FS_CardinalityType
  <1>5. ASSUME NEW S \in SUBSET V PROVE f[S] = IF S = {} THEN base ELSE op[pick[S]][f[S \ {pick[S]}]]
    <2>1. CASE S = {}
      <3>1. size(S) = 0
        BY <2>1, FS_EmptySet
      <3>2. QED
        BY <1>3, <2>1, <3>1 DEF start
    <2>2. CASE S # {}
      <3> DEFINE x == pick[S]
                 R == S \ {x}
      <3>1. x \in S /\ R \in SUBSET V
        BY <2>2
      <3>2. size(R) = size(S) - 1 /\ size(R) \in Nat /\ size(S) \in Nat
        BY <1>4, <3>1, FS_RemoveElement
      <3> HIDE DEF size
      <3>3. size(S) \in Nat \ {0} /\ g[size(S)] = next[g[size(R)]] /\ g[size(R)] \in B
        <4>1. size(S) \in Nat \ {0} /\ size(R) = size(S) - 1
          BY ONLY <3>2
        <4>2. QED
          BY ONLY <1>3, <3>2, <4>1
      <3>4. next[g[size(R)]] = F(g[size(R)])
        BY <3>3 DEF next
      <3>5. f[S] = g[size(S)][S] /\ f[R] = g[size(R)][R]
        BY <3>1
      <3>6. F(g[size(R)])[S] = op[x][g[size(R)][R]]
        BY <2>2
      <3>7. QED
        BY <2>2, <3>3, <3>4, <3>5, <3>6
    <2>3. QED
      BY <2>1, <2>2
  <1>7. f \in [SUBSET V -> A]
    <2> SUFFICES ASSUME NEW S \in SUBSET V PROVE f[S] \in A
      OBVIOUS
    <2>1. f[S] = g[size(S)][S] /\ size(S) \in Nat
      BY <1>4
    <2> HIDE DEF f, size
    <2>2. g[size(S)] \in B
      BY <1>3, <2>1
    <2>3. QED
      BY <2>1, <2>2 DEF B
  <1>8. QED
    <2> HIDE DEF f
    <2>1. QED
      BY <1>5, <1>7 DEF TakesAway

\* A property that the empty set has, and each set that has it without one
\* element, is had by every finite set.
LEMMA RemovalInduction ==
  ASSUME NEW V, IsFiniteSet(V), NEW Good, {} \in Good,
         \A S \in SUBSET V : S # {} => \E x \in S : S \ {x} \in Good => S \in Good
  PROVE  V \in Good
  <1> DEFINE n == Cardinality(V)
             Sized == {k \in 0..n : \A S \in SUBSET V : Cardinality(S) = k => S \in Good}
  <1>1. n \in Nat /\ \A S \in SUBSET V : IsFiniteSet(S)
    BY FS_CardinalityType, FS_Subset
  <1>2. 0 \in Sized
    <2>1. ASSUME NEW S \in SUBSET V, Cardinality(S) = 0 PROVE S \in Good
      BY <1>1, <2>1, FS_EmptySet
    <2>2. QED
      BY <1>1, <2>1
  <1>3. ASSUME NEW k \in 1..n, k - 1 \in Sized PROVE k \in Sized
    <2> SUFFICES ASSUME NEW S \in SUBSET V, Cardinality(S) = k PROVE S \in Good
      BY <1>1
    <2>1. IsFiniteSet(S) /\ S # {}
      BY <1>1, FS_EmptySet
    <2>2. PICK x \in S : S \ {x} \in Good => S \in Good
      BY <2>1
    <2>3. Cardinality(S \ {x}) = k - 1 /\ S \ {x} \in SUBSET V
      BY <2>1, <2>2, FS_RemoveElement
    <2>4. QED
      BY <1>3, <2>2, <2>3
  <1> HIDE DEF Sized
  <1>4. 0..n \subseteq Sized
    BY <1>1, <1>2, <1>3, IntervalInduction
  <1>5. n \in Sized
    BY <1>1, <1>4
  <1>6. QED
    BY <1>5 DEF Sized, n

LEMMA Greatest ==
  ASSUME NEW n \in Nat, NEW S \in SUBSET (1..n), S # {}
  PROVE  Max(S) \in S
  <1> DEFINE T == {n - x : x \in S}
  <1>1. T \in SUBSET Nat /\ T # {}
    <2>1. \A x \in S : x \in Nat /\ n - x \in Nat
      OBVIOUS
    <2>2. T \in SUBSET Nat
      BY <2>1
    <2>3. PICK x \in S : TRUE
      OBVIOUS
    <2>4. n - x \in T
      OBVIOUS
    <2>5. QED
      BY <2>2, <2>4
  <1>2. PICK m \in T : \A y \in T : m <= y
    BY <1>1, Least
  <1>3. PICK x \in S : m = n - x
    BY <1>2
  <1>4. \A y \in S : x >= y
    <2> SUFFICES ASSUME NEW y \in S PROVE x >= y
      OBVIOUS
    <2>1. n - y \in T
      OBVIOUS
    <2>2. m <= n - y
      BY <1>2, <2>1
    <2>3. x \in Nat /\ y \in Nat
      OBVIOUS
    <2> HIDE DEF T
    <2>4. QED
      BY <1>3, <2>2, <2>3
  <1> HIDE DEF T
  <1>5. QED
    BY <1>4 DEF Max

\* A list of a set has each of its elements once.
Lists(l, S) ==
  /\ l \in Seq(S) /\ Len(l) = Cardinality(S)
  /\ \A x \in S : \E i \in 1..Len(l) : l[i] = x
  /\ \A i, j \in 1..Len(l) : l[i] = l[j] => i = j

\* A list of a set without an element, with that element at its end.
LEMMA ListsOneMore ==
  ASSUME NEW S, IsFiniteSet(S), NEW x \in S, NEW l, Lists(l, S \ {x})
  PROVE  Lists(Append(l, x), S)
  <1> DEFINE n == Len(l)
             m == Append(l, x)
  <1>1. l \in Seq(S) /\ n \in Nat /\ \A i \in 1..n : l[i] \in S \ {x}
    <2>1. l \in Seq(S \ {x}) /\ S \ {x} \subseteq S
      BY DEF Lists
    <2>2. l \in Seq(S)
      BY <2>1, SeqMonotonic
    <2>3. QED
      BY <2>1, <2>2, ElementOfSeq, LenProperties
  <1>2. m \in Seq(S) /\ Len(m) = n + 1 /\ (\A i \in 1..n : m[i] = l[i]) /\ m[n+1] = x
    BY <1>1, AppendProperties
  <1>3. Len(m) = Cardinality(S)
    <2>1. Cardinality(S \ {x}) = Cardinality(S) - 1 /\ Cardinality(S) \in Nat
      BY FS_RemoveElement, FS_CardinalityType
    <2>2. QED
      BY <1>2, <2>1 DEF Lists
  <1> HIDE DEF m
  <1>4. ASSUME NEW y \in S PROVE \E i \in 1..Len(m) : m[i] = y
    <2>1. CASE y = x
      BY <1>1, <1>2, <2>1
    <2>2. CASE y # x
      <3>1. PICK i \in 1..n : l[i] = y
        BY <2>2 DEF Lists
      <3>2. i \in 1..Len(m) /\ m[i] = y
        BY <1>1, <1>2, <3>1
      <3>3. QED
        BY <3>2
    <2>3. QED
      BY <2>1, <2>2
  <1>5. ASSUME NEW i \in 1..Len(m), NEW j \in 1..Len(m), m[i] = m[j] PROVE i = j
    <2>1. CASE i \in 1..n /\ j \in 1..n
      BY <1>2, <1>5, <2>1 DEF Lists
    <2>2. CASE ~(i \in 1..n /\ j \in 1..n)
      BY <1>1, <1>2, <1>5, <2>2
    <2>3. QED
      BY <2>1, <2>2
  <1>6. QED
    BY <1>2, <1>3, <1>4, <1>5 DEF Lists, m

LEMMA Listed ==
  ASSUME NEW V, IsFiniteSet(V)
  PROVE  Lists(Listing(V), V)
  <1> DEFINE pick == [S \in SUBSET V |-> CHOOSE x \in S : TRUE]
             op == [x \in V |-> [a \in Seq(V) |-> Append(a, x)]]
             F(f) == [S \in SUBSET V |-> IF S = {} THEN <<>>
                                         ELSE LET x == CHOOSE x \in S : TRUE IN Append(f[S \ {x}], x)]
             iter == CHOOSE f : f = F(f)
             Good == {S \in SUBSET V : Lists(iter[S], S)}
  <1>1. Listing(V) = iter[V]
    BY DEF Listing, FoldSet, MapThenFoldSet
  <1>2. \A S \in SUBSET V : S # {} => pick[S] \in S /\ pick[S] = CHOOSE x \in S : TRUE
    OBVIOUS
  <1>3. ASSUME NEW x \in V, NEW a \in Seq(V) PROVE op[x][a] \in Seq(V) /\ op[x][a] = Append(a, x)
    <2>2. op[x][a] = Append(a, x)
      OBVIOUS
    <2> HIDE DEF op
    <2>3. Append(a, x) \in Seq(V)
      BY AppendProperties
    <2>4. QED
      BY <2>2, <2>3
  <1> HIDE DEF pick, op
  <1>4. PICK f \in [SUBSET V -> Seq(V)] :
          TakesAway(f, V, <<>>, pick, op)
    <2>1. Chooses(pick, V)
      BY <1>2 DEF Chooses
    <2>2. Closed(op, V, Seq(V))
      BY <1>3 DEF Closed
    <2>3. <<>> \in Seq(V)
      OBVIOUS
    <2>4. QED
      BY <2>1, <2>2, <2>3, SetRecursion, Zenon
  <1>5. f = F(f)
    <2>1. ASSUME NEW S \in SUBSET V, S # {}
          PROVE  op[pick[S]][f[S \ {pick[S]}]] = LET x == CHOOSE x \in S : TRUE IN Append(f[S \ {x}], x)
      <3>1. pick[S] \in V /\ f[S \ {pick[S]}] \in Seq(V)
        BY <1>2, <1>4, <2>1
      <3>2. QED
        BY <1>2, <1>3, <2>1, <3>1
    <2>2. QED
      BY <1>4, <2>1 DEF TakesAway
  <1>6. iter = F(iter)
    BY <1>5
  <1> HIDE DEF iter
  <1>7. iter[{}] = <<>>
    BY <1>6
  <1>8. ASSUME NEW S \in SUBSET V, S # {} PROVE \E x \in S : S \ {x} \in Good => S \in Good
    <2> DEFINE x == CHOOSE x \in S : TRUE
    <2>1. x \in S
      BY <1>8
    <2>2. iter[S] = Append(iter[S \ {x}], x)
      BY <1>6, <1>8
    <2>3. IsFiniteSet(S)
      BY FS_Subset
    <2> HIDE DEF x
    <2>4. ASSUME S \ {x} \in Good PROVE S \in Good
      <3> DEFINE l == iter[S \ {x}]
      <3>1. Lists(l, S \ {x})
        BY <2>4
      <3> HIDE DEF l
      <3>2. Lists(Append(l, x), S)
        BY <2>1, <2>3, <3>1, ListsOneMore
      <3>3. QED
        BY <2>2, <3>2 DEF l
    <2>5. QED
      BY <2>1, <2>4
  <1>9. {} \in Good
    <2>1. Lists(<<>>, {})
      BY FS_EmptySet DEF Lists
    <2>2. QED
      BY <1>7, <2>1
  <1> HIDE DEF Good
  <1>10. V \in Good
    BY <1>8, <1>9, RemovalInduction
  <1>11. QED
    BY <1>1, <1>10 DEF Good

\* The staging directory with the files of P in it.
Unpacked(P) == [ok |-> TRUE, nodes |-> Directory(P)]

\* A file of a tree finds its directories and a free place.
LEMMA PlaceMade ==
  ASSUME NEW b, NEW t, IsTree(b, t), NEW P \in SUBSET t, NEW f \in t \ P
  PROVE  PlaceIn(b, Unpacked(P), Entry(f)) = Unpacked(P \union {f})
  <1> DEFINE p == f.path
             e == Entry(f)
             above == Above(p, Len(p) - 1)
             nodes == Directory(P) \union above
             new == [path |-> p, data |-> <<f.data>>]
  <1>1. p \in Seq(Component) /\ p # <<>> /\ f = [path |-> p, data |-> f.data]
    BY DEF IsTree
  <1>2. e.path = p /\ e.data = f.data /\ ~e.dir /\ e.actual = e.size
    BY DEF Entry
  <1>3. ChainIn(b, Directory(P), Front(p)) = [ok |-> TRUE, at |-> Front(p), nodes |-> nodes]
    BY ChainMade
  <1>4. Append(Front(p), Last(p)) = p
    <2>1. Len(p) \in Nat /\ Len(p) \in 1..Len(p) /\ SubSeq(p, 1, Len(p)) = p
      BY <1>1, EmptySeq, SubSeqFull
    <2>2. Append(SubSeq(p, 1, Len(p) - 1), p[Len(p)]) = SubSeq(p, 1, Len(p))
      BY <1>1, <2>1, OneFurther
    <2>3. QED
      BY <2>1, <2>2 DEF Front, Last
  <1>5. FoundIn(b, nodes, p) = {}
    <2> SUFFICES ASSUME NEW n \in nodes, SameIn(b, n.path, p) PROVE FALSE
      BY DEF FoundIn
    <2>1. n \in Directory(t) /\ new \in Directory(t)
      <3>1. Directory(P) \subseteq Directory(t)
        BY DEF Directory
      <3>2. QED
        BY <3>1, DirectoryNodes
    <2>2. n = new
      BY <2>1 DEF IsTree
    <2>3. \A m \in above : m.data = <<>>
      BY DEF Above
    <2>4. new.data # <<>>
      OBVIOUS
    <2>5. n \in Directory(P)
      BY <2>2, <2>3, <2>4
    <2>6. PICK g \in P : n = [path |-> g.path, data |-> <<g.data>>]
      BY <2>2, <2>4, <2>5 DEF Directory
    <2>7. g.path = p /\ g.data = f.data
      BY <2>2, <2>6
    <2>8. g = f
      BY <1>1, <2>7 DEF IsTree
    <2>9. QED
      BY <2>8
  <1>6. Directory(P \union {f}) = nodes \union {new}
    BY DEF Directory, Above
  <1>7. WriteIn(b, Unpacked(P), e) = [ok |-> TRUE, nodes |-> nodes \union {new}]
    <2> HIDE DEF e, nodes, p
    <2>1. Unpacked(P).nodes = Directory(P)
      BY DEF Unpacked
    <2> DEFINE d == ChainIn(b, Unpacked(P).nodes, Front(e.path))
               q == Append(d.at, Last(e.path))
    <2>2. d = [ok |-> TRUE, at |-> Front(p), nodes |-> nodes]
      BY <1>2, <1>3, <2>1
    <2>3. WriteIn(b, Unpacked(P), e) = [ok |-> d.ok /\ FoundIn(b, d.nodes, q) = {} /\ e.actual = e.size,
                                        nodes |-> d.nodes \union {[path |-> q, data |-> <<e.data>>]}]
      BY DEF WriteIn
    <2> HIDE DEF d
    <2>4. d.ok /\ d.at = Front(p) /\ d.nodes = nodes
      BY <2>2
    <2>5. q = p
      BY <1>2, <1>4, <2>4
    <2> HIDE DEF q
    <2>6. FoundIn(b, d.nodes, q) = {}
      BY <1>5, <2>4, <2>5
    <2>7. [path |-> q, data |-> <<e.data>>] = new
      BY <1>2, <2>5
    <2>8. QED
      BY <1>2, <2>3, <2>4, <2>6, <2>7
  <1>8. PlaceIn(b, Unpacked(P), e) = WriteIn(b, Unpacked(P), e)
    BY <1>2 DEF PlaceIn, Unpacked
  <1>9. QED
    BY <1>6, <1>7, <1>8 DEF Unpacked

FileOf(e) == [path |-> e.path, data |-> e.data]

\* The entries of the archive of a tree: each of its files once.
LEMMA EntriesOfTree ==
  ASSUME NEW b, NEW t, IsTree(b, t), IsFiniteSet(t)
  PROVE  /\ Len(Entries(t)) \in Nat
         /\ \A i \in 1..Len(Entries(t)) :
              FileOf(Entries(t)[i]) \in t /\ Entries(t)[i] = Entry(FileOf(Entries(t)[i]))
         /\ \A f \in t : \E i \in 1..Len(Entries(t)) : f = FileOf(Entries(t)[i])
         /\ \A i, j \in 1..Len(Entries(t)) : FileOf(Entries(t)[i]) = FileOf(Entries(t)[j]) => i = j
  <1> DEFINE E == {Entry(f) : f \in t}
             es == Entries(t)
             pack == [f \in t |-> Entry(f)]
  <1>1. pack \in Surjection(t, E)
    BY DEF Surjection
  <1>2. IsFiniteSet(E)
    BY <1>1, FS_Surjection
  <1>3. Lists(es, E)
    BY <1>2, Listed DEF Entries
  <1>4. \A f \in t : FileOf(Entry(f)) = f
    BY DEF FileOf, Entry, IsTree
  <1>5. Len(es) \in Nat /\ \A i \in 1..Len(es) : es[i] \in E
    BY <1>3, LenProperties, ElementOfSeq DEF Lists
  <1> HIDE DEF es
  <1>6. \A i \in 1..Len(es) : FileOf(es[i]) \in t /\ es[i] = Entry(FileOf(es[i]))
    BY <1>4, <1>5
  <1>7. \A f \in t : \E i \in 1..Len(es) : f = FileOf(es[i])
    BY <1>3, <1>4 DEF Lists
  <1>8. \A i, j \in 1..Len(es) : FileOf(es[i]) = FileOf(es[j]) => i = j
    BY <1>3, <1>6 DEF Lists
  <1>9. QED
    BY <1>5, <1>6, <1>7, <1>8 DEF es

\* The archive of a tree is extracted to the directory of that tree.
LEMMA ExtractMade ==
  ASSUME NEW b, NEW t, IsTree(b, t), IsFiniteSet(t), Preflight(Entries(t))
  PROVE  ExtractIn(b, Entries(t)) = Unpacked(t)
  <1> DEFINE es == Entries(t)
             n == Len(es)
             base == [ok |-> TRUE, nodes |-> {}]
             F(h) == [k \in 0..Len(es) |-> IF k = 0 THEN base ELSE PlaceIn(b, h[k-1], es[k])]
             placed == CHOOSE h : h = F(h)
             packed(k) == {FileOf(es[i]) : i \in 1..k}
             g == [k \in 0..n |-> Unpacked(packed(k))]
  <1>1. ExtractIn(b, es) = placed[n]
    BY DEF ExtractIn
  <1> HIDE DEF es
  <1>2. n \in Nat
    BY EntriesOfTree DEF es
  <1>3. \A i \in 1..n : FileOf(es[i]) \in t /\ es[i] = Entry(FileOf(es[i]))
    BY EntriesOfTree DEF es
  <1>4. \A i, j \in 1..n : FileOf(es[i]) = FileOf(es[j]) => i = j
    BY EntriesOfTree DEF es
  <1>5. packed(n) = t
    <2>1. \A f \in t : \E i \in 1..n : f = FileOf(es[i])
      BY EntriesOfTree DEF es
    <2>2. QED
      BY <1>3, <2>1
  <1>6. g[0] = base
    <2>1. packed(0) = {}
      BY <1>2
    <2>2. Directory({}) = {}
      BY DEF Directory
    <2>3. g[0] = Unpacked(packed(0))
      BY <1>2
    <2>4. QED
      BY <2>1, <2>2, <2>3 DEF Unpacked
  <1>7. ASSUME NEW k \in 1..n PROVE g[k] = PlaceIn(b, g[k-1], es[k])
    <2> DEFINE f == FileOf(es[k])
               P == packed(k-1)
    <2>1. P \in SUBSET t
      BY <1>2, <1>3
    <2>2. f \in t \ P
      BY <1>2, <1>3, <1>4
    <2>3. packed(k) = P \union {f}
      BY <1>2
    <2>4. es[k] = Entry(f)
      BY <1>3
    <2>5. g[k] = Unpacked(packed(k)) /\ g[k-1] = Unpacked(P)
      BY <1>2
    <2> HIDE DEF f, P, packed, g
    <2>6. PlaceIn(b, Unpacked(P), Entry(f)) = Unpacked(P \union {f})
      BY <2>1, <2>2, PlaceMade
    <2>7. QED
      BY <2>3, <2>4, <2>5, <2>6
  <1> HIDE DEF packed
  <1>8. g = F(g)
    <2>2. g = [k \in 0..n |-> g[k]]
      OBVIOUS
    <2> HIDE DEF g, base
    <2>1. \A k \in 0..n : g[k] = IF k = 0 THEN base ELSE PlaceIn(b, g[k-1], es[k])
      BY <1>2, <1>6, <1>7
    <2>3. QED
      BY <2>1, <2>2
  <1>9. placed = F(placed)
    BY <1>8
  <1>10. g[n] = Unpacked(packed(n))
    BY <1>2
  <1> HIDE DEF g, base, placed
  <1> DEFINE S == {k \in 0..n : placed[k] = g[k]}
  <1>11. 0 \in S
    BY <1>2, <1>6, <1>9
  <1>12. ASSUME NEW k \in 1..n, k - 1 \in S PROVE k \in S
    <2>1. placed[k] = PlaceIn(b, placed[k-1], es[k])
      BY <1>2, <1>9
    <2>2. QED
      BY <1>7, <1>12, <2>1
  <1> HIDE DEF S
  <1>13. 0..n \subseteq S
    BY <1>2, <1>11, <1>12, IntervalInduction
  <1>14. placed[n] = g[n]
    BY <1>2, <1>13 DEF S
  <1>15. QED
    BY <1>1, <1>5, <1>10, <1>14 DEF es

\* What the builder can have read of its source: files of sources, one for each
\* path, at paths of one source.
Mixture(t) ==
  /\ \A f \in t : \E s \in Source : f \in s
  /\ \E s \in Source : Paths(t) \subseteq Paths(s)
  /\ \A f, g \in t : f.path = g.path => f = g

\* Paths from their first component and the rest.
LEMMA HeadTail ==
  ASSUME NEW p \in Seq(Component) \ {<<>>}
  PROVE  Tail(p) \in Seq(Component) /\ p = <<p[1]>> \o Tail(p)
  <1>1. Len(p) \in Nat /\ Len(p) > 0
    BY EmptySeq
  <1>2. Tail(p) \in Seq(Component) /\ Len(Tail(p)) = Len(p) - 1 /\ \A i \in 1..(Len(p) - 1) : Tail(p)[i] = p[i+1]
    BY HeadTailProperties
  <1>3. p[1] \in Component
    BY <1>1
  <1> DEFINE h == <<p[1]>>
             t == Tail(p)
             q == h \o t
  <1>4. h \in Seq(Component) /\ Len(h) = 1 /\ h[1] = p[1]
    BY <1>3
  <1> HIDE DEF h, t
  <1>5. q \in Seq(Component) /\ Len(q) = Len(p) /\ q[1] = p[1] /\ \A i \in 2..Len(p) : q[i] = t[i-1]
    <2>1. t \in Seq(Component) /\ Len(t) = Len(p) - 1
      BY <1>2 DEF t
    <2>2. /\ q \in Seq(Component) /\ Len(q) = Len(h) + Len(t)
          /\ \A i \in 1..(Len(h) + Len(t)) : q[i] = IF i <= Len(h) THEN h[i] ELSE t[i-Len(h)]
      <3>1. h \in Seq(Component) /\ t \in Seq(Component)
        BY <1>4, <2>1
      <3>2. QED
        BY <3>1, ConcatProperties, Zenon
    <2> HIDE DEF q
    <2>3. QED
      BY <1>1, <1>4, <2>1, <2>2
  <1> HIDE DEF q
  <1>6. \A i \in 1..Len(p) : q[i] = p[i]
    BY <1>1, <1>2, <1>5 DEF t
  <1>7. q = p
    BY <1>5, <1>6, SeqEqual
  <1>8. QED
    BY <1>2, <1>7 DEF q, h, t

LEMMA Pair ==
  ASSUME NEW p \in Seq(Component) \ {<<>>}, NEW c, Tail(p) = <<c>>
  PROVE  p = <<p[1], c>>
  <1>1. Len(p) \in Nat /\ Len(p) > 0
    BY EmptySeq
  <1>2. Len(Tail(p)) = Len(p) - 1 /\ \A i \in 1..(Len(p) - 1) : Tail(p)[i] = p[i+1]
    BY HeadTailProperties
  <1> DEFINE t == Tail(p)
  <1>3. t = <<c>>
    OBVIOUS
  <1> HIDE DEF t
  <1>4. Len(t) = 1 /\ t[1] = c
    BY <1>3
  <1>5. Len(p) = 2 /\ p[2] = c
    BY <1>1, <1>2, <1>4 DEF t
  <1>6. QED
    BY <1>5

LEMMA ConcatInjective ==
  ASSUME NEW h, NEW p, NEW q, <<h>> \o p = <<h>> \o q, NEW S, p \in Seq(S), q \in Seq(S)
  PROVE  p = q
  OBVIOUS

\* The files of a source: the roles, the signed metadata and what it is for.
LEMMA FileOfSource ==
  ASSUME NEW s \in Source, NEW f \in s
  PROVE  /\ f = [path |-> f.path, data |-> f.data] /\ f.path \in Seq(Component) \ {<<>>}
         /\ \/ \E n \in Top \ {"targets.json"} : f = [path |-> <<"metadata", n>>, data |-> Role]
            \/ f = [path |-> <<"metadata", "targets.json">>, data |-> Signed(f.data.version, TargetsOf(s))]
            \/ /\ f.path[1] = "targets" /\ f.path = <<"targets">> \o Tail(f.path)
               /\ <<Tail(f.path), f.data>> \in TargetsOf(s)
  <1>1. Signable(s) /\ f.path \in Seq(Component) \ {<<>>}
    BY SourceAssumption DEF Signable
  <1>2. PICK t \in File(s, <<"metadata", "targets.json">>) :
          t.data = Signed(t.data.version, TargetsOf(s)) /\ s = Tree(t.data, TargetsOf(s))
    BY <1>1 DEF Signable
  <1>3. CASE f \in {[path |-> <<"metadata", n>>, data |-> Role] : n \in Top \ {"targets.json"}}
    BY <1>1, <1>3
  <1>4. CASE f \in {[path |-> <<"metadata", "targets.json">>, data |-> t.data]}
    BY <1>1, <1>2, <1>4
  <1>5. CASE f \in {[path |-> <<"targets">> \o x[1], data |-> x[2]] : x \in TargetsOf(s)}
    <2>1. PICK x \in TargetsOf(s) : f = [path |-> <<"targets">> \o x[1], data |-> x[2]]
      BY <1>5
    <2>2. PICK g \in s : g.path[1] = "targets" /\ x = <<Tail(g.path), g.data>>
      BY <2>1 DEF TargetsOf
    <2>3. g.path \in Seq(Component) \ {<<>>}
      BY <1>1 DEF Signable
    <2> DEFINE p == g.path
    <2> HIDE DEF p
    <2>4. p = <<p[1]>> \o Tail(p)
      BY <2>3, HeadTail DEF p
    <2>5. f.path = p /\ f.data = g.data
      BY <2>1, <2>2, <2>4 DEF p
    <2>6. QED
      BY <1>1, <2>1, <2>2, <2>4, <2>5 DEF p
  <1>6. QED
    BY <1>2, <1>3, <1>4, <1>5 DEF Tree

\* Node by node a directory of files is as the directory of others at the same paths.
LEMMA NodeKinds ==
  ASSUME NEW t, NEW n \in Directory(t)
  PROVE  \/ \E f \in t : n = [path |-> f.path, data |-> <<f.data>>]
         \/ \E f \in t : \E k \in 1..(Len(f.path) - 1) : n = [path |-> SubSeq(f.path, 1, k), data |-> <<>>]
  BY DEF Directory

LEMMA Twin ==
  ASSUME NEW t, NEW s, Paths(t) \subseteq Paths(s), NEW n \in Directory(t)
  PROVE  \E m \in Directory(s) : m.path = n.path /\ (m.data = <<>> <=> n.data = <<>>) /\ (n.data = <<>> => m = n)
  <1>1. CASE \E f \in t : n = [path |-> f.path, data |-> <<f.data>>]
    <2>1. PICK f \in t : n = [path |-> f.path, data |-> <<f.data>>]
      BY <1>1
    <2>2. PICK g \in s : g.path = f.path
      BY DEF Paths
    <2>3. [path |-> g.path, data |-> <<g.data>>] \in Directory(s)
      BY DEF Directory
    <2>4. QED
      BY <2>1, <2>2, <2>3
  <1>2. CASE \E f \in t : \E k \in 1..(Len(f.path) - 1) : n = [path |-> SubSeq(f.path, 1, k), data |-> <<>>]
    <2>1. PICK f \in t : \E k \in 1..(Len(f.path) - 1) : n = [path |-> SubSeq(f.path, 1, k), data |-> <<>>]
      BY <1>2
    <2>2. PICK g \in s : g.path = f.path
      BY DEF Paths
    <2>3. PICK k \in 1..(Len(f.path) - 1) : n = [path |-> SubSeq(f.path, 1, k), data |-> <<>>]
      BY <2>1
    <2>4. n \in {[path |-> SubSeq(g.path, 1, i), data |-> <<>>] : i \in 1..(Len(g.path) - 1)}
      BY <2>2, <2>3
    <2>5. n \in Directory(s)
      BY <2>4 DEF Directory
    <2>6. QED
      BY <2>5
  <1>3. QED
    BY <1>1, <1>2, NodeKinds

LEMMA MixtureIsTree ==
  ASSUME NEW b, NEW t, Mixture(t), NEW s, Paths(t) \subseteq Paths(s),
         \A m, n \in Directory(s) : SameIn(b, m.path, n.path) => m = n
  PROVE  IsTree(b, t)
  <1>1. \A f \in t : f = [path |-> f.path, data |-> f.data] /\ f.path \in Seq(Component) \ {<<>>}
    BY FileOfSource DEF Mixture
  <1>4. \A n \in Directory(t) :
          \E v \in Directory(s) : v.path = n.path /\ (v.data = <<>> <=> n.data = <<>>) /\ (n.data = <<>> => v = n)
    BY Twin
  <1>2. ASSUME NEW m \in Directory(t), NEW n \in Directory(t), SameIn(b, m.path, n.path) PROVE m = n
    <2>1. PICK v \in Directory(s) :
            v.path = m.path /\ (v.data = <<>> <=> m.data = <<>>) /\ (m.data = <<>> => v = m)
      BY <1>4
    <2>2. PICK w \in Directory(s) :
            w.path = n.path /\ (w.data = <<>> <=> n.data = <<>>) /\ (n.data = <<>> => w = n)
      BY <1>4
    <2>3. v = w
      BY <1>2, <2>1, <2>2
    <2>4. CASE m.data = <<>>
      BY <2>1, <2>2, <2>3, <2>4
    <2>5. CASE m.data # <<>>
      <3>1. m.path = n.path /\ n.data # <<>>
        BY <2>1, <2>2, <2>3, <2>5
      <3>2. PICK f \in t : m = [path |-> f.path, data |-> <<f.data>>]
        BY <2>5, NodeKinds
      <3>3. PICK g \in t : n = [path |-> g.path, data |-> <<g.data>>]
        BY <3>1, NodeKinds
      <3>4. f = g
        BY <3>1, <3>2, <3>3 DEF Mixture
      <3>5. QED
        BY <3>2, <3>3, <3>4
    <2>6. QED
      BY <2>4, <2>5
  <1>3. QED
    BY <1>1, <1>2 DEF IsTree

LEMMA MixtureIsFinite ==
  ASSUME NEW t, Mixture(t)
  PROVE  IsFiniteSet(t)
  <1>1. PICK s \in Source : Paths(t) \subseteq Paths(s)
    BY DEF Mixture
  <1>2. IsFiniteSet(s)
    BY SourceAssumption DEF Signable
  <1> DEFINE name == [f \in s |-> f.path]
             find == [p \in Paths(t) |-> CHOOSE f \in t : f.path = p]
  <1>3. name \in Surjection(s, Paths(s))
    BY DEF Surjection, Paths
  <1>4. IsFiniteSet(Paths(s))
    BY <1>2, <1>3, FS_Surjection
  <1>5. IsFiniteSet(Paths(t))
    BY <1>1, <1>4, FS_Subset
  <1>6. \A p \in Paths(t) : find[p] \in t
    BY DEF Paths
  <1>7. \A f \in t : f.path \in Paths(t) /\ find[f.path] = f
    BY DEF Paths, Mixture
  <1> HIDE DEF find
  <1>8. find \in Surjection(Paths(t), t)
    BY <1>6, <1>7 DEF Surjection, find
  <1>9. QED
    BY <1>5, <1>8, FS_Surjection

\* What the directory of a set of files has below a name, and what a path reads in it.
LEMMA FilesBelow ==
  ASSUME NEW t, NEW space
  PROVE  RegularFiles(Directory(t), space) = {Tail(f.path) : f \in {f \in t : f.path[1] = space}}
  <1>1. ASSUME NEW n \in Directory(t), n.path[1] = space, n.data # <<>>
        PROVE  \E f \in t : f.path[1] = space /\ Tail(n.path) = Tail(f.path)
    <2>1. PICK f \in t : n = [path |-> f.path, data |-> <<f.data>>]
      BY <1>1, NodeKinds
    <2>2. n.path = f.path
      BY <2>1
    <2>3. QED
      BY <1>1, <2>2
  <1>2. ASSUME NEW f \in t, f.path[1] = space
        PROVE  \E n \in Directory(t) : n.path[1] = space /\ n.data # <<>> /\ Tail(n.path) = Tail(f.path)
    <2> DEFINE n == [path |-> f.path, data |-> <<f.data>>]
    <2>1. n \in Directory(t)
      BY DEF Directory
    <2>2. n.path = f.path /\ n.data # <<>>
      OBVIOUS
    <2> HIDE DEF n
    <2>3. QED
      BY <1>2, <2>1, <2>2
  <1> DEFINE below == {n \in Directory(t) : n.path[1] = space /\ n.data # <<>>}
             files == {f \in t : f.path[1] = space}
  <1>3. RegularFiles(Directory(t), space) = {Tail(n.path) : n \in below}
    BY DEF RegularFiles
  <1>4. (\A n \in below : \E f \in files : Tail(n.path) = Tail(f.path))
        /\ \A f \in files : \E n \in below : Tail(n.path) = Tail(f.path)
    BY <1>1, <1>2
  <1> HIDE DEF below, files
  <1> DEFINE left == {Tail(n.path) : n \in below}
             right == {Tail(f.path) : f \in files}
  <1>5. left = right
    <2>1. ASSUME NEW x \in left PROVE x \in right
      <3>1. PICK n \in below : x = Tail(n.path)
        OBVIOUS
      <3>2. PICK f \in files : Tail(n.path) = Tail(f.path)
        BY <1>4
      <3>3. QED
        BY <3>1, <3>2
    <2>2. ASSUME NEW x \in right PROVE x \in left
      <3>1. PICK f \in files : x = Tail(f.path)
        OBVIOUS
      <3>2. PICK n \in below : Tail(n.path) = Tail(f.path)
        BY <1>4
      <3>3. QED
        BY <3>1, <3>2
    <2> HIDE DEF left, right
    <2>3. QED
      BY <2>1, <2>2
  <1>6. QED
    BY <1>3, <1>5 DEF files

LEMMA ReadsOne ==
  ASSUME NEW t, IsTree(CaseInsensitive, t), NEW f \in t, NEW space, NEW p, f.path = <<space>> \o p
  PROVE  Reads(Directory(t), space, p) = {f.data}
  <1> DEFINE q == <<space>> \o p
             n == [path |-> f.path, data |-> <<f.data>>]
  <1>1. n \in Directory(t)
    BY DEF Directory
  <1>2. n.path = q /\ n.data # <<>> /\ n.data[1] = f.data
    OBVIOUS
  <1> HIDE DEF q, n
  <1>3. \A m \in Directory(t) : SameIn(CaseInsensitive, m.path, q) => m = n
    BY <1>1, <1>2 DEF IsTree
  <1>4. SameIn(CaseInsensitive, n.path, q)
    BY <1>2, SameReflexive
  <1>5. Found(Directory(t), q) = {n}
    BY <1>1, <1>3, <1>4 DEF Found, Same, SameIn
  <1>6. QED
    BY <1>2, <1>5 DEF Reads, q

LEMMA ReadsOneFolding ==
  ASSUME NEW t, IsTree(TRUE, t), NEW f \in t, NEW space, NEW p, f.path = <<space>> \o p
  PROVE  Folding!Reads(Directory(t), space, p) = {f.data}
  <1> DEFINE q == <<space>> \o p
             n == [path |-> f.path, data |-> <<f.data>>]
  <1>1. n \in Directory(t)
    BY DEF Directory
  <1>2. n.path = q /\ n.data # <<>> /\ n.data[1] = f.data
    OBVIOUS
  <1> HIDE DEF q, n
  <1>3. \A m \in Directory(t) : SameIn(TRUE, m.path, q) => m = n
    BY <1>1, <1>2 DEF IsTree
  <1>4. SameIn(TRUE, n.path, q)
    BY <1>2, SameReflexive
  <1>5. Folding!Found(Directory(t), q) = {n}
    BY <1>1, <1>3, <1>4 DEF Folding!Found, Folding!Same, Folding!Folded, SameIn, Folded
  <1>6. QED
    BY <1>2, <1>5 DEF Folding!Reads, q

\* A source has one file at a path.
LEMMA OnePath ==
  ASSUME NEW s \in Source, NEW f \in s, NEW g \in s, f.path = g.path
  PROVE  f = g
  <1> DEFINE m == [path |-> f.path, data |-> <<f.data>>]
             n == [path |-> g.path, data |-> <<g.data>>]
  <1>1. m \in Directory(s) /\ n \in Directory(s)
    BY DEF Directory
  <1>2. Same(m.path, n.path)
    BY DEF Same
  <1>3. m = n
    BY <1>1, <1>2, SourceAssumption DEF Signable
  <1>4. f.data = g.data
    BY <1>3
  <1>5. QED
    BY <1>4, FileOfSource

LEMMA SourceIsTree == ASSUME NEW s \in Source PROVE IsTree(CaseInsensitive, s)
  <1>1. \A m, n \in Directory(s) : SameIn(CaseInsensitive, m.path, n.path) => m = n
    BY SourceAssumption DEF Signable, Same, SameIn
  <1>2. QED
    BY <1>1, FileOfSource DEF IsTree

LEMMA SignedPaths ==
  ASSUME NEW s \in Source, NEW m, <<Manifest, m>> \in TargetsOf(s)
  PROVE  {y[1] : y \in TargetsOf(s)} = Control \union {m.artifacts[i].path : i \in DOMAIN m.artifacts}
  <1>1. PICK x \in TargetsOf(s) :
          x[1] = Manifest /\ {y[1] : y \in TargetsOf(s)}
                               = Control \union {x[2].artifacts[i].path : i \in DOMAIN x[2].artifacts}
    BY SourceAssumption DEF Signable
  <1>2. x = <<Manifest, m>>
    BY <1>1, SourceAssumption DEF Signable
  <1>3. x[2] = m
    BY <1>2
  <1>4. QED
    BY <1>1, <1>3

\* A mixture that verifies is the source whose metadata it carries.
LEMMA VerifiedIsSource ==
  ASSUME NEW t, Mixture(t), IsTree(CaseInsensitive, t), Verifies(Directory(t))
  PROVE  t \in Source
  <1> DEFINE nodes == Directory(t)
             TJ == <<"metadata", "targets.json">>
  <1>1. ASSUME NEW n \in Top PROVE \E f \in t : f.path = <<"metadata", n>>
    <2>1. <<n>> \in RegularFiles(nodes, "metadata")
      BY DEF Verifies, Precheck, MetadataTopology
    <2> DEFINE files == {f \in t : f.path[1] = "metadata"}
    <2>6. <<n>> \in {Tail(f.path) : f \in files}
      BY <2>1, FilesBelow
    <2>7. PICK f \in files : Tail(f.path) = <<n>>
      BY <2>6
    <2>2. f \in t /\ f.path[1] = "metadata" /\ Tail(f.path) = <<n>>
      BY <2>7
    <2>3. f.path \in Seq(Component) \ {<<>>}
      BY DEF IsTree
    <2> DEFINE p == f.path
    <2> HIDE DEF p
    <2>4. p = <<p[1], n>>
      BY <2>2, <2>3, Pair DEF p
    <2>5. QED
      BY <2>2, <2>4 DEF p
  <1>2. PICK meta \in t : meta.path = TJ
    BY <1>1 DEF Top
  <1>3. Reads(nodes, "metadata", <<"targets.json">>) = {meta.data}
    <2>1. TJ = <<"metadata">> \o <<"targets.json">>
      OBVIOUS
    <2> DEFINE p == <<"targets.json">>
    <2> HIDE DEF p
    <2>2. meta.path = <<"metadata">> \o p
      BY <1>2, <2>1 DEF p
    <2>3. Reads(Directory(t), "metadata", p) = {meta.data}
      BY <2>2, ReadsOne
    <2>4. QED
      BY <2>3 DEF p
  <1>4. Refresh(nodes, <<>>).cache[1] = meta.data
    BY <1>3 DEF Refresh
  <1>5. PICK s \in Source : meta \in s
    BY DEF Mixture
  <1>6. meta.data = Signed(meta.data.version, TargetsOf(s))
    <2>1. \/ \E n \in Top \ {"targets.json"} : meta = [path |-> <<"metadata", n>>, data |-> Role]
          \/ meta = [path |-> TJ, data |-> Signed(meta.data.version, TargetsOf(s))]
          \/ meta.path[1] = "targets"
      BY <1>5, FileOfSource
    <2>2. CASE \E n \in Top \ {"targets.json"} : meta = [path |-> <<"metadata", n>>, data |-> Role]
      <3>1. PICK n \in Top \ {"targets.json"} : meta = [path |-> <<"metadata", n>>, data |-> Role]
        BY <2>2
      <3>2. meta.path = <<"metadata", n>> /\ n # "targets.json"
        BY <3>1
      <3>3. n = TJ[2]
        BY <1>2, <3>2
      <3>4. QED
        BY <3>2, <3>3
    <2>3. CASE meta = [path |-> TJ, data |-> Signed(meta.data.version, TargetsOf(s))]
      <3> DEFINE d == Signed(meta.data.version, TargetsOf(s))
      <3> HIDE DEF d
      <3>1. meta.data = d
        BY <2>3 DEF d
      <3>2. QED
        BY <3>1 DEF d
    <2>4. CASE meta.path[1] = "targets"
      BY <1>2, <2>4
    <2>5. QED
      BY <2>1, <2>2, <2>3, <2>4
  <1>7. meta.data.targets = {<<x[1], x[2].digest>> : x \in TargetsOf(s)}
    BY <1>6 DEF Signed
  <1> HIDE DEF nodes
  <1>8. PICK m \in Download(nodes, meta.data, Manifest) :
          /\ \E v \in Download(nodes, meta.data, Inventory) : ContractPair(m, v)
          /\ RegularFiles(nodes, "targets") = Control \union {m.artifacts[i].path : i \in DOMAIN m.artifacts}
          /\ \A i \in DOMAIN m.artifacts :
               \E d \in Download(nodes, meta.data, m.artifacts[i].path) : d.digest = m.artifacts[i].digest
    <2>1. VerifiedPack(nodes, meta.data) # {}
      BY <1>4 DEF Verifies, nodes
    <2>2. QED
      BY <2>1 DEF VerifiedPack
  <1> DEFINE Parts == Control \union {m.artifacts[i].path : i \in DOMAIN m.artifacts}
  <1>9. \A p \in Parts : Download(nodes, meta.data, p) # {}
    BY <1>8 DEF Control
  <1>10. {Tail(f.path) : f \in {f \in t : f.path[1] = "targets"}} = Parts
    BY <1>8, FilesBelow DEF nodes
  <1> HIDE DEF Parts
  <1>11. ASSUME NEW f \in t, f.path[1] = "targets"
         PROVE  /\ Tail(f.path) \in Parts /\ f \in s /\ <<Tail(f.path), f.data>> \in TargetsOf(s)
                /\ Reads(nodes, "targets", Tail(f.path)) = {f.data}
    <2>1. PICK u \in Source : f \in u
      BY DEF Mixture
    <2>2. f = [path |-> f.path, data |-> f.data] /\ f.path = <<"targets">> \o Tail(f.path)
          /\ <<Tail(f.path), f.data>> \in TargetsOf(u)
      BY <1>11, <2>1, FileOfSource
    <2> DEFINE p == Tail(f.path)
               d == f.data
    <2>3. p \in Parts
      BY <1>10, <1>11
    <2> HIDE DEF p, d
    <2>4. f.path = <<"targets">> \o p /\ <<p, d>> \in TargetsOf(u)
      BY <2>2 DEF p, d
    <2>5. Reads(nodes, "targets", p) = {d}
      BY <2>4, ReadsOne DEF nodes, d
    <2>6. <<p, d.digest>> \in meta.data.targets
      BY <1>9, <2>3, <2>5 DEF Download
    <2>7. PICK x \in TargetsOf(s) : <<p, d.digest>> = <<x[1], x[2].digest>>
      BY <1>7, <2>6
    <2>8. x[1] = p /\ x[2].digest = d.digest
      BY <2>7
    <2>9. x[2] = d
      <3> DEFINE y == <<p, d>>
      <3>1. y \in TargetsOf(u) /\ y[2] = d
        BY <2>4
      <3> HIDE DEF y
      <3>2. QED
        BY <2>8, <3>1, SourceAssumption
    <2>10. PICK g \in s : g.path[1] = "targets" /\ x = <<Tail(g.path), g.data>>
      BY DEF TargetsOf
    <2>11. Tail(g.path) = p /\ g.data = d
      BY <2>8, <2>9, <2>10
    <2>12. g.path = <<"targets">> \o Tail(g.path) /\ g = [path |-> g.path, data |-> g.data]
      BY <2>10, FileOfSource
    <2>13. g = f
      BY <2>2, <2>4, <2>11, <2>12 DEF d
    <2>14. x = <<p, d>>
      BY <2>10, <2>11
    <2>15. QED
      BY <2>3, <2>5, <2>13, <2>14 DEF p, d
  <1>12. ASSUME NEW f \in t PROVE f \in s
    <2>1. PICK u \in Source : f \in u
      BY DEF Mixture
    <2>2. CASE \E n \in Top \ {"targets.json"} : f = [path |-> <<"metadata", n>>, data |-> Role]
      <3>1. PICK w \in File(s, TJ) : s = Tree(w.data, TargetsOf(s))
        BY SourceAssumption DEF Signable
      <3>2. QED
        BY <2>2, <3>1 DEF Tree
    <2>3. CASE f.path = TJ
      BY <1>2, <1>5, <2>3 DEF Mixture
    <2>4. CASE f.path[1] = "targets"
      BY <1>11, <2>4
    <2>5. QED
      <3>1. \/ \E n \in Top \ {"targets.json"} : f = [path |-> <<"metadata", n>>, data |-> Role]
            \/ f = [path |-> TJ, data |-> Signed(f.data.version, TargetsOf(u))]
            \/ f.path[1] = "targets"
        BY <2>1, FileOfSource
      <3>2. CASE f = [path |-> TJ, data |-> Signed(f.data.version, TargetsOf(u))]
        <4>1. f.path = TJ
          BY <3>2
        <4>2. QED
          BY <2>3, <4>1
      <3>3. QED
        BY <2>2, <2>4, <3>1, <3>2
  <1>13. <<Manifest, m>> \in TargetsOf(s)
    <2>1. Manifest \in Parts
      BY DEF Parts, Control
    <2>2. PICK f \in t : f.path[1] = "targets" /\ Tail(f.path) = Manifest
      BY <1>10, <2>1
    <2>3. m \in Reads(nodes, "targets", Manifest)
      BY DEF Download
    <2>4. m = f.data
      BY <1>11, <2>2, <2>3
    <2>5. QED
      BY <1>11, <2>2, <2>4
  <1>14. ASSUME NEW g \in s PROVE \E f \in t : f.path = g.path
    <2>1. CASE \E n \in Top : g.path = <<"metadata", n>>
      BY <1>1, <2>1
    <2>2. CASE /\ g.path[1] = "targets" /\ g.path = <<"targets">> \o Tail(g.path)
               /\ <<Tail(g.path), g.data>> \in TargetsOf(s)
      <3> DEFINE y == <<Tail(g.path), g.data>>
      <3>1. y \in TargetsOf(s) /\ y[1] = Tail(g.path)
        BY <2>2
      <3> HIDE DEF y
      <3>2. Tail(g.path) \in {z[1] : z \in TargetsOf(s)}
        BY <3>1
      <3>3. Tail(g.path) \in Parts
        BY <1>13, <3>2, SignedPaths DEF Parts
      <3>4. PICK f \in t : f.path[1] = "targets" /\ Tail(f.path) = Tail(g.path)
        BY <1>10, <3>3
      <3>5. f \in s
        BY <1>11, <3>4
      <3>6. f.path = <<"targets">> \o Tail(f.path)
        <4>1. f \in s /\ f.path \in Seq(Component) \ {<<>>}
          BY <3>5, FileOfSource
        <4> DEFINE p == f.path
        <4> HIDE DEF p
        <4>2. p = <<p[1]>> \o Tail(p)
          BY <4>1, HeadTail DEF p
        <4>3. QED
          BY <3>4, <4>2 DEF p
      <3>7. QED
        BY <2>2, <3>4, <3>6
    <2>3. QED
      <3>1. \/ \E n \in Top \ {"targets.json"} : g = [path |-> <<"metadata", n>>, data |-> Role]
            \/ g = [path |-> TJ, data |-> Signed(g.data.version, TargetsOf(s))]
            \/ /\ g.path[1] = "targets" /\ g.path = <<"targets">> \o Tail(g.path)
               /\ <<Tail(g.path), g.data>> \in TargetsOf(s)
        BY FileOfSource
      <3>2. "targets.json" \in Top
        BY DEF Top
      <3>3. CASE \E n \in Top \ {"targets.json"} : g = [path |-> <<"metadata", n>>, data |-> Role]
        BY <2>1, <3>3
      <3>4. CASE g = [path |-> TJ, data |-> Signed(g.data.version, TargetsOf(s))]
        <4>1. g.path = TJ
          BY <3>4
        <4>2. QED
          BY <2>1, <3>2, <4>1
      <3>5. QED
        BY <2>2, <3>1, <3>3, <3>4
  <1>15. ASSUME NEW g \in s PROVE g \in t
    <2>1. PICK f \in t : f.path = g.path
      BY <1>14
    <2>2. f \in s
      BY <1>12
    <2>3. QED
      BY <2>1, <2>2, OnePath
  <1>16. t = s
    BY <1>12, <1>15
  <1>17. QED
    BY <1>16

\* What is read by an exact name is read where names are folded too.
LEMMA ReadsAgree ==
  ASSUME NEW t, IsTree(TRUE, t), NEW space, NEW p, Reads(Directory(t), space, p) # {}
  PROVE  Folding!Reads(Directory(t), space, p) = Reads(Directory(t), space, p)
  <1> DEFINE q == <<space>> \o p
             nodes == Directory(t)
  <1>1. PICK n \in Found(nodes, q) : n.data # <<>>
    BY DEF Reads
  <1> HIDE DEF q
  <1>2. n \in nodes /\ SameIn(TRUE, n.path, q)
    BY DEF Found, Same, SameIn
  <1>3. \A m \in nodes : SameIn(TRUE, m.path, q) => m = n
    BY <1>2 DEF IsTree, SameIn
  <1>4. Found(nodes, q) = {n}
    BY <1>1, <1>3 DEF Found, Same, SameIn
  <1>5. Folding!Found(nodes, q) = {n}
    BY <1>2, <1>3 DEF Folding!Found, Folding!Same, Folding!Folded, SameIn, Folded
  <1>6. QED
    BY <1>4, <1>5 DEF Reads, Folding!Reads, q

LEMMA DownloadsAgree ==
  ASSUME NEW t, IsTree(TRUE, t), NEW c, NEW p, Download(Directory(t), c, p) # {}
  PROVE  Folding!Download(Directory(t), c, p) = Download(Directory(t), c, p)
  <1>1. Reads(Directory(t), "targets", p) # {}
    BY DEF Download
  <1>2. Folding!Reads(Directory(t), "targets", p) = Reads(Directory(t), "targets", p)
    BY <1>1, ReadsAgree
  <1>3. QED
    BY <1>2 DEF Download, Folding!Download

LEMMA ContractsAgree ==
  ASSUME NEW m
  PROVE  /\ \A v : ContractPair(m, v) => Folding!ContractPair(m, v)
         /\ Folding!ArtifactBindings(m) <=> ArtifactBindings(m)
         /\ \A k : Folding!OfKind(m, k) = OfKind(m, k)
         /\ \A c : Folding!CanonicalJsonl(c) <=> CanonicalJsonl(c)
  <1>1. ValidManifest(m) => Folding!ValidManifest(m)
    BY DEF ValidManifest, Folding!ValidManifest, TargetPath, Folding!TargetPath, Folded, Folding!Folded,
           Last, Folding!Last
  <1>2. \A v : ValidInventory(v) => Folding!ValidInventory(v)
    BY DEF ValidInventory, Folding!ValidInventory
  <1>3. \A v : ContractPair(m, v) => Folding!ContractPair(m, v)
    BY <1>1, <1>2 DEF ContractPair, Folding!ContractPair
  <1>4. \A k : Folding!OfKind(m, k) = OfKind(m, k)
    BY DEF OfKind, Folding!OfKind
  <1>5. Folding!ArtifactBindings(m) <=> ArtifactBindings(m)
    <2>1. \A S : Folding!Cardinality(S) = Cardinality(S)
      BY DEF Cardinality, Folding!Cardinality
    <2>2. QED
      BY <1>4, <2>1 DEF ArtifactBindings, Folding!ArtifactBindings
  <1>6. \A c : Folding!CanonicalJsonl(c) <=> CanonicalJsonl(c)
    BY DEF CanonicalJsonl, Folding!CanonicalJsonl
  <1>7. QED
    BY <1>3, <1>4, <1>5, <1>6

LEMMA VerifiedAgree ==
  ASSUME NEW t, IsTree(TRUE, t), NEW c, VerifiedPack(Directory(t), c) # {}
  PROVE  Folding!VerifiedPack(Directory(t), c) # {}
  <1> DEFINE nodes == Directory(t)
             got(p) == Download(nodes, c, p)
             kept(p) == Folding!Download(nodes, c, p)
  <1>1. PICK m \in got(Manifest) :
          /\ \E v \in got(Inventory) : ContractPair(m, v)
          /\ m.runtime <= CurrentRuntime
          /\ RegularFiles(nodes, "targets") = Control \union {m.artifacts[i].path : i \in DOMAIN m.artifacts}
          /\ \A i \in DOMAIN m.artifacts : \E d \in got(m.artifacts[i].path) : d.digest = m.artifacts[i].digest
          /\ ArtifactBindings(m)
          /\ \A x \in Artifacts(nodes, c, m, "canonical-records") : CanonicalJsonl(x)
          /\ \A x \in Artifacts(nodes, c, m, "spc") : x.kind = "spc" /\ x.valid
    BY DEF VerifiedPack
  <1>2. \A p : got(p) # {} => kept(p) = got(p)
    BY DownloadsAgree
  <1> HIDE DEF nodes
  <1>3. ASSUME NEW k PROVE Folding!Artifacts(nodes, c, m, k) = Artifacts(nodes, c, m, k)
    <2>1. \A i \in OfKind(m, k) : kept(m.artifacts[i].path) = got(m.artifacts[i].path)
      BY <1>1, <1>2 DEF OfKind
    <2>2. Folding!OfKind(m, k) = OfKind(m, k)
      BY ContractsAgree
    <2> DEFINE only(i) == {d \in got(m.artifacts[i].path) : d.digest = m.artifacts[i].digest}
               same(i) == {d \in kept(m.artifacts[i].path) : d.digest = m.artifacts[i].digest}
               I == OfKind(m, k)
    <2>3. \A i \in I : same(i) = only(i)
      BY <2>1
    <2>4. Artifacts(nodes, c, m, k) = UNION {only(i) : i \in I}
      BY DEF Artifacts
    <2>5. Folding!Artifacts(nodes, c, m, k) = UNION {same(i) : i \in I}
      BY <2>2 DEF Folding!Artifacts
    <2> HIDE DEF only, same, I
    <2>6. UNION {same(i) : i \in I} = UNION {only(i) : i \in I}
      BY <2>3
    <2>7. QED
      BY <2>4, <2>5, <2>6
  <1>4. Folding!RegularFiles(nodes, "targets") = RegularFiles(nodes, "targets")
    BY DEF RegularFiles, Folding!RegularFiles
  <1>5. Folding!Control = Control /\ Folding!Manifest = Manifest /\ Folding!Inventory = Inventory
    BY DEF Control, Folding!Control, Manifest, Folding!Manifest, Inventory, Folding!Inventory
  <1>6. m \in kept(Manifest) /\ kept(Inventory) = got(Inventory)
        /\ \A i \in DOMAIN m.artifacts : kept(m.artifacts[i].path) = got(m.artifacts[i].path)
    BY <1>1, <1>2
  <1> HIDE DEF got, kept
  <1>7. /\ m \in kept(Manifest)
        /\ \E v \in kept(Inventory) : Folding!ContractPair(m, v)
        /\ m.runtime <= CurrentRuntime
        /\ Folding!RegularFiles(nodes, "targets")
             = Folding!Control \union {m.artifacts[i].path : i \in DOMAIN m.artifacts}
        /\ \A i \in DOMAIN m.artifacts : \E d \in kept(m.artifacts[i].path) : d.digest = m.artifacts[i].digest
        /\ Folding!ArtifactBindings(m)
        /\ \A x \in Folding!Artifacts(nodes, c, m, "canonical-records") : Folding!CanonicalJsonl(x)
        /\ \A x \in Folding!Artifacts(nodes, c, m, "spc") : x.kind = "spc" /\ x.valid
    <2>1. \E v \in kept(Inventory) : Folding!ContractPair(m, v)
      BY <1>1, <1>6, ContractsAgree
    <2>2. \A i \in DOMAIN m.artifacts : \E d \in kept(m.artifacts[i].path) : d.digest = m.artifacts[i].digest
      BY <1>1, <1>6
    <2>3. Folding!ArtifactBindings(m)
      BY <1>1, ContractsAgree
    <2>4. \A x \in Folding!Artifacts(nodes, c, m, "canonical-records") : Folding!CanonicalJsonl(x)
      BY <1>1, <1>3, ContractsAgree
    <2>5. \A x \in Folding!Artifacts(nodes, c, m, "spc") : x.kind = "spc" /\ x.valid
      BY <1>1, <1>3
    <2>6. QED
      BY <1>1, <1>4, <1>5, <1>6, <2>1, <2>2, <2>3, <2>4, <2>5
  <1>8. QED
    <2> DEFINE good ==
          {x \in Folding!Download(nodes, c, Folding!Manifest) :
            /\ \E v \in Folding!Download(nodes, c, Folding!Inventory) : Folding!ContractPair(x, v)
            /\ x.runtime <= CurrentRuntime
            /\ Folding!RegularFiles(nodes, "targets")
                 = Folding!Control \union {x.artifacts[i].path : i \in DOMAIN x.artifacts}
            /\ \A i \in DOMAIN x.artifacts :
                 \E d \in Folding!Download(nodes, c, x.artifacts[i].path) : d.digest = x.artifacts[i].digest
            /\ Folding!ArtifactBindings(x)
            /\ \A y \in Folding!Artifacts(nodes, c, x, "canonical-records") : Folding!CanonicalJsonl(y)
            /\ \A y \in Folding!Artifacts(nodes, c, x, "spc") : y.kind = "spc" /\ y.valid}
               pack(x) == [id |-> x.id, version |-> x.version, digest |-> x.digest, spc |-> x.spc,
                           index |-> Folding!IndexOf(x, Folding!Artifacts(nodes, c, x, "search-index"))]
    <2>1. Folding!VerifiedPack(nodes, c) = {pack(x) : x \in good}
      BY DEF Folding!VerifiedPack
    <2>2. m \in good
      BY <1>5, <1>7 DEF kept
    <2> HIDE DEF good, pack
    <2>3. QED
      BY <2>1, <2>2 DEF nodes

Passing(t) == LET x == Extract(Entries(t)) IN x.ok /\ Verifies(x.nodes)

\* However the source was exchanged while it was read, what was read is a mixture.
LEMMA ReadIsMixture ==
  ASSUME NEW u \in Source, source = u, NEW v \in Source, NEW s \in Source, Lists(listed, Paths(s)),
         NEW n \in DOMAIN listed
  PROVE  Mixture(Read(n, v))
  <1> DEFINE from(i) == IF i <= n THEN source ELSE v
             got == Read(n, v)
  <1>1. DOMAIN listed = 1..Len(listed) /\ Len(listed) \in Nat /\ \A i \in 1..Len(listed) : listed[i] \in Paths(s)
    BY LenProperties, ElementOfSeq DEF Lists
  <1>2. ASSUME NEW f \in got
        PROVE  \E i \in 1..Len(listed) : f \in from(i) /\ f.path = listed[i] /\ from(i) \in Source
    BY <1>1 DEF Read, File
  <1> HIDE DEF from, got
  <1>3. \A f \in got : \E w \in Source : f \in w
    BY <1>2
  <1>4. Paths(got) \subseteq Paths(s)
    <2> SUFFICES ASSUME NEW f \in got PROVE f.path \in Paths(s)
      BY DEF Paths
    <2>1. QED
      BY <1>1, <1>2
  <1>5. ASSUME NEW f \in got, NEW g \in got, f.path = g.path PROVE f = g
    <2>1. PICK i \in 1..Len(listed) : f \in from(i) /\ f.path = listed[i] /\ from(i) \in Source
      BY <1>2
    <2>2. PICK j \in 1..Len(listed) : g \in from(j) /\ g.path = listed[j] /\ from(j) \in Source
      BY <1>2
    <2>3. i = j
      BY <1>5, <2>1, <2>2 DEF Lists
    <2>4. f \in from(i) /\ g \in from(i) /\ from(i) \in Source
      BY <2>1, <2>2, <2>3
    <2>5. QED
      BY <1>5, <2>4, OnePath
  <1>6. QED
    BY <1>3, <1>4, <1>5 DEF Mixture, got

LEMMA Unpacks ==
  ASSUME NEW t, Mixture(t), Preflight(Entries(t))
  PROVE  IsTree(CaseInsensitive, t) /\ Extract(Entries(t)) = Unpacked(t)
  <1>1. PICK s \in Source : Paths(t) \subseteq Paths(s)
    BY DEF Mixture
  <1>2. IsTree(CaseInsensitive, s)
    BY SourceIsTree
  <1>3. IsTree(CaseInsensitive, t)
    BY <1>1, <1>2, MixtureIsTree DEF IsTree
  <1>4. IsFiniteSet(t)
    BY MixtureIsFinite
  <1>5. ExtractIn(CaseInsensitive, Entries(t)) = Unpacked(t)
    BY <1>3, <1>4, ExtractMade
  <1>6. QED
    BY <1>3, <1>5, ExtractPlain

LEMMA FoldedTree ==
  ASSUME NEW t, IsTree(CaseInsensitive, t), ~NamesCollide(t)
  PROVE  IsTree(TRUE, t)
  <1> SUFFICES ASSUME NEW m \in Directory(t), NEW n \in Directory(t), SameIn(TRUE, m.path, n.path) PROVE m = n
    BY DEF IsTree
  <1>1. m.path = n.path
    <2> DEFINE paths == {k.path : k \in Directory(t)}
    <2>1. \A p, q \in paths : Folded(p) = Folded(q) => p = q
      BY DEF NamesCollide
    <2>2. QED
      BY <2>1 DEF SameIn
  <1>2. SameIn(CaseInsensitive, m.path, n.path)
    BY <1>1, SameReflexive
  <1>3. QED
    BY <1>2 DEF IsTree

\* A mixture that passes is a state of the source and installs everywhere.
LEMMA AcceptedInstalls ==
  ASSUME NEW t, Mixture(t), Passing(t)
  PROVE  t \in Source /\ Installs[t] /\ (~NamesCollide(t) => InstallsFolded[t]) /\ Faithful(t)
  <1> DEFINE nodes == Directory(t)
             c == Refresh(nodes, <<>>).cache[1]
  <1>1. Preflight(Entries(t))
    <2>1. ~Preflight(Entries(t)) => Extract(Entries(t)) = [ok |-> FALSE, nodes |-> {}]
      BY DEF Extract
    <2>2. QED
      BY <2>1 DEF Passing
  <1>2. IsTree(CaseInsensitive, t) /\ Extract(Entries(t)) = [ok |-> TRUE, nodes |-> nodes]
    BY <1>1, Unpacks DEF Unpacked
  <1>3. Verifies(nodes)
    BY <1>2 DEF Passing
  <1>4. t \in Source
    BY <1>2, <1>3, VerifiedIsSource
  <1>5. Installs[t]
    BY <1>4 DEF Installs, Passing
  <1>6. ASSUME ~NamesCollide(t) PROVE InstallsFolded[t]
    <2>1. IsTree(TRUE, t)
      BY <1>2, <1>6, FoldedTree
    <2>2. IsFiniteSet(t)
      BY MixtureIsFinite
    <2>3. ExtractIn(TRUE, Entries(t)) = Unpacked(t)
      BY <1>1, <2>1, <2>2, ExtractMade
    <2>4. Folding!Extract(Entries(t)) = [ok |-> TRUE, nodes |-> nodes]
      BY <2>3, ExtractFolding DEF Unpacked
    <2>5. Folding!Precheck(nodes)
      BY <1>3 DEF Verifies, Precheck, Folding!Precheck, MetadataTopology, Folding!MetadataTopology,
                  RegularFiles, Folding!RegularFiles, Top, Folding!Top, Rotated, Folding!Rotated
    <2> DEFINE p == <<"targets.json">>
    <2> HIDE DEF p
    <2>6. Reads(nodes, "metadata", p) # {}
      BY <1>3 DEF Verifies, Refresh, p
    <2>7. Folding!Reads(nodes, "metadata", p) = Reads(nodes, "metadata", p)
      BY <2>1, <2>6, ReadsAgree
    <2>8. Folding!Refresh(nodes, <<>>).cache[1] = c
      BY <2>7 DEF Refresh, Folding!Refresh, p
    <2>9. VerifiedPack(nodes, c) # {}
      BY <1>3 DEF Verifies
    <2> HIDE DEF c
    <2>10. Folding!VerifiedPack(nodes, c) # {}
      BY <2>1, <2>9, VerifiedAgree
    <2> DEFINE x == Folding!Extract(Entries(t))
    <2> HIDE DEF nodes
    <2>11. x.ok /\ x.nodes = nodes
      BY <2>4
    <2> HIDE DEF x
    <2>12. /\ x.ok /\ Folding!Precheck(x.nodes)
           /\ Folding!VerifiedPack(x.nodes, Folding!Refresh(x.nodes, <<>>).cache[1]) # {}
      BY <2>5, <2>8, <2>10, <2>11
    <2>13. QED
      BY <1>4, <2>12 DEF InstallsFolded, x
  <1>7. Faithful(t)
    BY <1>4, SourceAssumption DEF Signable
  <1>8. QED
    BY <1>4, <1>5, <1>6, <1>7

\* What the builder has listed, read, verified and published.
BuildInv ==
  /\ source \in Source
  /\ step \in {"verify", "zip"} => \E s \in Source : Lists(listed, Paths(s))
  /\ step \in {"roundtrip", "publish"} => Mixture(temp)
  /\ step = "publish" => Passing(temp)
  /\ out # {} => Mixture(out) /\ Passing(out)

LEMMA PathsListed == ASSUME NEW s \in Source PROVE Lists(Listing(Paths(s)), Paths(s))
  <1> DEFINE name == [f \in s |-> f.path]
  <1>1. IsFiniteSet(s)
    BY SourceAssumption DEF Signable
  <1>2. name \in Surjection(s, Paths(s))
    BY DEF Surjection, Paths
  <1>3. IsFiniteSet(Paths(s))
    BY <1>1, <1>2, FS_Surjection
  <1>4. QED
    BY <1>3, Listed

LEMMA BuildStep == BuildInv /\ [BuildNext]_building => BuildInv'
  <1> SUFFICES ASSUME BuildInv, [BuildNext]_building PROVE BuildInv'
    OBVIOUS
  <1>1. CASE SourceFiles
    BY <1>1, PathsListed DEF SourceFiles, BuildInv
  <1>2. CASE VerifySource
    BY <1>2 DEF VerifySource, BuildInv, Fail
  <1>3. CASE WriteZip
    <2>1. PICK n \in DOMAIN listed, v \in Source :
            /\ source' = v
            /\ \/ temp' = Read(n, v) /\ step' = "roundtrip"
               \/ Fail
      BY <1>3 DEF WriteZip
    <2>2. PICK s \in Source : Lists(listed, Paths(s))
      BY <1>3 DEF WriteZip, BuildInv
    <2>3. Mixture(Read(n, v))
      BY <2>2, ReadIsMixture DEF BuildInv
    <2>4. out' = out
      BY <1>3 DEF WriteZip
    <2>5. QED
      BY <2>1, <2>3, <2>4 DEF BuildInv, Fail
  <1>4. CASE Roundtrip
    BY <1>4 DEF Roundtrip, BuildInv, Fail, Passing
  <1>5. CASE Publish
    BY <1>5 DEF Publish, BuildInv, Fail
  <1>6. CASE KillBuilder
    BY <1>6 DEF KillBuilder, BuildInv, Fail
  <1>7. CASE ExchangeSource
    BY <1>7 DEF ExchangeSource, BuildInv
  <1>8. CASE UNCHANGED building
    BY <1>8 DEF building, BuildInv
  <1>9. QED
    BY <1>1, <1>2, <1>3, <1>4, <1>5, <1>6, <1>7, <1>8 DEF BuildNext

\* What is published is one state of the source, never a mixture of two, and
\* installs on a fresh root, also where names are folded; and every event of it
\* is found as its record has it (build_verified_atlaspack).
THEOREM PublishedIsInstallable == BuildSpec => []PublishedInstalls
  <1>1. BuildInit => BuildInv
    BY DEF BuildInit, BuildInv
  <1>2. BuildInv => PublishedInstalls
    <2> SUFFICES ASSUME BuildInv PROVE PublishedInstalls
      OBVIOUS
    <2>1. CASE out = {}
      BY <2>1 DEF PublishedInstalls, Installable, Faithful, RecordsOf
    <2>2. CASE out # {}
      BY <2>2, AcceptedInstalls DEF PublishedInstalls, Installable, BuildInv
    <2>3. QED
      BY <2>1, <2>2
  <1>3. QED
    BY <1>1, <1>2, BuildStep, PTL DEF BuildSpec

-----------------------------------------------------------------------------
(***************************************************************************)
(* The directory that the release signs.                                   *)
(***************************************************************************)

\* The events that the items of a blueprint stand for (build_records).
Events(items) ==
  FoldLeft(LAMBDA rs, item : {r \in rs : r.id # item.id} \union {event_entity(item)}, {}, items)

\* Of each identifier there is one event, and it is that of an item.
LEMMA EventsOfItems ==
  ASSUME NEW items, items \in Seq(ToSet(items))
  PROVE  /\ Events(items) \subseteq {event_entity(i) : i \in ToSet(items)}
         /\ \A r, s \in Events(items) : r.id = s.id => r = s
  <1> DEFINE n == Len(items)
             D == DOMAIN items
             E == {event_entity(i) : i \in ToSet(items)}
             Over(rs, item) == {r \in rs : r.id # item.id} \union {event_entity(item)}
             pick == [S \in SUBSET D |-> Max(S)]
             op == [x \in D |-> [a \in SUBSET E |-> Over(a, items[x])]]
             F(f) == [S \in SUBSET D |-> IF S = {} THEN {} ELSE LET x == Max(S) IN Over(f[S \ {x}], items[x])]
             iter == CHOOSE f : f = F(f)
             Good == {S \in SUBSET D : iter[S] \subseteq E /\ \A r, s \in iter[S] : r.id = s.id => r = s}
  <1>1. Events(items) = iter[D]
    BY DEF Events, FoldLeft, MapThenFoldSet
  <1>2. n \in Nat /\ D = 1..n /\ IsFiniteSet(D) /\ \A x \in D : items[x] \in ToSet(items)
    BY LenProperties, FS_Interval DEF ToSet
  <1>3. \A S \in SUBSET D : S # {} => Max(S) \in S /\ pick[S] = Max(S)
    BY <1>2, Greatest
  <1>4. ASSUME NEW x \in D, NEW a \in SUBSET E
        PROVE  op[x][a] \in SUBSET E /\ op[x][a] = Over(a, items[x])
    <2>1. op[x][a] = Over(a, items[x])
      OBVIOUS
    <2>2. event_entity(items[x]) \in E
      BY <1>2
    <2>3. QED
      BY <2>1, <2>2
  <1> HIDE DEF D, pick, op, E
  <1>5. PICK f \in [SUBSET D -> SUBSET E] : TakesAway(f, D, {}, pick, op)
    <2>1. Chooses(pick, D)
      BY <1>3 DEF Chooses
    <2>2. Closed(op, D, SUBSET E)
      BY <1>4 DEF Closed
    <2>3. {} \in SUBSET E
      OBVIOUS
    <2>4. QED
      BY <1>2, <2>1, <2>2, <2>3, SetRecursion, Zenon
  <1> HIDE DEF Over
  <1>6. f = F(f)
    <2>1. ASSUME NEW S \in SUBSET D, S # {}
          PROVE  op[pick[S]][f[S \ {pick[S]}]] = LET x == Max(S) IN Over(f[S \ {x}], items[x])
      <3>1. Max(S) \in D /\ f[S \ {Max(S)}] \in SUBSET E
        BY <1>3, <1>5, <2>1
      <3>2. QED
        BY <1>3, <1>4, <2>1, <3>1
    <2>2. QED
      BY <1>5, <2>1 DEF TakesAway
  <1>7. iter = F(iter)
    BY <1>6
  <1> HIDE DEF iter
  <1>8. iter[{}] = {}
    BY <1>7
  <1>9. ASSUME NEW S \in SUBSET D, S # {} PROVE \E x \in S : S \ {x} \in Good => S \in Good
    <2> DEFINE x == Max(S)
               R == S \ {x}
               item == items[x]
    <2>1. x \in S /\ x \in D
      BY <1>3, <1>9
    <2>2. iter[S] = Over(iter[R], item)
      BY <1>7, <1>9
    <2>3. item \in ToSet(items)
      BY <1>2, <2>1
    <2> HIDE DEF x, R, item
    <2>4. ASSUME iter[R] \subseteq E, \A r, s \in iter[R] : r.id = s.id => r = s
          PROVE  iter[S] \subseteq E /\ \A r, s \in iter[S] : r.id = s.id => r = s
      <3>1. event_entity(item).id = item.id /\ event_entity(item) \in E
        BY <2>3 DEF event_entity, Record, E
      <3>2. QED
        BY <2>2, <2>4, <3>1 DEF Over
    <2>5. QED
      BY <2>1, <2>4 DEF R
  <1>10. {} \in Good
    BY <1>8
  <1> HIDE DEF Good
  <1>11. D \in Good
    BY <1>2, <1>9, <1>10, RemovalInduction
  <1>12. QED
    BY <1>1, <1>11 DEF Good, E

\* What the release reads: finite sets of fixtures and of sources, items with
\* numbers for their texts, and a catalog with one document for an identifier.
Readable(fixtures, blueprint, corpus) ==
  /\ IsFiniteSet(fixtures) /\ \A r \in fixtures : r.text \in Nat
  /\ IsFiniteSet(blueprint.sources) /\ \A s \in blueprint.sources : s.kind = "source"
  /\ blueprint.items \in Seq(ToSet(blueprint.items))
  /\ \A i \in ToSet(blueprint.items) : i.overview \in Nat
  /\ \A c, d \in corpus : c.id = d.id => c = d

LEMMA RecordsOfPreview ==
  ASSUME NEW fixtures, NEW blueprint, NEW corpus, Readable(fixtures, blueprint, corpus),
         NEW records, records = load_canonical_records(fixtures, blueprint), records # {}
  PROVE  /\ IsFiniteSet(records)
         /\ \A r, s \in records : r.kind = "event" /\ s.kind = "event" /\ r.id = s.id => r = s
         /\ \A c \in records : c.kind = "claim" => c.text \in Nat
  <1> DEFINE items == blueprint.items
             I == ToSet(items)
             claims == UNION {event_claims(i) : i \in I}
             exemplars == build_records(blueprint)
             kept == {r \in fixtures : r.id \notin {e.id : e \in exemplars}}
  <1>1. /\ exemplars # {} /\ records = kept \union exemplars
        /\ \A r, s \in fixtures : r.id = s.id => r = s
    BY DEF load_canonical_records
  <1>2. exemplars = blueprint.sources \union Events(items) \union claims
    BY <1>1 DEF build_records, Events
  <1>3. \A r \in claims : r.kind = "claim" /\ r.text \in Nat
    <2> SUFFICES ASSUME NEW i \in I, NEW r \in event_claims(i) PROVE r.kind = "claim" /\ r.text \in Nat
      OBVIOUS
    <2>1. r = claim(i.id, i.overview) /\ i.overview \in Nat
      BY DEF event_claims, Readable
    <2>2. QED
      BY <2>1 DEF claim, Record
  <1>4. \A r \in blueprint.sources : r.kind = "source"
    BY DEF Readable
  <1>5. \A r \in Events(items) : r.kind = "event"
    BY EventsOfItems DEF event_entity, Record, Readable
  <1>6. \A r, s \in Events(items) : r.id = s.id => r = s
    BY EventsOfItems DEF Readable
  <1>7. IsFiniteSet(I)
    <2>1. items \in Seq(I) /\ DOMAIN items = 1..Len(items) /\ Len(items) \in Nat
      BY LenProperties DEF Readable
    <2>2. IsFiniteSet(DOMAIN items)
      BY <2>1, FS_Interval
    <2>3. items \in Surjection(DOMAIN items, I)
      BY <2>1 DEF Surjection, ToSet
    <2>4. QED
      BY <2>2, <2>3, FS_Surjection
  <1>8. IsFiniteSet(Events(items))
    <2> DEFINE E == {event_entity(i) : i \in I}
               f == [i \in I |-> event_entity(i)]
    <2>1. f \in Surjection(I, E)
      BY DEF Surjection
    <2>2. IsFiniteSet(E)
      BY <1>7, <2>1, FS_Surjection
    <2>3. QED
      BY <2>2, EventsOfItems, FS_Subset DEF Readable
  <1>9. IsFiniteSet(claims)
    <2> DEFINE f == [i \in I |-> claim(i.id, i.overview)]
    <2>1. claims = {claim(i.id, i.overview) : i \in I}
      BY DEF event_claims
    <2>2. f \in Surjection(I, claims)
      BY <2>1 DEF Surjection
    <2>3. QED
      BY <1>7, <2>2, FS_Surjection
  <1>10. IsFiniteSet(kept) /\ IsFiniteSet(blueprint.sources)
    BY FS_Subset DEF Readable
  <1> HIDE DEF claims, exemplars, items, I
  <1>11. IsFiniteSet(records)
    <2>1. IsFiniteSet(blueprint.sources \union Events(items))
      BY <1>8, <1>10, FS_Union
    <2>2. IsFiniteSet(exemplars)
      BY <1>2, <1>9, <2>1, FS_Union
    <2> HIDE DEF kept
    <2>3. records = kept \union exemplars
      BY <1>1
    <2>4. IsFiniteSet(kept \union exemplars)
      BY <1>10, <2>2, FS_Union
    <2>5. QED
      BY <2>3, <2>4
  <1>12. ASSUME NEW r \in exemplars, r.kind = "event" PROVE r \in Events(items)
    BY <1>2, <1>3, <1>4, <1>12
  <1>13. ASSUME NEW r \in records, NEW s \in records, r.kind = "event", s.kind = "event", r.id = s.id PROVE r = s
    <2>1. CASE r \in exemplars /\ s \in exemplars
      BY <1>6, <1>12, <1>13, <2>1
    <2>2. CASE r \in kept /\ s \in kept
      BY <1>1, <1>13, <2>2
    <2>3. CASE (r \in kept /\ s \in exemplars) \/ (r \in exemplars /\ s \in kept)
      <3>1. \A u \in kept, v \in exemplars : u.id # v.id
        OBVIOUS
      <3> HIDE DEF kept
      <3>2. QED
        BY <1>13, <2>3, <3>1
    <2> HIDE DEF kept
    <2>4. records = kept \union exemplars
      BY <1>1
    <2>5. (r \in kept \/ r \in exemplars) /\ (s \in kept \/ s \in exemplars)
      BY <2>4
    <2>6. QED
      BY <2>1, <2>2, <2>3, <2>5
  <1>14. ASSUME NEW c \in records, c.kind = "claim" PROVE c.text \in Nat
    <2>1. CASE c \in kept
      BY <2>1 DEF Readable
    <2>2. CASE c \in exemplars
      BY <1>2, <1>3, <1>4, <1>5, <1>14, <2>2
    <2>3. QED
      BY <1>1, <2>1, <2>2
  <1>15. QED
    BY <1>11, <1>13, <1>14

LEMMA OneOfOne ==
  ASSUME NEW S, IsFiniteSet(S), Cardinality(S) = 1
  PROVE  \E x : S = {x}
  <1>1. S # {}
    BY FS_EmptySet
  <1>2. PICK x : x \in S
    BY <1>1
  <1>3. Cardinality(S \ {x}) = 0 /\ IsFiniteSet(S \ {x})
    BY <1>2, FS_RemoveElement
  <1>4. S \ {x} = {}
    BY <1>3, FS_EmptySet
  <1>5. QED
    BY <1>2, <1>4

\* Every event has the one document, which is its own if it is an exemplar.
LEMMA ProjectedOnce ==
  ASSUME NEW corpus, \A c, d \in corpus : c.id = d.id => c = d,
         NEW records, \A r, s \in records : r.kind = "event" /\ s.kind = "event" /\ r.id = s.id => r = s,
         NEW r \in records, r.kind = "event"
  PROVE  \E x : /\ {d \in Projection(corpus, records) : d.id = r.id} = {x}
                /\ r.exemplar => x = Projected(r, records)
  <1> DEFINE events == {s \in records : s.kind = "event" /\ (s.exemplar \/ s.id \notin {d.id : d \in corpus})}
             others == {d \in corpus : d.id \notin {s.id : s \in events}}
             found  == {d \in Projection(corpus, records) : d.id = r.id}
  <1>1. Projection(corpus, records) = others \union {Projected(s, records) : s \in events}
    BY DEF Projection
  <1>2. \A s : Projected(s, records).id = s.id
    BY DEF Projected
  <1>3. CASE r \in events
    <2>1. Projected(r, records) \in found
      BY <1>1, <1>2, <1>3
    <2>2. ASSUME NEW d \in found PROVE d = Projected(r, records)
      <3>1. d \notin others
        BY <1>3, <2>2
      <3> HIDE DEF others
      <3>2. PICK s \in events : d = Projected(s, records)
        BY <1>1, <2>2, <3>1
      <3>3. s.id = r.id
        BY <1>2, <2>2, <3>2
      <3>4. s = r
        BY <3>3
      <3>5. QED
        BY <3>2, <3>4
    <2> HIDE DEF found
    <2>3. found = {Projected(r, records)}
      BY <2>1, <2>2
    <2>4. QED
      BY <2>3 DEF found
  <1>4. CASE r \notin events
    <2>1. ~r.exemplar /\ \E d \in corpus : d.id = r.id
      BY <1>4
    <2>2. PICK x \in corpus : x.id = r.id
      BY <2>1
    <2>3. \A s \in events : s.id # r.id
      BY <1>4
    <2>4. x \in found
      BY <1>1, <2>2, <2>3
    <2>5. ASSUME NEW d \in found PROVE d = x
      <3>1. d.id = r.id /\ d \in Projection(corpus, records)
        OBVIOUS
      <3>2. \A s \in events : d # Projected(s, records)
        BY <1>2, <2>3, <3>1
      <3>3. d \in corpus
        BY <1>1, <3>1, <3>2
      <3>4. QED
        BY <2>2, <3>1, <3>3
    <2> HIDE DEF found
    <2>6. found = {x}
      BY <2>4, <2>5
    <2>7. QED
      BY <2>1, <2>6 DEF found
  <1>5. QED
    BY <1>3, <1>4

LEMMA ProjectedText ==
  ASSUME NEW records, NEW r, NEW c, c.text \in Nat,
         {s \in records : s.kind = "claim" /\ s.subject = r.id} = {c}
  PROVE  Projected(r, records).title = r.title /\ Projected(r, records).description = c.text
  <1> DEFINE texts == {s.text : s \in {s \in records : s.kind = "claim" /\ s.subject = r.id}}
             best == IF texts = {} THEN 0 ELSE CHOOSE t \in texts : \A u \in texts : u <= t
  <1>1. Projected(r, records) = [id |-> r.id, title |-> r.title, description |-> best]
    BY DEF Projected
  <1>2. texts = {c.text}
    OBVIOUS
  <1> HIDE DEF texts
  <1>3. best = c.text
    BY <1>2
  <1> HIDE DEF best
  <1>4. QED
    BY <1>1, <1>3

\* The records and the documents of a directory that the release signs.
LEMMA SignedContents ==
  ASSUME NEW fixtures, NEW blueprint, NEW corpus, NEW version,
         NEW records, records = load_canonical_records(fixtures, blueprint), records # {},
         NEW tree, tree = make_signed_repository(fixtures, blueprint, corpus, version)
  PROVE  RecordsOf(tree) = records /\ DocumentsOf(tree) = Projection(corpus, records)
  <1> DEFINE documents == Projection(corpus, records)
             canonical == canonical_bytes(records)
             spc == spc_bundle(documents)
             m == manifest(version, canonical, spc)
             index == search_index(spc)
             C == <<"content", "records">>
             P == <<"search", "projection">>
             ts == {<<Manifest, m>>, <<Inventory, inventory(version)>>, <<C, canonical>>, <<P, spc>>,
                    <<<<"search", "index">>, index>>}
             metadata == Signed(1, ts)
             fc == [path |-> <<"targets">> \o C, data |-> canonical]
             fp == [path |-> <<"targets">> \o P, data |-> spc]
  <1>1. tree = Tree(metadata, ts)
    BY DEF make_signed_repository
  <1>2. /\ Role.kind = "role" /\ metadata.kind = "metadata" /\ m.kind = "manifest"
        /\ inventory(version).kind = "inventory" /\ index.kind = "index"
    BY DEF Role, Signed, manifest, inventory, search_index
  <1>3. canonical.kind = "canonical" /\ canonical.records = records /\ "records" \in DOMAIN canonical
    BY DEF canonical_bytes
  <1>4. spc.kind = "spc" /\ spc.documents = documents /\ "documents" \in DOMAIN spc
    BY DEF spc_bundle
  <1> HIDE DEF canonical, spc, documents, m, index, metadata, C, P
  <1>5. ASSUME NEW f \in tree
        PROVE  \/ f = fc \/ f = fp
               \/ f.data.kind \in {"role", "metadata", "manifest", "inventory", "index"}
    <2>1. CASE \E n \in Top \ {"targets.json"} : f = [path |-> <<"metadata", n>>, data |-> Role]
      BY <1>2, <2>1
    <2>2. CASE f = [path |-> <<"metadata", "targets.json">>, data |-> metadata]
      BY <1>2, <2>2
    <2>3. CASE \E x \in ts : f = [path |-> <<"targets">> \o x[1], data |-> x[2]]
      <3>1. PICK x \in ts : f = [path |-> <<"targets">> \o x[1], data |-> x[2]]
        BY <2>3
      <3>2. CASE x = <<C, canonical>> \/ x = <<P, spc>>
        <4>1. CASE x = <<C, canonical>>
          <5>1. x[1] = C /\ x[2] = canonical
            BY <4>1
          <5>2. QED
            BY <3>1, <5>1
        <4>2. CASE x = <<P, spc>>
          <5>1. x[1] = P /\ x[2] = spc
            BY <4>2
          <5>2. QED
            BY <3>1, <5>1
        <4>3. QED
          BY <3>2, <4>1, <4>2
      <3>3. CASE x \in {<<Manifest, m>>, <<Inventory, inventory(version)>>, <<<<"search", "index">>, index>>}
        <4>1. f.data = m \/ f.data = inventory(version) \/ f.data = index
          BY <3>1, <3>3
        <4>2. QED
          BY <1>2, <4>1
      <3>4. QED
        BY <3>2, <3>3
    <2>4. QED
      BY <1>1, <2>1, <2>2, <2>3 DEF Tree
  <1>6. fc \in tree /\ fp \in tree
    <2>1. <<C, canonical>> \in ts /\ <<P, spc>> \in ts
      OBVIOUS
    <2> DEFINE at(x) == [path |-> <<"targets">> \o x[1], data |-> x[2]]
    <2>2. at(<<C, canonical>>) = fc /\ at(<<P, spc>>) = fp
      OBVIOUS
    <2> HIDE DEF ts
    <2>3. {at(x) : x \in ts} \subseteq tree
      BY <1>1 DEF Tree
    <2> HIDE DEF at
    <2>4. QED
      BY <2>1, <2>2, <2>3
  <1>7. fc.data = canonical /\ fp.data = spc
    OBVIOUS
  <1> HIDE DEF fc, fp
  <1>8. RecordsOf(tree) = records
    <2> DEFINE chosen == {f \in tree : f.data.kind = "canonical" /\ "records" \in DOMAIN f.data}
    <2>1. chosen = {fc}
      BY <1>3, <1>4, <1>5, <1>6, <1>7
    <2>2. RecordsOf(tree) = UNION {f.data.records : f \in chosen}
      BY DEF RecordsOf
    <2> HIDE DEF chosen
    <2>3. QED
      BY <1>3, <1>7, <2>1, <2>2
  <1>9. DocumentsOf(tree) = documents
    <2> DEFINE chosen == {f \in tree : f.data.kind = "spc" /\ "documents" \in DOMAIN f.data}
    <2>1. chosen = {fp}
      BY <1>3, <1>4, <1>5, <1>6, <1>7
    <2>2. DocumentsOf(tree) = UNION {f.data.documents : f \in chosen}
      BY DEF DocumentsOf
    <2> HIDE DEF chosen
    <2>3. QED
      BY <1>4, <1>7, <2>1, <2>2
  <1>10. QED
    BY <1>8, <1>9 DEF documents

\* The directory that the release signs shows every event of its canonical
\* records once, and that of an exemplar as the exemplar has it
\* (make_signed_repository).
THEOREM PreviewsAreFaithful ==
  ASSUME NEW fixtures, NEW blueprint, NEW corpus, NEW version, Readable(fixtures, blueprint, corpus)
  PROVE  Faithful(make_signed_repository(fixtures, blueprint, corpus, version))
  <1> DEFINE records == load_canonical_records(fixtures, blueprint)
             tree == make_signed_repository(fixtures, blueprint, corpus, version)
  <1>1. CASE records = {}
    <2>1. tree = {}
      BY <1>1 DEF make_signed_repository
    <2>2. QED
      BY <2>1 DEF Faithful, RecordsOf
  <1>2. CASE records # {}
    <2>1. /\ IsFiniteSet(records)
          /\ \A r, s \in records : r.kind = "event" /\ s.kind = "event" /\ r.id = s.id => r = s
          /\ \A c \in records : c.kind = "claim" => c.text \in Nat
      BY <1>2, RecordsOfPreview
    <2>2. RecordsOf(tree) = records /\ DocumentsOf(tree) = Projection(corpus, records)
      BY <1>2, SignedContents
    <2> HIDE DEF records, tree
    <2> SUFFICES ASSUME NEW r \in records, r.kind = "event"
                 PROVE  LET found  == {d \in DocumentsOf(tree) : d.id = r.id}
                            claims == {c \in RecordsOf(tree) : c.kind = "claim" /\ c.subject = r.id}
                        IN /\ Cardinality(found) = 1
                           /\ r.exemplar =>
                                \A d \in found :
                                  /\ d.title = r.title
                                  /\ Cardinality(claims) = 1 => d.description \in {c.text : c \in claims}
      BY <2>2 DEF Faithful, tree
    <2> DEFINE found  == {d \in Projection(corpus, records) : d.id = r.id}
               claims == {c \in records : c.kind = "claim" /\ c.subject = r.id}
    <2>3. PICK x : found = {x} /\ (r.exemplar => x = Projected(r, records))
      BY <2>1, ProjectedOnce DEF Readable
    <2>4. Cardinality(found) = 1
      BY <2>3, FS_Singleton
    <2>5. Projected(r, records).title = r.title
      BY DEF Projected
    <2>6. ASSUME Cardinality(claims) = 1 PROVE Projected(r, records).description \in {c.text : c \in claims}
      <3>1. IsFiniteSet(claims)
        BY <2>1, FS_Subset
      <3>2. PICK c : claims = {c}
        BY <2>6, <3>1, OneOfOne
      <3>3. c \in claims /\ c.text \in Nat
        BY <2>1, <3>2
      <3>4. Projected(r, records).description = c.text
        BY <3>2, <3>3, ProjectedText
      <3>5. QED
        BY <3>3, <3>4
    <2> HIDE DEF found, claims
    <2>7. r.exemplar => \A d \in found :
            d.title = r.title /\ (Cardinality(claims) = 1 => d.description \in {c.text : c \in claims})
      BY <2>3, <2>5, <2>6
    <2>8. QED
      BY <2>2, <2>4, <2>7 DEF found, claims
  <1>3. QED
    BY <1>1, <1>2
=============================================================================
