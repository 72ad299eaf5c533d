---------------------------- MODULE PackContents ----------------------------
(***************************************************************************)
(* What the Python reference runtime demands of an .atlaspack before it is *)
(* trusted (tools/pack: archive, contract, tuf_runtime): operators only,   *)
(* used by ReferencePack for the builder and for the installation.         *)
(*                                                                         *)
(* A path is a sequence of components.  A content is a record with the     *)
(* fields "kind" and "digest"; two contents have the same digest only if   *)
(* they are the same, so that it stands for the length too.  Signature,    *)
(* threshold and expiry checks belong to python-tuf, which is external:    *)
(* signed metadata is one record with a version and the digest that it     *)
(* authorizes for each path.                                               *)
(***************************************************************************)
EXTENDS Naturals, Sequences, FiniteSets, SequencesExt

CONSTANTS
  Component,        \* path components
  Fold,             \* NFC case folding of a component
  BadComponent,     \* ".", "..", trailing dot or space, device names
  ActiveName,       \* names with an active-code extension
  CaseInsensitive,  \* whether the file system folds names
  MaxEntries, MaxFile, MaxTotal, MaxRatio,
  CurrentRuntime    \* version of the runtime, a rank

ASSUME ContentsAssumption ==
  /\ Fold \in [Component -> Component]
  /\ \A c \in Component : Fold[Fold[c]] = Fold[c]
  /\ BadComponent \subseteq Component /\ ActiveName \subseteq Component
  /\ CaseInsensitive \in BOOLEAN
  /\ {MaxEntries, MaxFile, MaxTotal, MaxRatio, CurrentRuntime} \subseteq Nat

Top      == {"root.json", "timestamp.json", "snapshot.json", "targets.json"}
Rotated  == {"2.root.json"}     \* <n>.root.json
Manifest  == <<"atlas", "pack-manifest.json">>
Inventory == <<"atlas", "source-license-inventory.json">>
Control   == {Manifest, Inventory}

Folded(p)  == [i \in DOMAIN p |-> Fold[p[i]]]
Same(p, q) == IF CaseInsensitive THEN Folded(p) = Folded(q) ELSE p = q

-----------------------------------------------------------------------------
(* archive.py: an entry has a path, the flag dir, the flag plain (its name *)
(* is written in the canonical way, it is neither encrypted nor a link nor *)
(* a special file), its declared size, its compressed size, the size that  *)
(* the decompression yields and its data.                                  *)

MemberName(e) ==
  LET p == e.path
  IN /\ p # <<>> /\ \A i \in DOMAIN p : p[i] \notin BadComponent
     /\ p[1] \in {"metadata", "targets"}
     /\ p[1] = "metadata" /\ ~e.dir => Len(p) = 2 /\ p[2] \in Top \union Rotated
     /\ p[1] = "targets" /\ Len(p) = 1 => e.dir
     /\ p[1] = "targets" /\ Len(p) > 1 =>
          p[2] \in {"atlas", "content", "search"} /\ (e.dir \/ Last(p) \notin ActiveName)

EntryType(e) == e.plain

\* The sum over the first n entries of the sizes they declare.
Total(es, n) == FoldLeft(LAMBDA t, e : IF e.dir THEN t ELSE t + e.size, 0, SubSeq(es, 1, n))

Preflight(es) ==
  /\ Len(es) <= MaxEntries
  /\ \A i \in DOMAIN es : EntryType(es[i]) /\ MemberName(es[i])
  /\ \A i, j \in DOMAIN es : i # j => Folded(es[i].path) # Folded(es[j].path)
  /\ \A i \in DOMAIN es :
       IF es[i].dir THEN es[i].size = 0
       ELSE es[i].size <= MaxFile /\ \E c \in {1, es[i].packed} : es[i].size <= MaxRatio * c
  /\ Total(es, Len(es)) <= MaxTotal

\* The directory tree of a staging directory: nodes with the path under which
\* they were created, and for a file its data (<<d>>, or <<>> for a directory).
Found(nodes, p) == {n \in nodes : Same(n.path, p)}

\* _mkdir_chain_without_links: the directory where p is, created as needed.
Mkdir(a, part) ==
  LET q    == Append(a.at, part)
      here == Found(a.nodes, q)
      n    == CHOOSE n \in here : TRUE
  IN IF ~a.ok THEN a
     ELSE IF here = {}
     THEN [ok |-> TRUE, at |-> q, nodes |-> a.nodes \union {[path |-> q, data |-> <<>>]}]
     ELSE [ok |-> n.data = <<>>, at |-> n.path, nodes |-> a.nodes]

MkdirChain(nodes, p) ==
  LET chain[k \in 0..Len(p)] ==
        IF k = 0 THEN [ok |-> TRUE, at |-> <<>>, nodes |-> nodes] ELSE Mkdir(chain[k-1], p[k])
  IN chain[Len(p)]

Write(a, e) ==
  LET d == MkdirChain(a.nodes, Front(e.path))
      q == Append(d.at, Last(e.path))
  IN [ok |-> d.ok /\ Found(d.nodes, q) = {} /\ e.actual = e.size,
      nodes |-> d.nodes \union {[path |-> q, data |-> <<e.data>>]}]

Place(a, e) ==
  IF ~a.ok THEN a
  ELSE IF e.dir THEN LET d == MkdirChain(a.nodes, e.path) IN [ok |-> d.ok, nodes |-> d.nodes]
  ELSE Write(a, e)

\* safe_extract_atlaspack: every member is checked before any is written.
Extract(es) ==
  LET placed[k \in 0..Len(es)] ==
        IF k = 0 THEN [ok |-> TRUE, nodes |-> {}] ELSE Place(placed[k-1], es[k])
  IN IF Preflight(es) THEN placed[Len(es)] ELSE [ok |-> FALSE, nodes |-> {}]

\* The files below one of the two namespaces, and what a path reads there.
RegularFiles(nodes, space) ==
  {Tail(n.path) : n \in {n \in nodes : n.path[1] = space /\ n.data # <<>>}}
Reads(nodes, space, p) == {n.data[1] : n \in {n \in Found(nodes, <<space>> \o p) : n.data # <<>>}}

-----------------------------------------------------------------------------
(* contract.py *)

\* Artifacts live under content/ and search/.
TargetPath(p) ==
  /\ p # <<>> /\ p[1] \in {"content", "search"} /\ Len(p) > 1
  /\ \A i \in DOMAIN p : p[i] \notin BadComponent
  /\ Last(p) \notin ActiveName

ValidManifest(m) ==
  /\ m.kind = "manifest" /\ m.schema /\ m.artifacts # <<>>
  /\ \A i \in DOMAIN m.artifacts :
       LET a == m.artifacts[i]
       IN /\ TargetPath(a.path)
          /\ \A j \in 1..(i-1) : Folded(m.artifacts[j].path) # Folded(a.path)
          /\ a.kind \in {"spc", "search-index"} => a.derived
          /\ a.kind = "canonical-records" => ~a.derived

\* Every URL absolute HTTPS and every date canonical, or "wellFormed" is FALSE.
ValidInventory(v) ==
  /\ v.kind = "inventory" /\ v.schema /\ v.entries # <<>>
  /\ \A i \in DOMAIN v.entries :
       LET e == v.entries[i]
       IN /\ \A j \in 1..(i-1) : v.entries[j].source # e.source
          /\ e.wellFormed
          /\ e.scope = "included" => e.license = "verified-redistributable"
          /\ e.license \notin {"unknown", "incompatible"}    \* publication

ContractPair(m, v) ==
  /\ ValidManifest(m) /\ ValidInventory(v)
  /\ m.id = v.id /\ m.version = v.version
  /\ m.inventory = v.digest

-----------------------------------------------------------------------------
(* tuf_runtime.py: trusted is <<>>, the bootstrap root alone, or <<t>> for *)
(* the metadata t of the durable cache.                                    *)

MetadataTopology(nodes) ==
  LET names == RegularFiles(nodes, "metadata")
  IN /\ \A t \in Top : <<t>> \in names
     /\ names \subseteq {<<t>> : t \in Top \union Rotated}

\* Updater.refresh with the files of the pack as its repository: an older
\* version and a bad signature fail, an equal version keeps the cache.
Refresh_AnyVersion(nodes, trusted) ==
  LET new == CHOOSE t \in Reads(nodes, "metadata", <<"targets.json">>) : TRUE
  IN [ok |-> new.kind = "metadata" /\ new.signed, cache |-> <<new>>]
Refresh(nodes, trusted) ==
  LET files == Reads(nodes, "metadata", <<"targets.json">>)
      new   == CHOOSE t \in files : TRUE
  IN [ok    |-> /\ files # {} /\ new.kind = "metadata" /\ new.signed
                /\ trusted # <<>> => new.version >= trusted[1].version,
      cache |-> IF trusted # <<>> /\ new.version = trusted[1].version THEN trusted ELSE <<new>>]

\* The contents that get_targetinfo and download_target deliver for p.
Download(nodes, t, p) == {d \in Reads(nodes, "targets", p) : <<p, d.digest>> \in t.targets}

OfKind(m, k) == {i \in DOMAIN m.artifacts : m.artifacts[i].kind = k}

\* The digests of the manifest bind the one canonical artifact and the one
\* search projection; at most one prebuilt index.
ArtifactBindings(m) ==
  /\ Cardinality(OfKind(m, "canonical-records")) = 1
  /\ Cardinality(OfKind(m, "spc")) = 1
  /\ Cardinality(OfKind(m, "search-index")) <= 1
  /\ \A i \in OfKind(m, "canonical-records") : m.artifacts[i].digest = m.canonical
  /\ \A i \in OfKind(m, "spc") : m.artifacts[i].digest = m.spc

\* Every line of the canonical records is a record of the schema.
CanonicalJsonl(c) == c.kind = "canonical" /\ c.lines # <<>> /\ \A i \in DOMAIN c.lines : c.lines[i]

\* The projection that the search index of the pack is built from: a signed
\* index that is not one of exactly this projection is replaced by a rebuilt one.
IndexOf_Signed(m, signed) == IF signed = {} THEN m.spc ELSE (CHOOSE x \in signed : TRUE).of
IndexOf(m, signed) ==
  LET good == {x \in signed : x.kind = "index" /\ x.of = m.spc}
  IN IF good # {} THEN (CHOOSE x \in good : TRUE).of ELSE m.spc

\* verify_pack_directory up to the refresh; the cache is durable after it.
Precheck(nodes) ==
  /\ MetadataTopology(nodes)
  /\ \E n \in nodes : n.path = <<"targets">>

\* The contents of the artifacts of a kind.
Artifacts(nodes, t, m, k) ==
  UNION {{d \in Download(nodes, t, m.artifacts[i].path) : d.digest = m.artifacts[i].digest} :
           i \in OfKind(m, k)}

\* ... and after it, with the metadata t: the accepted pack in a set, or {}.
VerifiedPack(nodes, t) ==
  {[id |-> m.id, version |-> m.version, digest |-> m.digest, spc |-> m.spc,
    index |-> IndexOf(m, Artifacts(nodes, t, m, "search-index"))] :
   m \in {m \in Download(nodes, t, Manifest) :
     /\ \E v \in Download(nodes, t, Inventory) : ContractPair(m, v)
     /\ m.runtime <= CurrentRuntime
     /\ RegularFiles(nodes, "targets")
          = Control \union {m.artifacts[i].path : i \in DOMAIN m.artifacts}
     /\ \A i \in DOMAIN m.artifacts :
          \E d \in Download(nodes, t, m.artifacts[i].path) : d.digest = m.artifacts[i].digest
     /\ ArtifactBindings(m)
     /\ \A c \in Artifacts(nodes, t, m, "canonical-records") : CanonicalJsonl(c)
     /\ \A c \in Artifacts(nodes, t, m, "spc") : c.kind = "spc" /\ c.valid}}
=============================================================================
