----------------------------- MODULE PreviewPack -----------------------------
(***************************************************************************)
(* The release's engineering preview, up to the signed directory that      *)
(* PackBuild packs: the approved exemplars become canonical records        *)
(* (tools/content/build_encyclopedia_records.py), which are merged with    *)
(* the fixtures, projected for search and signed                           *)
(* (tools/release/build_engineering_preview_pack.py).  Operators only.     *)
(*                                                                         *)
(* A blueprint has the flag approved, its sources and its items, in order. *)
(* The text of a claim is a number, its place in the order of the digests  *)
(* that identify claims.  Of a record only what is projected is kept.      *)
(***************************************************************************)
EXTENDS PackContents

CONSTANTS
  Overridable,      \* identifiers of fixtures that an exemplar may replace
  RequiredIds,      \* identifiers that a preview must have ...
  SecurityEvent     \* ... besides one for each native number of this namespace

ASSUME PreviewAssumption == RequiredIds # {}

-----------------------------------------------------------------------------
(* build_encyclopedia_records.py *)

Record(kind, id, title, exemplar, subject, text) ==
  [kind |-> kind, id |-> id, title |-> title, exemplar |-> exemplar, subject |-> subject, text |-> text]

event_entity(item) == Record("event", item.id, item.title, TRUE, <<>>, 0)

\* A claim is identified by its subject and by what it says of it.
claim(subject, text) == Record("claim", <<"claim", subject, text>>, "", FALSE, subject, text)

event_claims(item) == {claim(item.id, item.overview)}

\* One source may be listed twice, but only as it is.
source_records(sources) == \A s, t \in sources : s.id = t.id => s = t

\* Of two items with one identifier the later one is the event; the claims of
\* both are kept.
build_records(blueprint) ==
  LET events == FoldLeft(LAMBDA rs, item : {r \in rs : r.id # item.id} \union {event_entity(item)},
                         {}, blueprint.items)
  IN IF blueprint.approved /\ source_records(blueprint.sources)
     THEN blueprint.sources \union events \union UNION {event_claims(i) : i \in ToSet(blueprint.items)}
     ELSE {}

-----------------------------------------------------------------------------
(* build_engineering_preview_pack.py *)

\* The numbers of the Windows Security exemplars are decimal, and each is there once.
approved_windows_event_ids(blueprint) ==
  LET windows == SelectSeq(blueprint.items, LAMBDA i : i.native # "")
  IN /\ windows # <<>>
     /\ \A i, j \in DOMAIN windows : windows[i].native = windows[j].native => i = j
     /\ \A i \in DOMAIN windows : windows[i].native \in DOMAIN SecurityEvent

\* {} if two records of one identifier differ, but for the few fixtures that an
\* exemplar is meant to replace, or if a required record is missing.
load_canonical_records(fixtures, blueprint) ==
  LET exemplars == build_records(blueprint)
      merged    == {r \in fixtures : r.id \notin {e.id : e \in exemplars}} \union exemplars
      required  == RequiredIds \union {SecurityEvent[i.native] : i \in {i \in ToSet(blueprint.items) : i.native # ""}}
  IN IF /\ exemplars # {} /\ approved_windows_event_ids(blueprint)
        /\ \A r, s \in fixtures : r.id = s.id => r = s
        /\ \A r \in fixtures, e \in exemplars : r.id = e.id /\ r # e => r.id \in Overridable
        /\ required \subseteq {r.id : r \in merged}
     THEN merged ELSE {}

\* The document of an event: of several claims the last one describes it.
Projected(r, records) ==
  LET texts == {c.text : c \in {c \in records : c.kind = "claim" /\ c.subject = r.id}}
  IN [id |-> r.id, title |-> r.title,
      description |-> IF texts = {} THEN 0 ELSE CHOOSE t \in texts : \A u \in texts : u <= t]

\* The corpus of the catalog, with the events it lacks and with every exemplar.
Projection(corpus, records) ==
  LET events == {r \in records : r.kind = "event" /\ (r.exemplar \/ r.id \notin {d.id : d \in corpus})}
  IN {d \in corpus : d.id \notin {r.id : r \in events}} \union {Projected(r, records) : r \in events}

canonical_bytes(records) ==
  [kind |-> "canonical", digest |-> <<"canonical", "of", records>>, lines |-> <<records # {}>>, records |-> records]

spc_bundle(documents) ==
  [kind |-> "spc", digest |-> <<"spc", "of", documents>>, valid |-> documents # {}, documents |-> documents]

search_index(spc) == [kind |-> "index", digest |-> <<"index", spc.digest, 0>>, of |-> spc.digest]

inventory(version) ==
  [kind |-> "inventory", digest |-> <<"inventory", "preview", version, 0>>, schema |-> TRUE, id |-> "pack",
   version |-> version,
   entries |-> <<[source |-> "fixtures", wellFormed |-> TRUE, scope |-> "included",
                  license |-> "verified-redistributable"]>>]

Art(p, k, d, c) == [path |-> p, kind |-> k, derived |-> d, digest |-> c.digest]

artifacts_NotDerived(canonical, spc, index) ==
  << Art(<<"content", "records">>, "canonical-records", FALSE, canonical),
     Art(<<"search", "index">>, "search-index", FALSE, index),
     Art(<<"search", "projection">>, "spc", TRUE, spc) >>
artifacts(canonical, spc, index) ==
  << Art(<<"content", "records">>, "canonical-records", FALSE, canonical),
     Art(<<"search", "index">>, "search-index", TRUE, index),
     Art(<<"search", "projection">>, "spc", TRUE, spc) >>

manifest(version, canonical, spc) ==
  [kind |-> "manifest", digest |-> <<"manifest", version, canonical.digest, spc.digest>>, schema |-> TRUE,
   id |-> "pack", version |-> version, runtime |-> CurrentRuntime, canonical |-> canonical.digest,
   spc |-> spc.digest, inventory |-> inventory(version).digest,
   artifacts |-> artifacts(canonical, spc, search_index(spc))]

\* Signed metadata authorizes the data ts, pairs of a path and a content.
Role == [kind |-> "role", digest |-> <<"role">>]
Signed(n, ts) ==
  [kind |-> "metadata", digest |-> <<"metadata", n>>, version |-> n, signed |-> TRUE,
   targets |-> {<<x[1], x[2].digest>> : x \in ts}]

Tree(metadata, ts) ==
  {[path |-> <<"metadata", n>>, data |-> Role] : n \in Top \ {"targets.json"}}
  \union {[path |-> <<"metadata", "targets.json">>, data |-> metadata]}
  \union {[path |-> <<"targets">> \o x[1], data |-> x[2]] : x \in ts}

\* The directory that is signed, or {} if the records are refused.
make_signed_repository(fixtures, blueprint, corpus, version) ==
  LET records   == load_canonical_records(fixtures, blueprint)
      canonical == canonical_bytes(records)
      spc       == spc_bundle(Projection(corpus, records))
      ts == {<<Manifest, manifest(version, canonical, spc)>>, <<Inventory, inventory(version)>>,
             <<<<"content", "records">>, canonical>>, <<<<"search", "projection">>, spc>>,
             <<<<"search", "index">>, search_index(spc)>>}
  IN IF records = {} THEN {} ELSE Tree(Signed(1, ts), ts)

-----------------------------------------------------------------------------
\* The canonical records and the documents of a directory that was signed here.
RecordsOf(tree)   == UNION {f.data.records : f \in {f \in tree : f.data.kind = "canonical" /\ "records" \in DOMAIN f.data}}
DocumentsOf(tree) == UNION {f.data.documents : f \in {f \in tree : f.data.kind = "spc" /\ "documents" \in DOMAIN f.data}}

\* In what is published, every event of the canonical records is found by one
\* document, and that of an exemplar says what the exemplar says and not what
\* the catalog had before (Projection).
Faithful(tree) ==
  \A r \in {r \in RecordsOf(tree) : r.kind = "event"} :
    LET found  == {d \in DocumentsOf(tree) : d.id = r.id}
        claims == {c \in RecordsOf(tree) : c.kind = "claim" /\ c.subject = r.id}
    IN /\ Cardinality(found) = 1
       /\ r.exemplar =>
            \A d \in found :
              d.title = r.title /\ (Cardinality(claims) = 1 => d.description \in {c.text : c \in claims})
=============================================================================
