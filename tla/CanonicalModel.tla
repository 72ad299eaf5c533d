--------------------------- MODULE CanonicalModel ---------------------------
(***************************************************************************)
(* The canonical records under the checks of tools/validate_phase52.py: a  *)
(* corpus of files, one record in each, that changes by merges, each of    *)
(* which the workflow foundation-hygiene lets through only when the whole  *)
(* corpus is valid afterwards.                                             *)
(*                                                                         *)
(* An identifier is its type, namespace and key, and the key of a claim or *)
(* a relationship is the content that the code hashes.  A text is a word   *)
(* and a spelling; casefold leaves the word.  What the schemas, the dates, *)
(* the URLs and the counts of a record must satisfy by themselves is       *)
(* wellFormed, and the validator's test of its own resolver on a synthetic *)
(* record (lines 655-668) is left out.                                     *)
(***************************************************************************)
EXTENDS Naturals, FiniteSets, Sequences, SequencesExt, TLC

CONSTANTS
  File,       \* [path, record]: every file that is ever written
  Start,      \* the files of the corpus before the first merge
  Registry,   \* model/registries: name -> values
  Mapping,    \* migration map: [old_id, new_id, migration_type]
  Case,       \* exact-resolution cases: [query, namespace, expected_id]
  None,       \* no value: a scope that is not given, a query without a namespace
  MaxFiles    \* bound on the corpus

VARIABLE main

Records(corpus) == {f.record : f \in corpus}
Ids(corpus)     == {r.id : r \in Records(corpus)}

\* by_id: a corpus in which two files share an identifier is refused.
Record(corpus, id) == {r \in Records(corpus) : r.id = id}

TelemetryEntity == {"event", "audit-record", "audit-action", "operation", "activity", "finding", "flow-record"}
VersionConstraintSubject == {"platform", "product", "telemetry-provider", "technology"}

Semantic ==
  {"INDICATES", "RELATED_TO", "EQUIVALENT_SIGNAL", "PRECEDES", "FOLLOWS", "MAPS_TO_ATTACK",
   "COUNTERED_BY", "DETECTED_BY", "HUNTED_BY", "INVESTIGATED_BY", "RESPONDED_BY",
   "REQUIRES_TELEMETRY", "DERIVED_FROM", "SUPPORTED_BY", "SUPERSEDES", "SUPERSEDED_BY",
   "VERSION_OF", "VALIDATED_BY"}
Structural == {"RUNS_ON", "EMITS", "HAS_FIELD", "HAS_TELEMETRY_PROVIDER", "HAS_TELEMETRY_SOURCE"}

-----------------------------------------------------------------------------
(* identity *)

\* A sorted list tells how often it has each item, and nothing else.
sorted(s) == [x \in ToSet(s) |-> Cardinality({i \in DOMAIN s : s[i] = x})]

normalize_applicability_Unsorted(app) == app
normalize_applicability(app) == [label \in DOMAIN app |-> sorted(app[label])]

claim_semantic_payload(r) ==
  [subject_id |-> r.subject_id, predicate |-> r.predicate, object |-> r.object,
   applicability |-> normalize_applicability(r.applicability)]

relationship_semantic_payload(r) ==
  [from |-> r.from, relationship_type |-> r.relationship_type, to |-> r.to, qualifier |-> r.qualifier]

\* sha_key is taken to be without collisions.
validate_deterministic_identity_OfRelationships(r) ==
  r.record_kind = "relationship" => r.canonical_key = relationship_semantic_payload(r)
validate_deterministic_identity(r) ==
  /\ r.record_kind = "claim" => r.canonical_key = claim_semantic_payload(r)
  /\ r.record_kind = "relationship" => r.canonical_key = relationship_semantic_payload(r)

validate_id_component_consistency_AnyNamespace(r) ==
  /\ r.id = <<IF r.record_kind = "entity" THEN r.entity_type ELSE r.record_kind, r.namespace, r.canonical_key>>
  /\ r.record_kind = "entity" => r.entity_type \in Registry["entity-types"]
validate_id_component_consistency(r) ==
  /\ r.id = <<IF r.record_kind = "entity" THEN r.entity_type ELSE r.record_kind, r.namespace, r.canonical_key>>
  /\ r.record_kind = "entity" => r.entity_type \in Registry["entity-types"]
  /\ r.namespace \in Registry["namespaces"]

validate_registry_membership(r) ==
  /\ r.record_kind = "entity" =>
       /\ \A n \in ToSet(r.native_identifiers) :
            /\ n.type \in Registry["native-identifier-types"]
            /\ n.namespace \in {None} \union Registry["namespaces"]
       /\ \A a \in ToSet(r.aliases) :
            /\ a.kind \in Registry["alias-kinds"]
            /\ a.namespace \in {None} \union Registry["namespaces"]
            /\ a.entity_type \in {None} \union Registry["entity-types"]
  /\ r.record_kind = "claim" => r.predicate \in Registry["claim-predicates"]
  /\ r.record_kind = "relationship" => r.relationship_type \in Registry["relationship-types"]

\* All of a native identifier but whether it is primary.
Unmarked(n) ==
  <<n.type, n.value, n.namespace, n.context, n.case_sensitive, normalize_applicability(n.applicability)>>

validate_native_identifiers(r) ==
  r.record_kind = "entity" =>
    LET native == r.native_identifiers IN
    /\ native # <<>> => \E n \in ToSet(native) : n.primary
    /\ \A i, j \in DOMAIN native : Unmarked(native[i]) = Unmarked(native[j]) => i = j

-----------------------------------------------------------------------------
(* references *)

Labelled(targets, label) == {<<t, label>> : t \in targets \ {None}}

all_applicability_blocks(r) ==
  {r.applicability} \union
  IF r.record_kind # "entity" THEN {}
  ELSE {n.applicability : n \in ToSet(r.native_identifiers) \union ToSet(r.aliases)}

\* A version constraint refers to its subject, every other entry to itself.
Applied(app) ==
  UNION {IF label = "version_constraints"
         THEN Labelled({c.subject_id : c \in ToSet(app[label])}, "version_constraint.subject_id")
         ELSE Labelled(ToSet(app[label]), label) : label \in DOMAIN app}

AppliedReferences(r) == UNION {Applied(app) : app \in all_applicability_blocks(r)}

Evidenced(r) ==
  Labelled({e.source_id : e \in r.evidence}, "evidence.source_id")
  \union Labelled({e.source_snapshot_id : e \in r.evidence}, "evidence.source_snapshot_id")

EntityReferences(r) ==
  Labelled(r.reason_claim_ids, "lifecycle.reason_claim_ids")
  \union Labelled({a.provider_id : a \in ToSet(r.aliases)}, "alias.scope.provider_id")

ClaimReferences(r) ==
  {<<r.subject_id, "claim.subject_id">>}
  \union Labelled(IF r.object.kind = "entity-ref" THEN {r.object.value} ELSE {}, "claim.object.entity_id")
  \union Evidenced(r)

RelationshipReferences(r) ==
  {<<r.from, "relationship.from">>, <<r.to, "relationship.to">>}
  \union Labelled(r.supporting_claim_ids, "relationship.supporting_claim_ids")

VersionReferences(r) == {<<r.subject_id, "version.subject_id">>} \union Evidenced(r)

OwnReferences(r) ==
  CASE r.record_kind = "entity" -> EntityReferences(r)
    [] r.record_kind = "claim" -> ClaimReferences(r)
    [] r.record_kind = "relationship" -> RelationshipReferences(r)
    [] r.record_kind = "validation" -> {<<r.target_id, "validation.target_id">>}
    [] r.record_kind = "version" -> VersionReferences(r)
    [] r.record_kind = "coverage-snapshot" -> Labelled(r.subject_ids, "coverage.scope.subject_ids")
    [] OTHER -> {}

collect_references(r) == AppliedReferences(r) \union OwnReferences(r)

\* The labels whose target must be of a kind, and of an entity type.
Of(kind, types) == [kind |-> kind, types |-> types]
Typed ==
  [l \in {"explanatory_claim_ids", "lifecycle.reason_claim_ids", "relationship.supporting_claim_ids"}
     |-> Of("claim", {})]
  @@ "platform_ids" :> Of("entity", {"platform"})
  @@ "product_ids" :> Of("entity", {"product"})
  @@ "provider_ids" :> Of("entity", {"telemetry-provider"})
  @@ "version_ids" :> Of("version", {})
  @@ "version_constraint.subject_id" :> Of("entity", VersionConstraintSubject)
  @@ "alias.scope.provider_id" :> Of("entity", {"telemetry-provider"})
  @@ [l \in {"claim.object.entity_id", "coverage.scope.subject_ids"} |-> Of("entity", {})]
  @@ "evidence.source_id" :> Of("source", {})

\* A target that is missing is another check's error.
_require_kind(target, expected, corpus) ==
  \A t \in Record(corpus, target) :
    /\ t.record_kind = expected.kind
    /\ expected.types # {} => t.entity_type \in expected.types

validate_typed_references(r, corpus) ==
  /\ \A ref \in collect_references(r) :
       ref[2] \in DOMAIN Typed => _require_kind(ref[1], Typed[ref[2]], corpus)
  /\ r.record_kind = "version" =>
       \A t \in Record(corpus, r.subject_id) : t.record_kind \in {"entity", "source"}

Ends_AnyRecord(relationship_type) ==
  CASE relationship_type = "HAS_TELEMETRY_PROVIDER" -> <<{"product"}, {"telemetry-provider"}>>
    [] relationship_type = "HAS_TELEMETRY_SOURCE" -> <<{"telemetry-provider"}, {"telemetry-source"}>>
    [] relationship_type = "EMITS" -> <<{"telemetry-source"}, {}>>
    [] relationship_type = "HAS_FIELD" -> <<TelemetryEntity, {"field"}>>
    [] relationship_type = "RUNS_ON" -> <<{}, {}>>
Ends(relationship_type) ==
  CASE relationship_type = "HAS_TELEMETRY_PROVIDER" -> <<{"product"}, {"telemetry-provider"}>>
    [] relationship_type = "HAS_TELEMETRY_SOURCE" -> <<{"telemetry-provider"}, {"telemetry-source"}>>
    [] relationship_type = "EMITS" -> <<{"telemetry-source"}, TelemetryEntity>>
    [] relationship_type = "HAS_FIELD" -> <<TelemetryEntity, {"field"}>>
    [] relationship_type = "RUNS_ON" -> <<{}, {}>>

validate_structural_relationship(r, corpus) ==
  r.record_kind = "relationship" /\ r.relationship_type \in Structural =>
    LET ends == Ends(r.relationship_type) IN
    /\ _require_kind(r.from, Of("entity", ends[1]), corpus)
    /\ _require_kind(r.to, Of("entity", ends[2]), corpus)

\* The evidence policy of a relationship type (validate_semantics).
RelationshipPolicy(r) ==
  r.record_kind = "relationship" =>
    /\ r.relationship_type \in Semantic \union Structural
    /\ r.relationship_type \in Semantic => r.supporting_claim_ids # {}

-----------------------------------------------------------------------------
(* trust *)

authoritative_claim_ok(c, corpus) ==
  /\ c.record_kind = "claim" /\ c.confidence = "authoritative"
  /\ \E e \in c.evidence : \E s \in Record(corpus, e.source_id) :
       s.record_kind = "source" /\ s.tierA /\ e.approved /\ e.direct

validate_trust(r, corpus) ==
  /\ r.record_kind = "claim" /\ r.confidence = "authoritative" => authoritative_claim_ok(r, corpus)
  /\ r.record_kind = "relationship" /\ r.confidence = "authoritative" =>
       \E id \in r.supporting_claim_ids : \E c \in Record(corpus, id) : authoritative_claim_ok(c, corpus)

-----------------------------------------------------------------------------
(* names *)

\* Two values are told apart by their spelling only if both are case-sensitive.
_alias_values_equal_EitherSensitive(a, b) ==
  IF a.case_sensitive \/ b.case_sensitive THEN a.value = b.value ELSE a.value.word = b.value.word
_alias_values_equal(a, b) ==
  IF a.case_sensitive /\ b.case_sensitive THEN a.value = b.value ELSE a.value.word = b.value.word

Scopes == {"namespace", "entity_type", "provider_id", "locale"}
_alias_scopes_overlap(a, b) ==
  \A s \in Scopes : a[s] = None \/ b[s] = None \/ a[s] = b[s]

Entities(corpus) == {r \in Records(corpus) : r.record_kind = "entity"}

validate_alias_collisions(corpus) ==
  \A r, s \in Entities(corpus) : r.id # s.id =>
    \A a \in ToSet(r.aliases), b \in ToSet(s.aliases) :
      ~(_alias_values_equal(a, b) /\ _alias_scopes_overlap(a, b))

Same(n, query) == IF n.case_sensitive THEN n.value = query ELSE n.value.word = query.word

AliasAnswers(a, query, namespace) ==
  /\ Same(a, query)
  /\ namespace # None => a.namespace \in {None, namespace}

resolve_query(corpus, query, namespace) ==
  IF \E id \in Ids(corpus) : query = [word |-> id, spelling |-> "exact"] THEN {query.word}
  ELSE {r.id : r \in {r \in Entities(corpus) :
         /\ namespace # None => r.namespace = namespace
         /\ \/ r.title.word = query.word
            \/ \E n \in ToSet(r.native_identifiers) : Same(n, query)
            \/ \E a \in ToSet(r.aliases) : AliasAnswers(a, query, namespace)}}

validate_exact_resolution(corpus) ==
  \A c \in Case : resolve_query(corpus, c.query, c.namespace) = {c.expected_id}

validate_migration(corpus) ==
  /\ \A m, n \in Mapping : m.old_id = n.old_id => m = n
  /\ \A m \in Mapping :
       /\ m.new_id \in Ids(corpus)
       /\ m.migration_type = "legacy-canonical-id-alias" =>
            \E r \in Record(corpus, m.new_id) : r.record_kind = "entity" /\
              \E a \in ToSet(r.aliases) :
                a.kind = "legacy-canonical-id" /\ a.value = [word |-> m.old_id, spelling |-> "exact"]

-----------------------------------------------------------------------------

validate_semantics(corpus) ==
  /\ \A f, g \in corpus : f.record.id = g.record.id => f = g
  /\ \A r \in Records(corpus) :
       /\ validate_id_component_consistency(r)
       /\ validate_registry_membership(r)
       /\ validate_deterministic_identity(r)
       /\ validate_native_identifiers(r)
       /\ r.record_kind = "claim" /\ r.status \in {"validated", "published"} /\ (\E e \in r.evidence : e.draft)
            => \E e \in r.evidence : e.approved
       /\ RelationshipPolicy(r)
       /\ \A ref \in collect_references(r) : ref[1] \in Ids(corpus)
       /\ validate_typed_references(r, corpus)
       /\ validate_structural_relationship(r, corpus)
       /\ validate_trust(r, corpus)
  /\ validate_alias_collisions(corpus)

Valid(corpus) ==
  /\ \A r \in Records(corpus) : r.wellFormed
  /\ validate_semantics(corpus)
  /\ validate_exact_resolution(corpus)
  /\ validate_migration(corpus)

Init == main = Start /\ Start \subseteq File /\ Valid(Start)

\* A change deletes files and writes others, in place of what was there, and is
\* merged when the corpus it leaves is valid.
Changed(deleted, written) ==
  {f \in main : f \notin deleted /\ \A g \in written : g.path # f.path} \union written

Merge(deleted, written) ==
  /\ Cardinality(Changed(deleted, written)) <= MaxFiles
  /\ Valid(Changed(deleted, written))
  /\ main' = Changed(deleted, written)

\* One change writes at most two files, of two paths, and deletes at most one.
Writes == {w \in {{f, g} : f, g \in File} : \A f, g \in w : f.path = g.path => f = g}

Next ==
  \/ \E f \in main : Merge({f}, {})
  \/ \E written \in Writes, deleted \in {{}} \union {{f} : f \in main} : Merge(deleted, written)

Spec == Init /\ [][Next]_main

-----------------------------------------------------------------------------
Claims        == {f \in main : f.record.record_kind = "claim"}
Relationships == {r \in Records(main) : r.record_kind = "relationship"}

\* What a claim says, whatever the order its applicability is written in.
Fact(c) ==
  <<c.subject_id, c.predicate, c.object, [label \in DOMAIN c.applicability |-> ToSet(c.applicability[label])]>>

\* One fact is stated by one claim, in one file: evidence for it and doubts
\* about it meet in one record (claim_semantic_payload).
OneClaimPerFact == \A f, g \in Claims : Fact(f.record) = Fact(g.record) => f = g

\* What an identifier of a claim stands for never changes from one state of the
\* corpus to the next, so that what refers to the claim keeps its support.
ClaimsKeepMeaning ==
  [][\A f \in Claims, g \in Claims' : f.record.id = g.record.id => Fact(f.record) = Fact(g.record)]_main

\* ADR-0012 "Overlapping scopes may not resolve one alias to different canonical
\* entities": when the aliases of two entities answer one query in
\* resolve_query, a scope tells them apart, and in a query within a namespace
\* one that the query could not give.
AliasResolvesOne ==
  \A r, s \in Entities(main) : r.id # s.id =>
    \A a \in ToSet(r.aliases), b \in ToSet(s.aliases) :
      \A namespace \in {None, r.namespace} :
        AliasAnswers(a, b.value, namespace) /\ AliasAnswers(b, b.value, namespace) =>
          \E scope \in Scopes \ (IF namespace = None THEN {} ELSE {"namespace"}) :
            None \notin {a[scope], b[scope]} /\ a[scope] # b[scope]

\* Identifiers from before the migration lead to the entity that took their
\* place, and no later record shadows them (validate_migration, resolve_query).
OldIdsLead ==
  \A m \in Mapping : m.migration_type = "legacy-canonical-id-alias" =>
    m.new_id \in resolve_query(main, [word |-> m.old_id, spelling |-> "exact"], None)

\* The telemetry spine, product to provider to source to record to field, has
\* no way back: no set of records each of which contains another of the set.
NoContainmentCycle ==
  LET inside == {<<r.from, r.to>> : r \in {r \in Relationships : r.relationship_type \in Structural \ {"RUNS_ON"}}}
      ends   == {e[1] : e \in inside}
  IN ~\E S \in (SUBSET ends) \ {{}} : \A x \in S : \E y \in S : <<x, y>> \in inside
=============================================================================
