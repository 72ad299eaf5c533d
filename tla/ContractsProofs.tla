-------------------------- MODULE ContractsProofs ---------------------------
(***************************************************************************)
(* Proofs about the two contracts that need no store: the canonical        *)
(* records, for any set of files, any registries, migrations and cases,    *)
(* and changes of any size within Next; and the precedence of versions,    *)
(* for identifiers of any length over any characters.                      *)
(***************************************************************************)
EXTENDS SemVer, CanonicalModel, Recursion, FiniteSetTheorems

\* Only a valid corpus is merged.
LEMMA MergeIsValid == ASSUME NEW deleted, NEW written, Merge(deleted, written) PROVE Valid(main')
  BY DEF Merge

LEMMA NextIsValid == Next => Valid(main')
  BY MergeIsValid DEF Next

\* Every state of the corpus passes validate_phase52.py as a whole.
THEOREM CorpusValid == Spec => []Valid(main)
<1>1. Init => Valid(main)
  BY DEF Init
<1>2. Valid(main) /\ [Next]_main => Valid(main)'
  <2>1. CASE Next
    BY <2>1, NextIsValid DEF Valid
  <2>2. CASE UNCHANGED main
    BY <2>2
  <2> QED BY <2>1, <2>2
<1> QED BY <1>1, <1>2, PTL DEF Spec

-----------------------------------------------------------------------------
(* identity *)

\* A sorted list is written from the items of the list and no others.
LEMMA SortedKeepsItems ==
  ASSUME NEW s, NEW t, sorted(s) = sorted(t) PROVE ToSet(s) = ToSet(t)
<1>1. DOMAIN sorted(s) = ToSet(s) /\ DOMAIN sorted(t) = ToSet(t)
  BY DEF sorted
<1> QED BY <1>1

\* Claims whose payloads are equal say the same.
LEMMA PayloadIsFact ==
  ASSUME NEW c, NEW d, claim_semantic_payload(c) = claim_semantic_payload(d)
  PROVE  Fact(c) = Fact(d)
<1> DEFINE S(r) == [label \in DOMAIN r.applicability |-> ToSet(r.applicability[label])]
<1>1. /\ c.subject_id = d.subject_id /\ c.predicate = d.predicate /\ c.object = d.object
      /\ normalize_applicability(c.applicability) = normalize_applicability(d.applicability)
  BY DEF claim_semantic_payload
<1>2. DOMAIN c.applicability = DOMAIN d.applicability
  <2>1. /\ DOMAIN normalize_applicability(c.applicability) = DOMAIN c.applicability
        /\ DOMAIN normalize_applicability(d.applicability) = DOMAIN d.applicability
    BY DEF normalize_applicability
  <2> QED BY <1>1, <2>1
<1>3. ASSUME NEW label \in DOMAIN c.applicability
      PROVE  ToSet(c.applicability[label]) = ToSet(d.applicability[label])
  <2>1. /\ normalize_applicability(c.applicability)[label] = sorted(c.applicability[label])
        /\ normalize_applicability(d.applicability)[label] = sorted(d.applicability[label])
    BY <1>2 DEF normalize_applicability
  <2>2. sorted(c.applicability[label]) = sorted(d.applicability[label])
    BY <1>1, <2>1
  <2> QED BY <2>2, SortedKeepsItems
<1>4. S(c) = S(d)
  BY <1>2, <1>3
<1> QED BY <1>1, <1>4 DEF Fact

LEMMA PartsOfId ==
  ASSUME NEW id, NEW type, NEW namespace, NEW key, id = <<type, namespace, key>>
  PROVE  id[1] = type /\ id[2] = namespace /\ id[3] = key
  OBVIOUS

\* In two valid corpora one identifier stands for one fact.
LEMMA IdentifierIsFact ==
  ASSUME NEW S, NEW T, Valid(S), Valid(T),
         NEW f \in S, NEW g \in T,
         f.record.record_kind = "claim", g.record.record_kind = "claim",
         f.record.id = g.record.id
  PROVE  Fact(f.record) = Fact(g.record)
<1>1. f.record \in Records(S) /\ g.record \in Records(T)
  BY DEF Records
<1>2. /\ validate_id_component_consistency(f.record) /\ validate_deterministic_identity(f.record)
      /\ validate_id_component_consistency(g.record) /\ validate_deterministic_identity(g.record)
  BY <1>1 DEF Valid, validate_semantics
<1>3. f.record.canonical_key = g.record.canonical_key
  <2>1. /\ f.record.id = <<"claim", f.record.namespace, f.record.canonical_key>>
        /\ g.record.id = <<"claim", g.record.namespace, g.record.canonical_key>>
    BY <1>2 DEF validate_id_component_consistency
  <2>2. f.record.id[3] = f.record.canonical_key /\ g.record.id[3] = g.record.canonical_key
    BY <2>1, PartsOfId
  <2> QED BY <2>2
<1>4. claim_semantic_payload(f.record) = claim_semantic_payload(g.record)
  BY <1>2, <1>3 DEF validate_deterministic_identity
<1> QED BY <1>4, PayloadIsFact

\* No change gives another meaning to the identifier of a claim
\* (validate_deterministic_identity).
THEOREM MeaningIsKept == Spec => ClaimsKeepMeaning
<1> DEFINE Kept == \A f \in Claims, g \in Claims' : f.record.id = g.record.id => Fact(f.record) = Fact(g.record)
<1>1. Valid(main) /\ [Next]_main => [Kept]_main
  <2> SUFFICES ASSUME Valid(main), Next PROVE Kept
    OBVIOUS
  <2>1. Valid(main')
    BY NextIsValid
  <2>2. \A f \in Claims : f \in main /\ f.record.record_kind = "claim"
    BY DEF Claims
  <2>3. \A g \in Claims' : g \in main' /\ g.record.record_kind = "claim"
    BY DEF Claims
  <2> QED BY <2>1, <2>2, <2>3, IdentifierIsFact
<1> QED BY <1>1, CorpusValid, PTL DEF Spec, ClaimsKeepMeaning

\* A list without repetitions, as the schema wants them.
Distinct(s) == \A i, j \in DOMAIN s : s[i] = s[j] => i = j

\* Sorted, lists of the same items are the same.
LEMMA SortedForgetsOrder ==
  ASSUME NEW s, NEW t, Distinct(s), Distinct(t), ToSet(s) = ToSet(t)
  PROVE  sorted(s) = sorted(t)
<1>1. ASSUME NEW u, Distinct(u) PROVE sorted(u) = [x \in ToSet(u) |-> 1]
  <2>1. ASSUME NEW x \in ToSet(u) PROVE Cardinality({i \in DOMAIN u : u[i] = x}) = 1
    <3>1. PICK j \in DOMAIN u : u[j] = x
      BY DEF ToSet
    <3>2. {i \in DOMAIN u : u[i] = x} = {j}
      BY <1>1, <3>1 DEF Distinct
    <3> QED BY <3>2, FS_Singleton
  <2> QED BY <2>1 DEF sorted
<1>2. sorted(s) = [x \in ToSet(s) |-> 1] /\ sorted(t) = [x \in ToSet(t) |-> 1]
  BY <1>1
<1> QED BY <1>2

\* Claims that say the same have equal payloads.
LEMMA FactIsPayload ==
  ASSUME NEW c, NEW d, Fact(c) = Fact(d),
         \A label \in DOMAIN c.applicability : Distinct(c.applicability[label]),
         \A label \in DOMAIN d.applicability : Distinct(d.applicability[label])
  PROVE  claim_semantic_payload(c) = claim_semantic_payload(d)
<1> DEFINE S(r) == [label \in DOMAIN r.applicability |-> ToSet(r.applicability[label])]
<1>1. c.subject_id = d.subject_id /\ c.predicate = d.predicate /\ c.object = d.object /\ S(c) = S(d)
  BY DEF Fact
<1>2. DOMAIN S(c) = DOMAIN c.applicability /\ DOMAIN S(d) = DOMAIN d.applicability
  OBVIOUS
<1>3. DOMAIN c.applicability = DOMAIN d.applicability
  BY <1>1, <1>2
<1>4. ASSUME NEW label \in DOMAIN c.applicability
      PROVE  sorted(c.applicability[label]) = sorted(d.applicability[label])
  <2>1. S(c)[label] = ToSet(c.applicability[label]) /\ S(d)[label] = ToSet(d.applicability[label])
    BY <1>3
  <2> HIDE DEF S
  <2>2. ToSet(c.applicability[label]) = ToSet(d.applicability[label])
    BY <1>1, <2>1
  <2> QED BY <1>3, <2>2, SortedForgetsOrder
<1>5. normalize_applicability(c.applicability) = normalize_applicability(d.applicability)
  BY <1>3, <1>4 DEF normalize_applicability
<1> QED BY <1>1, <1>5 DEF claim_semantic_payload

-----------------------------------------------------------------------------
(* references *)

\* No target of a reference is given that is not a record of a valid corpus.
LEMMA ReferencesResolve ==
  ASSUME NEW C, Valid(C), NEW r \in Records(C), NEW ref \in collect_references(r)
  PROVE  ref[1] \in Ids(C)
  BY DEF Valid, validate_semantics

\* What is collected of a relationship.
LEMMA EndsCollected ==
  ASSUME NEW r, r.record_kind = "relationship",
         NEW id \in {r.from, r.to} \union r.supporting_claim_ids, id \in {r.from, r.to} \/ id # None
  PROVE  \E ref \in collect_references(r) : ref[1] = id
<1>1. RelationshipReferences(r) \subseteq collect_references(r)
  <2>1. OwnReferences(r) = RelationshipReferences(r)
    BY DEF OwnReferences
  <2>2. OwnReferences(r) \subseteq collect_references(r)
    BY DEF collect_references
  <2> QED BY <2>1, <2>2
<1>2. \E ref \in RelationshipReferences(r) : ref[1] = id
  <2>1. CASE id \in {r.from, r.to}
    <3>1. PICK label : <<id, label>> \in RelationshipReferences(r)
      BY <2>1 DEF RelationshipReferences
    <3> QED BY <3>1
  <2>2. CASE id \in r.supporting_claim_ids /\ id # None
    <3>1. <<id, "relationship.supporting_claim_ids">> \in RelationshipReferences(r)
      BY <2>2 DEF RelationshipReferences, Labelled
    <3> QED BY <3>1
  <2> QED BY <2>1, <2>2
<1> QED BY <1>1, <1>2

\* The corpus is made of files of the project.
LEMMA CorpusOfFiles == Spec => [](main \subseteq File)
<1>1. Init => main \subseteq File
  BY DEF Init
<1>2. main \subseteq File /\ [Next]_main => (main \subseteq File)'
  <2> SUFFICES ASSUME main \subseteq File, Next PROVE main' \subseteq File
    OBVIOUS
  <2>1. CASE \E f \in main : Merge({f}, {})
    BY <2>1 DEF Merge, Changed
  <2>2. CASE \E written \in Writes, deleted \in {{}} \union {{f} : f \in main} : Merge(deleted, written)
    BY <2>2 DEF Merge, Changed, Writes
  <2> QED BY <2>1, <2>2 DEF Next
<1> QED BY <1>1, <1>2, PTL DEF Spec

\* One claim states one fact, as long as claims are of one namespace and repeat
\* nothing in their applicability, both of which their schema asks for, except
\* that it lets a version constraint be repeated (claim_semantic_payload).
THEOREM OneFactOneClaim ==
  ASSUME \A f, g \in File : f.record.record_kind = "claim" /\ g.record.record_kind = "claim" =>
           f.record.namespace = g.record.namespace,
         \A f \in File : f.record.record_kind = "claim" =>
           \A label \in DOMAIN f.record.applicability : Distinct(f.record.applicability[label])
  PROVE  Spec => []OneClaimPerFact
<1>1. Valid(main) /\ main \subseteq File => OneClaimPerFact
  <2> SUFFICES ASSUME Valid(main), main \subseteq File, NEW f \in Claims, NEW g \in Claims,
                      Fact(f.record) = Fact(g.record)
               PROVE  f = g
    BY DEF OneClaimPerFact
  <2> DEFINE c == f.record
             d == g.record
  <2>1. /\ f \in main /\ c \in Records(main) /\ c.record_kind = "claim"
        /\ g \in main /\ d \in Records(main) /\ d.record_kind = "claim"
    BY DEF Claims, Records
  <2>2. /\ validate_id_component_consistency(c) /\ validate_deterministic_identity(c)
        /\ validate_id_component_consistency(d) /\ validate_deterministic_identity(d)
    BY <2>1 DEF Valid, validate_semantics
  <2>3. c.namespace = d.namespace
    BY <2>1
  <2>4. claim_semantic_payload(c) = claim_semantic_payload(d)
    BY <2>1, FactIsPayload
  <2>5. c.canonical_key = d.canonical_key
    BY <2>1, <2>2, <2>4 DEF validate_deterministic_identity
  <2>6. c.id = <<"claim", c.namespace, c.canonical_key>> /\ d.id = <<"claim", d.namespace, d.canonical_key>>
    BY <2>1, <2>2 DEF validate_id_component_consistency
  <2>7. c.id = d.id
    BY <2>3, <2>5, <2>6
  <2> QED BY <2>1, <2>7 DEF Valid, validate_semantics
<1> QED BY <1>1, CorpusValid, CorpusOfFiles, PTL

-----------------------------------------------------------------------------
(* names *)

\* Two aliases that the resolver takes for one query are equal in the eyes of
\* the check of collisions.
LEMMA AnswersAreEqual ==
  ASSUME NEW a, NEW b, NEW namespace,
         AliasAnswers(a, b.value, namespace), AliasAnswers(b, b.value, namespace)
  PROVE  _alias_values_equal(a, b)
  BY DEF AliasAnswers, Same, _alias_values_equal

\* Whatever is asked, in a namespace or without one, two entities whose aliases
\* answer are told apart by a scope (validate_alias_collisions, resolve_query).
THEOREM AliasesResolve == Spec => []AliasResolvesOne
<1>1. Valid(main) => AliasResolvesOne
  <2> SUFFICES ASSUME Valid(main), NEW r \in Entities(main), NEW s \in Entities(main), r.id # s.id,
                      NEW a \in ToSet(r.aliases), NEW b \in ToSet(s.aliases),
                      NEW namespace \in {None, r.namespace},
                      AliasAnswers(a, b.value, namespace), AliasAnswers(b, b.value, namespace)
               PROVE  \E scope \in Scopes \ (IF namespace = None THEN {} ELSE {"namespace"}) :
                        None \notin {a[scope], b[scope]} /\ a[scope] # b[scope]
    BY DEF AliasResolvesOne
  <2>1. ~_alias_scopes_overlap(a, b)
    BY AnswersAreEqual DEF Valid, validate_semantics, validate_alias_collisions
  <2>2. PICK scope \in Scopes : a[scope] # None /\ b[scope] # None /\ a[scope] # b[scope]
    BY <2>1 DEF _alias_scopes_overlap
  <2>3. ASSUME namespace # None PROVE scope # "namespace"
    <3>1. a.namespace \in {None, namespace} /\ b.namespace \in {None, namespace}
      BY <2>3 DEF AliasAnswers
    <3>2. a.namespace = a["namespace"] /\ b.namespace = b["namespace"]
      OBVIOUS
    <3> QED BY <2>2, <3>1, <3>2
  <2> QED BY <2>2, <2>3
<1> QED BY <1>1, CorpusValid, PTL

\* An identifier of before the migration leads to the entity that took its
\* place, as long as its namespace is registered no more (validate_migration,
\* validate_id_component_consistency).
THEOREM OldIdentifiersLead ==
  ASSUME \A m \in Mapping : m.old_id[2] \notin Registry["namespaces"]
  PROVE  Spec => []OldIdsLead
<1>1. Valid(main) => OldIdsLead
  <2> SUFFICES ASSUME Valid(main), NEW m \in Mapping, m.migration_type = "legacy-canonical-id-alias"
               PROVE  m.new_id \in resolve_query(main, [word |-> m.old_id, spelling |-> "exact"], None)
    BY DEF OldIdsLead
  <2> DEFINE q == [word |-> m.old_id, spelling |-> "exact"]
  <2>1. PICK r \in Record(main, m.new_id) : r.record_kind = "entity" /\
          \E a \in ToSet(r.aliases) : a.kind = "legacy-canonical-id" /\ a.value = q
    BY DEF Valid, validate_migration
  <2>2. PICK a \in ToSet(r.aliases) : a.value = q
    BY <2>1
  <2>3. r \in Entities(main) /\ r.id = m.new_id
    BY <2>1 DEF Record, Entities
  <2>4. AliasAnswers(a, q, None)
    BY <2>2 DEF AliasAnswers, Same
  <2>5. ASSUME NEW id \in Ids(main), q = [word |-> id, spelling |-> "exact"] PROVE FALSE
    <3>1. PICK o \in Records(main) : o.id = id
      BY DEF Ids
    <3>2. o.id = <<IF o.record_kind = "entity" THEN o.entity_type ELSE o.record_kind, o.namespace, o.canonical_key>>
          /\ o.namespace \in Registry["namespaces"]
      BY <3>1 DEF Valid, validate_semantics, validate_id_component_consistency
    <3>3. o.id[2] = o.namespace
      BY <3>2, PartsOfId
    <3>4. id = m.old_id
      BY <2>5
    <3> QED BY <3>1, <3>2, <3>3, <3>4
  <2> HIDE DEF q
  <2>6. m.new_id \in resolve_query(main, q, None)
    BY <2>3, <2>4, <2>5 DEF resolve_query
  <2> QED BY <2>6 DEF q
<1> QED BY <1>1, CorpusValid, PTL

-----------------------------------------------------------------------------
(* the telemetry spine *)

Spine == Structural \ {"RUNS_ON"}

\* How far down the spine a type of entity is.
Above(x, y) ==
  \/ x = "product" /\ y = "telemetry-provider"
  \/ x = "telemetry-provider" /\ y = "telemetry-source"
  \/ x = "telemetry-source" /\ y \in TelemetryEntity
  \/ x \in TelemetryEntity /\ y = "field"

\* A required kind holds of the identifier as well, whose first part it is.
LEMMA RequiredType ==
  ASSUME NEW C, Valid(C), NEW id \in Ids(C), NEW types, types # {},
         _require_kind(id, Of("entity", types), C)
  PROVE  id[1] \in types
<1>1. PICK t \in Records(C) : t.id = id
  BY DEF Ids
<1>2. t.record_kind = "entity" /\ t.entity_type \in types
  BY <1>1 DEF _require_kind, Record, Of
<1>3. t.id = <<t.entity_type, t.namespace, t.canonical_key>>
  BY <1>1, <1>2 DEF Valid, validate_semantics, validate_id_component_consistency
<1> QED BY <1>1, <1>2, <1>3, PartsOfId

\* Every edge of the spine goes one layer down.
LEMMA EdgeGoesDown ==
  ASSUME NEW C, Valid(C), NEW r \in Records(C), r.record_kind = "relationship", r.relationship_type \in Spine
  PROVE  Above(r.from[1], r.to[1])
<1> DEFINE ends == Ends(r.relationship_type)
<1>1. validate_structural_relationship(r, C)
  BY DEF Valid, validate_semantics
<1>2. /\ _require_kind(r.from, Of("entity", ends[1]), C)
      /\ _require_kind(r.to, Of("entity", ends[2]), C)
  BY <1>1 DEF validate_structural_relationship, Spine
<1>3. r.from \in Ids(C) /\ r.to \in Ids(C)
  BY EndsCollected, ReferencesResolve
<1>4. ends[1] # {} /\ ends[2] # {} => r.from[1] \in ends[1] /\ r.to[1] \in ends[2]
  BY <1>2, <1>3, RequiredType
<1>5. CASE r.relationship_type = "HAS_TELEMETRY_PROVIDER"
  <2>1. ends = <<{"product"}, {"telemetry-provider"}>> BY <1>5 DEF Ends
  <2> QED BY <1>4, <2>1 DEF Above
<1>6. CASE r.relationship_type = "HAS_TELEMETRY_SOURCE"
  <2>1. ends = <<{"telemetry-provider"}, {"telemetry-source"}>> BY <1>6 DEF Ends
  <2> QED BY <1>4, <2>1 DEF Above
<1>7. CASE r.relationship_type = "EMITS"
  <2>1. ends = <<{"telemetry-source"}, TelemetryEntity>> BY <1>7 DEF Ends
  <2> QED BY <1>4, <2>1 DEF Above, TelemetryEntity
<1>8. CASE r.relationship_type = "HAS_FIELD"
  <2>1. ends = <<TelemetryEntity, {"field"}>> BY <1>8 DEF Ends
  <2> QED BY <1>4, <2>1 DEF Above, TelemetryEntity
<1> QED BY <1>5, <1>6, <1>7, <1>8 DEF Spine, Structural

\* No set of records of the spine in which each contains another: from a member
\* five steps lead below the last layer (validate_structural_relationship).
THEOREM SpineHasNoCycle == Spec => []NoContainmentCycle
<1>1. Valid(main) => NoContainmentCycle
  <2> DEFINE inside == {<<r.from, r.to>> : r \in {r \in Relationships : r.relationship_type \in Spine}}
             ends   == {e[1] : e \in inside}
  <2> SUFFICES ASSUME Valid(main), NEW S \in (SUBSET ends) \ {{}},
                      \A x \in S : \E y \in S : <<x, y>> \in inside
               PROVE  FALSE
    BY DEF NoContainmentCycle, Spine
  <2>1. ASSUME NEW x \in S PROVE \E y \in S : Above(x[1], y[1])
    <3>1. PICK y \in S : <<x, y>> \in inside
      OBVIOUS
    <3>2. PICK r \in Relationships : r.relationship_type \in Spine /\ <<x, y>> = <<r.from, r.to>>
      BY <3>1
    <3>3. r \in Records(main) /\ r.record_kind = "relationship" /\ x = r.from /\ y = r.to
      BY <3>2 DEF Relationships
    <3> QED BY <3>2, <3>3, EdgeGoesDown
  <2>2. \A x \in S : x[1] # "field"
    BY <2>1 DEF Above, TelemetryEntity
  <2>3. \A x \in S : x[1] \notin TelemetryEntity
    BY <2>1, <2>2 DEF Above, TelemetryEntity
  <2>4. \A x \in S : x[1] # "telemetry-source"
    BY <2>1, <2>3 DEF Above, TelemetryEntity
  <2>5. \A x \in S : x[1] # "telemetry-provider"
    BY <2>1, <2>4 DEF Above, TelemetryEntity
  <2>6. \A x \in S : x[1] # "product"
    BY <2>1, <2>5 DEF Above, TelemetryEntity
  <2>7. PICK x \in S : TRUE
    OBVIOUS
  <2> QED BY <2>1, <2>2, <2>3, <2>4, <2>5, <2>6, <2>7 DEF Above
<1> QED BY <1>1, CorpusValid, PTL

-----------------------------------------------------------------------------
(* numbers *)

Numeral(n) == [1..n -> Digit]

\* The values of the first k digits, for each k.
Values(v, n, t) ==
  v \in [0..n -> Nat] /\ v[0] = 0 /\ \A k \in 1..n : v[k] = 10 * v[k-1] + (t[k] - Zero)

LEMMA NumberUnfolds ==
  ASSUME NEW n \in Nat, NEW t \in Numeral(n)
  PROVE  \E v : Values(v, n, t) /\ Number(t) = v[n]
<1> DEFINE step == [k \in 1..n |-> [a \in Nat |-> 10 * a + (t[k] - Zero)]]
           F(f) == [k \in 0..n |-> IF k = 0 THEN 0 ELSE 10 * f[k-1] + (t[k] - Zero)]
           value[k \in 0..n] == IF k = 0 THEN 0 ELSE 10 * value[k-1] + (t[k] - Zero)
<1>1. Len(t) = n
  BY DEF Numeral
<1>2. Number(t) = value[n]
  BY <1>1 DEF Number
<1>3. value = CHOOSE f : f = F(f)
  OBVIOUS
<1>4. step \in [1..n -> [Nat -> Nat]]
  BY DEF Numeral, Digit, Zero
<1>5. \A k \in 1..n, a \in Nat : step[k][a] = 10 * a + (t[k] - Zero)
  OBVIOUS
<1> HIDE DEF value, step
<1>6. Defined(n, Nat, 0, step)
  BY <1>4, Recursion, Zenon
<1>7. PICK f \in [0..n -> Nat] : f[0] = 0 /\ \A k \in 1..n : f[k] = step[k][f[k-1]]
  BY <1>6 DEF Defined
<1>8. f = F(f)
  <2>1. \A k \in 1..n : f[k-1] \in Nat
    BY <1>7
  <2>2. \A k \in 1..n : f[k] = 10 * f[k-1] + (t[k] - Zero)
    BY <1>5, <1>7, <2>1
  <2>3. \A k \in 0..n : k = 0 \/ k \in 1..n
    OBVIOUS
  <2>4. \A k \in 0..n : f[k] = IF k = 0 THEN 0 ELSE 10 * f[k-1] + (t[k] - Zero)
    BY <1>7, <2>2, <2>3
  <2>5. f = [k \in 0..n |-> f[k]]
    BY <1>7
  <2>6. QED
    BY <2>4, <2>5, Zenon
<1>9. value = F(value)
  BY <1>3, <1>8
<1>10. Unfolds(value, n, Nat, 0, step)
  BY <1>5, <1>9 DEF Unfolds
<1>11. value \in [0..n -> Nat]
  BY <1>4, <1>10, RecursiveFunction, Zenon
<1>12. Values(value, n, t)
  BY <1>9, <1>11 DEF Values
<1>13. QED
  BY <1>2, <1>12

LEMMA NumberType ==
  ASSUME NEW n \in Nat, NEW t \in Numeral(n) PROVE Number(t) \in Nat
<1>1. PICK v : Values(v, n, t) /\ Number(t) = v[n]
  BY NumberUnfolds
<1>2. QED
  BY <1>1 DEF Values

\* A number that has no leading zero is written in one way.
Canonical(n, t) == n > 1 => t[1] # Zero

LEMMA LongerIsSame ==
  ASSUME NEW n \in Nat \ {0}, NEW m \in Nat \ {0}, n <= m,
         NEW s \in Numeral(n), NEW t \in Numeral(m), Canonical(m, t), Number(s) = Number(t)
  PROVE  n = m /\ s = t
<1>1. PICK v : Values(v, n, s) /\ Number(s) = v[n]
  BY NumberUnfolds
<1>2. PICK w : Values(w, m, t) /\ Number(t) = w[m]
  BY NumberUnfolds
<1> DEFINE S == {j \in 0..n : v[n-j] = w[m-j]}
<1>3. 0 \in S
  <2>1. v[n] = w[m]
    BY <1>1, <1>2, Zenon
  <2>2. n - 0 = n /\ m - 0 = m /\ 0 \in 0..n
    OBVIOUS
  <2>3. QED
    BY <2>1, <2>2
<1>4. ASSUME NEW a \in Nat, NEW b \in Nat, NEW d \in 0..9, NEW e \in 0..9, 10 * a + d = 10 * b + e
      PROVE  a = b /\ d = e
  BY <1>4
<1>5. ASSUME NEW j \in 1..n, j - 1 \in S
      PROVE  v[n-j] = w[m-j] /\ s[n-j+1] = t[m-j+1]
  <2> DEFINE a == v[n-j]
             b == w[m-j]
             d == s[n-j+1] - Zero
             e == t[m-j+1] - Zero
  <2>1. n-j+1 \in 1..n /\ m-j+1 \in 1..m /\ n-j \in 0..n /\ m-j \in 0..m
        /\ (n-j+1) - 1 = n-j /\ (m-j+1) - 1 = m-j /\ n-(j-1) = n-j+1 /\ m-(j-1) = m-j+1
    OBVIOUS
  <2>2. a \in Nat /\ b \in Nat /\ d \in 0..9 /\ e \in 0..9
    <3>1. a \in Nat /\ b \in Nat
      BY <1>1, <1>2, <2>1 DEF Values
    <3>2. s[n-j+1] \in Digit /\ t[m-j+1] \in Digit
      BY <2>1 DEF Numeral
    <3>3. \A x \in Digit : x - Zero \in 0..9
      BY DEF Digit, Zero
    <3>4. QED
      BY <3>1, <3>2, <3>3
  <2>3. v[n-j+1] = 10 * a + d /\ w[m-j+1] = 10 * b + e
    BY <1>1, <1>2, <2>1 DEF Values
  <2>4. v[n-j+1] = w[m-j+1]
    BY <1>5, <2>1
  <2>5. s[n-j+1] \in Int /\ t[m-j+1] \in Int
    BY <2>1 DEF Numeral, Digit
  <2> HIDE DEF a, b
  <2>6. a = b /\ d = e
    BY <1>4, <2>2, <2>3, <2>4
  <2>7. QED
    BY <2>5, <2>6 DEF a, b, Zero
<1>6. ASSUME NEW j \in 1..n, j - 1 \in S PROVE j \in S
  BY <1>5, <1>6
<1> HIDE DEF S
<1>7. 0..n \subseteq S
  BY <1>3, <1>6, IntervalInduction
<1>8. \A j \in 1..n : s[n-j+1] = t[m-j+1]
  <2> SUFFICES ASSUME NEW j \in 1..n PROVE s[n-j+1] = t[m-j+1]
    OBVIOUS
  <2>1. j - 1 \in S
    BY <1>7
  <2>2. QED
    BY <1>5, <2>1
<1>9. w[m-n] = 0
  <2>1. n \in S
    BY <1>7
  <2>2. QED
    BY <1>1, <2>1 DEF S, Values
<1>10. n = m
  <2> SUFFICES ASSUME n < m PROVE FALSE
    OBVIOUS
  <2>1. t[1] # Zero /\ t[1] \in Digit
    BY DEF Canonical, Numeral
  <2> DEFINE T == {k \in 0..m : k > 0 => w[k] > 0}
  <2>2. 0 \in T
    OBVIOUS
  <2>3. ASSUME NEW k \in 1..m, k - 1 \in T PROVE k \in T
    <3>1. /\ w[k] = 10 * w[k-1] + (t[k] - Zero) /\ w[k-1] \in Nat
          /\ t[k] \in Digit
      <4>1. k - 1 \in 0..m
        OBVIOUS
      <4>2. w \in [0..m -> Nat] /\ w[k] = 10 * w[k-1] + (t[k] - Zero)
        BY <1>2 DEF Values
      <4>3. w[k-1] \in Nat
        BY <4>1, <4>2, Zenon
      <4>4. t[k] \in Digit
        BY DEF Numeral
      <4>5. QED
        BY <4>2, <4>3, <4>4
    <3>2. CASE k = 1
      BY <2>1, <3>1, <3>2 DEF Digit, Zero
    <3>3. CASE k > 1
      <4>1. w[k-1] > 0
        BY <2>3, <3>3
      <4> DEFINE x == w[k-1]
      <4> HIDE DEF x, T
      <4>2. x \in Nat /\ x > 0
        BY <3>1, <4>1 DEF x
      <4>3. w[k] > 0
        BY <3>1, <4>2 DEF x, Digit, Zero
      <4>4. QED
        BY <4>3 DEF T
    <3>4. QED
      BY <3>2, <3>3
  <2> HIDE DEF T
  <2>4. 0..m \subseteq T
    BY <2>2, <2>3, IntervalInduction
  <2>5. m - n \in T /\ m - n > 0
    BY <2>4
  <2>6. QED
    BY <1>9, <2>5 DEF T
<1>11. \A i \in 1..n : s[i] = t[i]
  <2> SUFFICES ASSUME NEW i \in 1..n PROVE s[i] = t[i]
    OBVIOUS
  <2>1. n - i + 1 \in 1..n /\ n - (n - i + 1) + 1 = i /\ m - (n - i + 1) + 1 = i
    BY <1>10
  <2> DEFINE j == n - i + 1
  <2>2. s[n-j+1] = t[m-j+1]
    BY <1>8, <2>1
  <2>3. QED
    BY <2>1, <2>2
<1>12. QED
  BY <1>10, <1>11 DEF Numeral

LEMMA NumbersDiffer ==
  ASSUME NEW n \in Nat \ {0}, NEW m \in Nat \ {0}, NEW s \in Numeral(n), NEW t \in Numeral(m),
         Canonical(n, s), Canonical(m, t), Number(s) = Number(t)
  PROVE  s = t
<1>1. CASE n <= m
  BY <1>1, LongerIsSame
<1>2. CASE m <= n
  BY <1>2, LongerIsSame
<1>3. QED
  BY <1>1, <1>2

-----------------------------------------------------------------------------
(* the first difference of two sequences *)

\* Up to k the two agree, and x may have ended there.
AgreeTo(x, y, k) == k <= Len(x) + 1 /\ \A j \in 1..(k-1) : x[j] = y[j]

FirstDiff(x, y) == First(Differences(x, y))

LEMMA FirstIsLeast ==
  ASSUME NEW S \in SUBSET Nat, S # {}
  PROVE  First(S) \in S /\ \A j \in S : First(S) <= j
<1>1. \E i \in S : \A j \in S : i <= j
  BY Least
<1>2. QED
  BY <1>1, Zenon DEF First

\* Position i is the first at which x and y, of n and m items, differ.
IsFirst(x, y, n, m, i) ==
  /\ i \in 1..n /\ i \in 1..m /\ x[i] # y[i]
  /\ AgreeTo(x, y, i)
  /\ \A k \in 1..m : AgreeTo(x, y, k) /\ k # i => k <= n /\ x[k] = y[k]

\* Where x and y differ, the position that Lower asks for can only be the
\* first difference; where one goes on as the other, only what follows its end.
LEMMA FirstDifference ==
  ASSUME NEW S, NEW n \in Nat, NEW m \in Nat, NEW x \in [1..n -> S], NEW y \in [1..m -> S],
         Differences(x, y) # {}
  PROVE  IsFirst(x, y, n, m, FirstDiff(x, y))
<1> DEFINE D == Differences(x, y)
           i == FirstDiff(x, y)
<1>1. Len(x) = n /\ Len(y) = m /\ DOMAIN x = 1..n /\ DOMAIN y = 1..m
  OBVIOUS
<1>2. D = {k \in 1..n : k \in 1..m /\ x[k] # y[k]}
  BY <1>1 DEF Differences
<1>3. D # {}
  OBVIOUS
<1> HIDE DEF D, i
<1>4. D \in SUBSET Nat
  BY <1>2
<1>5. i \in D /\ \A j \in D : i <= j
  BY <1>3, <1>4, FirstIsLeast DEF i, D, FirstDiff
<1>6. i \in 1..n /\ i \in 1..m /\ x[i] # y[i]
  BY <1>2, <1>5
<1>7. \A j \in 1..(i-1) : x[j] = y[j]
  <2> SUFFICES ASSUME NEW j \in 1..(i-1) PROVE x[j] = y[j]
    OBVIOUS
  <2>1. j \in 1..n /\ j \in 1..m /\ ~(i <= j)
    BY <1>6
  <2>2. j \notin D
    BY <1>5, <2>1
  <2>3. QED
    BY <1>2, <2>1, <2>2
<1>8. ASSUME NEW k \in 1..m, AgreeTo(x, y, k), k # i
      PROVE  k <= n /\ x[k] = y[k]
  <2>1. k < i
    <3>1. ASSUME i < k PROVE FALSE
      <4>1. i \in 1..(k-1)
        BY <1>6, <3>1
      <4>2. QED
        BY <1>6, <1>8, <4>1 DEF AgreeTo
    <3>2. QED
      BY <1>6, <1>8, <3>1
  <2>2. k \in 1..(i-1) /\ k <= n
    BY <1>6, <2>1
  <2>3. QED
    BY <1>7, <2>2
<1>9. AgreeTo(x, y, i)
  BY <1>1, <1>6, <1>7 DEF AgreeTo
<1>10. QED
  BY <1>6, <1>8, <1>9 DEF i, IsFirst

LEMMA NoDifference ==
  ASSUME NEW S, NEW n \in Nat, NEW m \in Nat, NEW x \in [1..n -> S], NEW y \in [1..m -> S],
         Differences(x, y) = {}
  PROVE  /\ n = m => x = y
         /\ n < m => AgreeTo(x, y, n + 1)
         /\ \A k \in 1..m : AgreeTo(x, y, k) => (k <= n /\ x[k] = y[k]) \/ n < m
<1>1. Len(x) = n /\ Len(y) = m /\ DOMAIN x = 1..n /\ DOMAIN y = 1..m
  OBVIOUS
<1>2. \A k \in 1..m : k <= n => x[k] = y[k]
  BY <1>1 DEF Differences
<1>3. n = m => x = y
  BY <1>2
<1>4. n < m => AgreeTo(x, y, n + 1)
  BY <1>1, <1>2 DEF AgreeTo
<1>5. \A k \in 1..m : AgreeTo(x, y, k) => (k <= n /\ x[k] = y[k]) \/ n < m
  BY <1>1, <1>2 DEF AgreeTo
<1>6. QED
  BY <1>3, <1>4, <1>5

LEMMA SameItems ==
  ASSUME NEW S, NEW n \in Nat, NEW x \in [1..n -> S], NEW y \in [1..n -> S], Differences(x, y) = {}
  PROVE  x = y
  BY DEF Differences

LEMMA DifferencesSymmetric == \A x, y : Differences(x, y) = Differences(y, x)
  BY DEF Differences

\* Lower, with the order of the items as a set of pairs.
LowerIn(x, y, R) ==
  \E k \in 1..Len(y) : AgreeTo(x, y, k) /\ (k <= Len(x) => <<x[k], y[k]>> \in R)

\* The lower of two sequences is the lower at the first difference, and the
\* shorter where there is none.
LEMMA LowerAtFirst ==
  ASSUME NEW S, NEW R, NEW n \in Nat, NEW m \in Nat, NEW x \in [1..n -> S], NEW y \in [1..m -> S],
         \A a \in S : <<a, a>> \notin R
  PROVE  /\ Differences(x, y) # {} => (LowerIn(x, y, R) <=> <<x[FirstDiff(x, y)], y[FirstDiff(x, y)]>> \in R)
         /\ Differences(x, y) = {} => (LowerIn(x, y, R) <=> n < m)
<1>1. LowerIn(x, y, R) <=> \E k \in 1..m : AgreeTo(x, y, k) /\ (k <= n => <<x[k], y[k]>> \in R)
  <2>1. Len(x) = n /\ Len(y) = m
    OBVIOUS
  <2>2. QED
    BY <2>1 DEF LowerIn
<1>2. \A k \in 1..m : k <= n /\ x[k] = y[k] => <<x[k], y[k]>> \notin R
  OBVIOUS
<1>3. ASSUME Differences(x, y) # {}
      PROVE  LowerIn(x, y, R) <=> <<x[FirstDiff(x, y)], y[FirstDiff(x, y)]>> \in R
  <2> DEFINE i == FirstDiff(x, y)
  <2>1. IsFirst(x, y, n, m, i)
    BY <1>3, FirstDifference
  <2> HIDE DEF i
  <2>2. /\ i \in 1..n /\ i \in 1..m /\ AgreeTo(x, y, i) /\ i <= n
        /\ \A k \in 1..m : AgreeTo(x, y, k) /\ k # i => k <= n /\ x[k] = y[k]
    BY <2>1 DEF IsFirst
  <2>3. LowerIn(x, y, R) <=> <<x[i], y[i]>> \in R
    BY <1>1, <1>2, <2>2, Zenon
  <2>4. QED
    BY <2>3 DEF i
<1>4. ASSUME Differences(x, y) = {} PROVE LowerIn(x, y, R) <=> n < m
  <2>1. /\ n < m => AgreeTo(x, y, n + 1)
        /\ \A k \in 1..m : AgreeTo(x, y, k) => (k <= n /\ x[k] = y[k]) \/ n < m
    BY <1>4, NoDifference
  <2>2. ASSUME n < m PROVE LowerIn(x, y, R)
    <3>1. n + 1 \in 1..m /\ ~(n + 1 <= n)
      BY <2>2
    <3>2. QED
      BY <1>1, <2>1, <2>2, <3>1
  <2>3. LowerIn(x, y, R) => n < m
    BY <1>1, <1>2, <2>1, Zenon
  <2>4. QED
    BY <2>2, <2>3
<1>5. QED
  BY <1>3, <1>4

LowerPairs == {p \in Int \X Int : p[1] < p[2]}

\* A list of numbers, and one of identifiers, is lower where Lower says so.
LowerNumbers(x, y) == Lower(x, y, <)
LowerPre(x, y) == Lower(x, y, LowerIdentifier)

LEMMA LowerNumbersIn ==
  ASSUME NEW n \in Nat, NEW m \in Nat, NEW x \in [1..n -> Int], NEW y \in [1..m -> Int]
  PROVE  LowerNumbers(x, y) <=> LowerIn(x, y, LowerPairs)
<1>1. \A k \in 1..m : k <= n => (x[k] < y[k] <=> <<x[k], y[k]>> \in LowerPairs)
  BY DEF LowerPairs
<1>2. Len(x) = n /\ Len(y) = m
  OBVIOUS
<1>3. QED
  BY <1>1, <1>2 DEF LowerNumbers, Lower, LowerIn, AgreeTo

LEMMA NumbersOrdered ==
  ASSUME NEW n \in Nat, NEW m \in Nat, NEW x \in [1..n -> Int], NEW y \in [1..m -> Int]
  PROVE  /\ Differences(x, y) # {} => (LowerNumbers(x, y) <=> x[FirstDiff(x, y)] < y[FirstDiff(x, y)])
         /\ Differences(x, y) = {} => (LowerNumbers(x, y) <=> n < m)
<1>1. \A a \in Int : <<a, a>> \notin LowerPairs
  BY DEF LowerPairs
<1>2. /\ Differences(x, y) # {} => (LowerNumbers(x, y) <=> <<x[FirstDiff(x, y)], y[FirstDiff(x, y)]>> \in LowerPairs)
      /\ Differences(x, y) = {} => (LowerNumbers(x, y) <=> n < m)
  BY <1>1, LowerAtFirst, LowerNumbersIn, Zenon
<1>3. ASSUME Differences(x, y) # {}
      PROVE  FirstDiff(x, y) \in 1..n /\ FirstDiff(x, y) \in 1..m
  <2>1. IsFirst(x, y, n, m, FirstDiff(x, y))
    BY <1>3, FirstDifference, Zenon
  <2>2. QED
    BY <2>1 DEF IsFirst
<1>4. \A i \in 1..n : i \in 1..m => (<<x[i], y[i]>> \in LowerPairs <=> x[i] < y[i])
  BY DEF LowerPairs
<1>5. QED
  BY <1>2, <1>3, <1>4

LEMMA SameFirstDiff == \A x, y : FirstDiff(x, y) = FirstDiff(y, x)
  BY DifferencesSymmetric DEF FirstDiff

\* Of two different sequences of numbers exactly one is lower.
LEMMA NumbersTotal ==
  ASSUME NEW n \in Nat, NEW m \in Nat, NEW x \in [1..n -> Int], NEW y \in [1..m -> Int], x # y
  PROVE  LowerNumbers(x, y) <=> ~LowerNumbers(y, x)
<1>1. CASE Differences(x, y) # {}
  <2> DEFINE i == FirstDiff(x, y)
  <2>1. IsFirst(x, y, n, m, i)
    BY <1>1, FirstDifference, Zenon
  <2>2. x[i] \in Int /\ y[i] \in Int /\ x[i] # y[i]
    BY <2>1 DEF IsFirst
  <2>3. LowerNumbers(x, y) <=> x[i] < y[i]
    BY <1>1, NumbersOrdered, Zenon
  <2>4. LowerNumbers(y, x) <=> y[i] < x[i]
    <3>1. Differences(y, x) # {} /\ FirstDiff(y, x) = i
      BY <1>1, DifferencesSymmetric, SameFirstDiff, Zenon
    <3>2. LowerNumbers(y, x) <=> y[FirstDiff(y, x)] < x[FirstDiff(y, x)]
      BY <3>1, NumbersOrdered, Zenon
    <3>3. QED
      BY <3>1, <3>2, Zenon
  <2> HIDE DEF i
  <2>5. QED
    BY <2>2, <2>3, <2>4
<1>2. CASE Differences(x, y) = {}
  <2>1. Differences(y, x) = {}
    BY <1>2, DifferencesSymmetric, Zenon
  <2>2. n # m
    BY <1>2, NoDifference, Zenon
  <2>3. (LowerNumbers(x, y) <=> n < m) /\ (LowerNumbers(y, x) <=> m < n)
    BY <1>2, <2>1, NumbersOrdered, Zenon
  <2>4. QED
    BY <2>2, <2>3
<1>3. QED
  BY <1>1, <1>2

\* TextBefore is that order on the codes of the characters.
LEMMA TextIsNumbers ==
  ASSUME NEW n \in Nat, NEW m \in Nat, NEW s \in [1..n -> Int], NEW t \in [1..m -> Int]
  PROVE  TextBefore(s, t) <=> LowerNumbers(s, t)
<1>1. Len(s) = n /\ Len(t) = m
  OBVIOUS
<1>2. ASSUME NEW i \in 1..m, i <= n + 1
      PROVE  SubSeq(s, 1, i-1) = SubSeq(t, 1, i-1) <=> \A j \in 1..(i-1) : s[j] = t[j]
  <2>1. /\ SubSeq(s, 1, i-1) = [j \in 1..(i-1) |-> s[j]]
        /\ SubSeq(t, 1, i-1) = [j \in 1..(i-1) |-> t[j]]
    BY <1>2
  <2>2. QED
    BY <2>1
<1>3. TextBefore(s, t) <=>
        \E i \in 1..m : /\ i <= n + 1 /\ SubSeq(s, 1, i-1) = SubSeq(t, 1, i-1)
                        /\ i <= n => s[i] < t[i]
  BY <1>1 DEF TextBefore
<1>4. LowerNumbers(s, t) <=>
        \E i \in 1..m : /\ i <= n + 1 /\ \A j \in 1..(i-1) : s[j] = t[j]
                        /\ i <= n => s[i] < t[i]
  BY <1>1 DEF LowerNumbers, Lower
<1>5. QED
  BY <1>2, <1>3, <1>4, Zenon

-----------------------------------------------------------------------------
(* identifiers *)

\* An identifier that parseSemver admits.
Admitted(t) == t \in Identifier /\ ~(Atoi(t).ok /\ Len(t) > 1 /\ Head(t) = Zero)

LEMMA IdentifierIsText ==
  ASSUME NEW t \in Identifier
  PROVE  \E n \in Nat \ {0} : t \in [1..n -> Int] /\ t \in [1..n -> Char]
<1>1. PICK n \in 0..MaxChars : t \in [1..n -> Char]
  BY Zenon DEF Identifier, SeqOf
<1>2. n # 0
  BY <1>1 DEF Identifier
<1>3. Char \subseteq Int
  BY CharAssumption DEF Hyphen, Digit
<1>4. n \in Nat \ {0}
  BY <1>2
<1>5. t \in [1..n -> Int]
  BY <1>1, <1>3
<1>6. QED
  BY <1>1, <1>4, <1>5

LEMMA DigitsAreNumeral ==
  ASSUME NEW n \in Nat \ {0}, NEW t \in [1..n -> Int]
  PROVE  (Digits(t) <=> t \in Numeral(n)) /\ Len(t) = n /\ Head(t) = t[1]
<1>1. DOMAIN t = 1..n /\ Len(t) = n /\ t # <<>> /\ Head(t) = t[1]
  OBVIOUS
<1>2. Digits(t) <=> \A i \in 1..n : t[i] \in Digit
  BY <1>1 DEF Digits
<1>3. QED
  BY <1>1, <1>2 DEF Numeral

\* Within the width Atoi takes an identifier without a sign as SemVer does.
LEMMA AtoiIsNumber ==
  ASSUME WithinWidth, NEW t \in Identifier, ~Signed(t)
  PROVE  (Atoi(t).ok <=> Digits(t)) /\ (Digits(t) => Atoi(t).value = Number(t))
<1>1. PICK n \in Nat \ {0} : t \in [1..n -> Int]
  BY IdentifierIsText
<1>2. CASE Head(t) = Hyphen
  <2>1. ~Digits(t)
    BY <1>1, <1>2, DigitsAreNumeral DEF Numeral, Digit, Hyphen
  <2>2. ~Digits(Unsigned(t))
    BY <1>2 DEF Unsigned, Signed
  <2>3. ~Atoi(t).ok
    BY <2>2 DEF Atoi
  <2>4. QED
    BY <2>1, <2>3
<1>3. CASE Head(t) # Hyphen
  <2>1. Unsigned(t) = t
    BY <1>3 DEF Unsigned
  <2>2. CASE ~Digits(t)
    BY <2>1, <2>2 DEF Atoi
  <2>3. CASE Digits(t)
    <3>1. Number(t) \in Nat /\ Number(t) <= MaxInt
      BY <1>1, <2>3, DigitsAreNumeral, NumberType DEF WithinWidth
    <3>2. -MaxInt - 1 <= Number(t)
      BY <3>1, CoreAssumption
    <3>3. Atoi(t) = [ok |-> TRUE, value |-> Number(t)]
      BY <1>3, <2>1, <2>3, <3>1, <3>2, Zenon DEF Atoi
    <3>4. QED
      BY <2>3, <3>3
  <2>4. QED
    BY <2>2, <2>3
<1>4. QED
  BY <1>2, <1>3

\* A number that parseSemver admits has no leading zero.
LEMMA AdmittedIsCanonical ==
  ASSUME WithinWidth, NEW t, Admitted(t), Digits(t), NEW n \in Nat \ {0}, t \in Numeral(n)
  PROVE  Canonical(n, t)
<1>1. t \in [1..n -> Int]
  BY DEF Numeral, Digit
<1>2. Head(t) = t[1] /\ Len(t) = n
  BY <1>1, DigitsAreNumeral
<1>3. ~Signed(t)
  BY <1>2 DEF Signed, Numeral, Digit, Hyphen
<1>4. Atoi(t).ok
  BY <1>3, AtoiIsNumber DEF Admitted
<1>5. QED
  BY <1>2, <1>4 DEF Admitted, Canonical

\* Of two different identifiers exactly one is lower.
LEMMA IdentifiersTotal ==
  ASSUME WithinWidth, NEW s, NEW t, Admitted(s), Admitted(t), s # t
  PROVE  /\ LowerIdentifier(s, t) <=> ~LowerIdentifier(t, s)
         /\ TextBefore(s, t) \in BOOLEAN
         /\ Digits(s) => Number(s) \in Nat
         /\ Digits(t) => Number(t) \in Nat
         /\ Digits(s) /\ Digits(t) => Number(s) # Number(t)
<1>1. PICK n \in Nat \ {0} : s \in [1..n -> Int]
  BY IdentifierIsText DEF Admitted
<1>2. PICK m \in Nat \ {0} : t \in [1..m -> Int]
  BY IdentifierIsText DEF Admitted
<1>3. TextBefore(s, t) <=> ~TextBefore(t, s)
  BY <1>1, <1>2, TextIsNumbers, NumbersTotal
<1>4. /\ Digits(s) => s \in Numeral(n) /\ Canonical(n, s) /\ Number(s) \in Nat
      /\ Digits(t) => t \in Numeral(m) /\ Canonical(m, t) /\ Number(t) \in Nat
  BY <1>1, <1>2, DigitsAreNumeral, AdmittedIsCanonical, NumberType
<1>5. Digits(s) /\ Digits(t) => Number(s) # Number(t)
  BY <1>4, NumbersDiffer
<1>6. TextBefore(s, t) \in BOOLEAN
  BY DEF TextBefore
<1>7. LowerIdentifier(s, t) <=> ~LowerIdentifier(t, s)
  BY <1>3, <1>4, <1>5 DEF LowerIdentifier
<1>8. QED
  BY <1>4, <1>5, <1>6, <1>7

LEMMA OkIsBoolean == \A t : Atoi(t).ok \in BOOLEAN
  BY DEF Atoi

\* The comparison of two different identifiers is their order, in both runtimes.
LEMMA TokensAreOrdered ==
  ASSUME WithinWidth, NEW s, NEW t, Admitted(s), Admitted(t), s # t
  PROVE  /\ compare_token(s, t) = Sign(LowerIdentifier(s, t))
         /\ ~Signed(s) /\ ~Signed(t) => compareToken(s, t) = Sign(LowerIdentifier(s, t))
<1>1. LowerIdentifier(s, t) <=>
        \/ Digits(s) /\ Digits(t) /\ Number(s) < Number(t)
        \/ Digits(s) /\ ~Digits(t)
        \/ ~Digits(s) /\ ~Digits(t) /\ TextBefore(s, t)
  BY DEF LowerIdentifier
<1>2. compare_token(s, t) = Sign(LowerIdentifier(s, t))
  <2>1. Digits(s) # Digits(t) <=> ~(Digits(s) <=> Digits(t))
    BY DEF Digits
  <2>2. QED
    BY <1>1, <2>1, Zenon DEF compare_token, Sign
<1>3. ASSUME ~Signed(s), ~Signed(t)
      PROVE  compareToken(s, t) = Sign(LowerIdentifier(s, t))
  <2>1. /\ Atoi(s).ok <=> Digits(s)
        /\ Digits(s) => Atoi(s).value = Number(s)
        /\ Atoi(t).ok <=> Digits(t)
        /\ Digits(t) => Atoi(t).value = Number(t)
    BY <1>3, AtoiIsNumber DEF Admitted
  <2>2. Atoi(s).ok # Atoi(t).ok <=> ~(Digits(s) <=> Digits(t))
    BY <2>1, OkIsBoolean
  <2>3. QED
    BY <1>1, <2>1, <2>2, Zenon DEF compareToken, Sign
<1>4. QED
  BY <1>2, <1>3

IdentifierPairs == {p \in Identifier \X Identifier : LowerIdentifier(p[1], p[2])}

\* No identifier is lower than itself.
LEMMA NotLowerThanItself == ASSUME NEW t \in Identifier PROVE ~LowerIdentifier(t, t)
<1>1. PICK n \in Nat \ {0} : t \in [1..n -> Int]
  BY IdentifierIsText
<1>2. Digits(t) => Number(t) \in Nat
  BY <1>1, DigitsAreNumeral, NumberType
<1>3. QED
  BY <1>2 DEF LowerIdentifier

LEMMA LowerPreIn ==
  ASSUME NEW n \in Nat, NEW m \in Nat, NEW x \in [1..n -> Identifier], NEW y \in [1..m -> Identifier]
  PROVE  LowerPre(x, y) <=> LowerIn(x, y, IdentifierPairs)
<1>1. \A k \in 1..m : k <= n => (LowerIdentifier(x[k], y[k]) <=> <<x[k], y[k]>> \in IdentifierPairs)
  BY DEF IdentifierPairs
<1>2. Len(x) = n /\ Len(y) = m
  OBVIOUS
<1>3. QED
  BY <1>1, <1>2 DEF LowerPre, Lower, LowerIn, AgreeTo

LEMMA IdentifiersOrdered ==
  ASSUME NEW n \in Nat, NEW m \in Nat, NEW x \in [1..n -> Identifier], NEW y \in [1..m -> Identifier]
  PROVE  /\ Differences(x, y) # {} => (LowerPre(x, y) <=> LowerIdentifier(x[FirstDiff(x, y)], y[FirstDiff(x, y)]))
         /\ Differences(x, y) = {} => (LowerPre(x, y) <=> n < m)
<1>1. \A a \in Identifier : <<a, a>> \notin IdentifierPairs
  BY NotLowerThanItself DEF IdentifierPairs
<1>2. /\ Differences(x, y) # {} => (LowerPre(x, y) <=> <<x[FirstDiff(x, y)], y[FirstDiff(x, y)]>> \in IdentifierPairs)
      /\ Differences(x, y) = {} => (LowerPre(x, y) <=> n < m)
  BY <1>1, LowerAtFirst, LowerPreIn, Zenon
<1>3. ASSUME Differences(x, y) # {}
      PROVE  FirstDiff(x, y) \in 1..n /\ FirstDiff(x, y) \in 1..m
  <2>1. IsFirst(x, y, n, m, FirstDiff(x, y))
    BY <1>3, FirstDifference, Zenon
  <2>2. QED
    BY <2>1 DEF IsFirst
<1>4. \A i \in 1..n : i \in 1..m => (<<x[i], y[i]>> \in IdentifierPairs <=> LowerIdentifier(x[i], y[i]))
  BY DEF IdentifierPairs
<1>5. QED
  BY <1>2, <1>3, <1>4

-----------------------------------------------------------------------------
(* versions *)

\* What Compare returns, with the comparison of the first two identifiers
\* that differ already made.
Ordered(l, r, token) ==
  IF Differences(l.core, r.core) # {} THEN Sign(l.core[FirstDiff(l.core, r.core)] < r.core[FirstDiff(l.core, r.core)])
  ELSE IF l.pre = r.pre THEN 0
  ELSE IF l.pre = <<>> THEN 1
  ELSE IF r.pre = <<>> THEN -1
  ELSE IF Differences(l.pre, r.pre) # {} THEN token
  ELSE Sign(Len(l.pre) < Len(r.pre))

LEMMA VersionType ==
  ASSUME NEW v \in Version
  PROVE  /\ v.core \in [1..3 -> Int]
         /\ \E n \in Nat : v.pre \in [1..n -> Identifier] /\ \A i \in 1..n : Admitted(v.pre[i])
<1>1. v.core \in Cores /\ v.pre \in SeqOf(Identifier, MaxTokens) /\ parseSemver(v)
  BY DEF Version
<1>2. v.core \in [1..3 -> Int]
  BY <1>1, CoreAssumption
<1>3. PICK n \in 0..MaxTokens : v.pre \in [1..n -> Identifier]
  BY <1>1, Zenon DEF SeqOf
<1>4. \A i \in 1..n : Admitted(v.pre[i])
  BY <1>1, <1>3 DEF parseSemver, Admitted
<1>5. n \in Nat
  OBVIOUS
<1>6. QED
  BY <1>2, <1>3, <1>4, <1>5

\* The comparison is precedence when the identifiers compare as their order.
LEMMA OrderedIsPrecedence ==
  ASSUME WithinWidth, NEW l \in Version, NEW r \in Version, NEW token,
         Differences(l.pre, r.pre) # {} =>
           token = Sign(LowerIdentifier(l.pre[FirstDiff(l.pre, r.pre)], r.pre[FirstDiff(l.pre, r.pre)]))
  PROVE  Ordered(l, r, token) = Precedence(l, r)
<1> DEFINE lower == LowerNumbers(l.core, r.core)
           upper == LowerNumbers(r.core, l.core)
           before == LowerPre(l.pre, r.pre)
           after == LowerPre(r.pre, l.pre)
<1>1. /\ Below(l, r) <=> lower \/ (l.core = r.core /\ l.pre # <<>> /\ (r.pre = <<>> \/ before))
      /\ Below(r, l) <=> upper \/ (l.core = r.core /\ r.pre # <<>> /\ (l.pre = <<>> \/ after))
  BY SMT DEF Below, LowerNumbers, LowerPre, Lower
<1>2. 3 \in Nat /\ l.core \in [1..3 -> Int] /\ r.core \in [1..3 -> Int]
  BY VersionType
<1>3. PICK n \in Nat : l.pre \in [1..n -> Identifier] /\ \A i \in 1..n : Admitted(l.pre[i])
  BY VersionType
<1>4. PICK m \in Nat : r.pre \in [1..m -> Identifier] /\ \A i \in 1..m : Admitted(r.pre[i])
  BY VersionType
<1>5. CASE Differences(l.core, r.core) # {}
  <2>1. /\ Ordered(l, r, token) = Sign(l.core[FirstDiff(l.core, r.core)] < r.core[FirstDiff(l.core, r.core)])
    BY <1>5, Zenon DEF Ordered
  <2>2. lower <=> l.core[FirstDiff(l.core, r.core)] < r.core[FirstDiff(l.core, r.core)]
    BY <1>2, <1>5, NumbersOrdered, Zenon
  <2>3. l.core # r.core
    BY <1>5 DEF Differences
  <2>4. lower <=> ~upper
    <3> HIDE DEF lower, upper
    <3>1. 3 \in Nat
      OBVIOUS
    <3>2. ASSUME NEW x \in [1..3 -> Int], NEW y \in [1..3 -> Int], x # y
          PROVE  LowerNumbers(x, y) <=> ~LowerNumbers(y, x)
      BY <3>1, <3>2, NumbersTotal
    <3>3. QED
      BY <1>2, <2>3, <3>2, Zenon DEF lower, upper
  <2>5. QED
    BY <1>1, <2>1, <2>2, <2>3, <2>4, Zenon DEF Precedence, Sign
<1>6. CASE Differences(l.core, r.core) = {}
  <2>1. l.core = r.core
    BY <1>2, <1>6, SameItems, Zenon
  <2>2. ~lower /\ ~upper
    <3>1. Differences(r.core, l.core) = {}
      BY <1>6, DifferencesSymmetric, Zenon
    <3>2. (lower <=> 3 < 3) /\ (upper <=> 3 < 3)
      BY <1>2, <1>6, <3>1, NumbersOrdered, Zenon
    <3>3. QED
      BY <3>2
  <2>3. CASE l.pre = r.pre
    <3>1. Differences(l.pre, r.pre) = {}
      BY <2>3 DEF Differences
    <3>2. (before <=> n < n) /\ (after <=> n < n)
      BY <1>3, <2>3, <3>1, IdentifiersOrdered, Zenon
    <3>20. ~before /\ ~after
      BY <1>3, <3>2
    <3>3. Ordered(l, r, token) = 0
      BY <1>6, <2>3, Zenon DEF Ordered
    <3>4. QED
      BY <1>1, <2>1, <2>2, <2>3, <3>20, <3>3, Zenon DEF Precedence
  <2>4. CASE l.pre # r.pre /\ l.pre = <<>>
    BY <1>1, <1>6, <2>1, <2>2, <2>4, Zenon DEF Ordered, Precedence
  <2>5. CASE l.pre # r.pre /\ r.pre = <<>>
    BY <1>1, <1>6, <2>1, <2>2, <2>5, Zenon DEF Ordered, Precedence
  <2>6. CASE l.pre # r.pre /\ l.pre # <<>> /\ r.pre # <<>> /\ Differences(l.pre, r.pre) # {}
    <3> DEFINE i == FirstDiff(l.pre, r.pre)
    <3>1. Ordered(l, r, token) = Sign(LowerIdentifier(l.pre[i], r.pre[i]))
      BY <1>6, <2>6, Zenon DEF Ordered
    <3>2. IsFirst(l.pre, r.pre, n, m, i)
      BY <1>3, <1>4, <2>6, FirstDifference, Zenon
    <3>3. LowerIdentifier(l.pre[i], r.pre[i]) <=> ~LowerIdentifier(r.pre[i], l.pre[i])
      <4>1. i \in 1..n /\ i \in 1..m /\ l.pre[i] # r.pre[i]
        BY <3>2, Zenon DEF IsFirst
      <4>2. Admitted(l.pre[i]) /\ Admitted(r.pre[i])
        BY <1>3, <1>4, <4>1, Zenon
      <4>3. QED
        BY <4>1, <4>2, IdentifiersTotal, Zenon
    <3>4. before <=> LowerIdentifier(l.pre[i], r.pre[i])
      BY <1>3, <1>4, <2>6, IdentifiersOrdered, Zenon
    <3>5. after <=> LowerIdentifier(r.pre[i], l.pre[i])
      <4>1. Differences(r.pre, l.pre) # {} /\ FirstDiff(r.pre, l.pre) = i
        BY <2>6, DifferencesSymmetric, SameFirstDiff, Zenon
      <4>2. after <=> LowerIdentifier(r.pre[FirstDiff(r.pre, l.pre)], l.pre[FirstDiff(r.pre, l.pre)])
        BY <1>3, <1>4, <4>1, IdentifiersOrdered, Zenon
      <4>3. QED
        BY <4>1, <4>2, Zenon
    <3> HIDE DEF before, after, lower, upper, i
    <3>6. QED
      BY <1>1, <2>1, <2>2, <2>6, <3>1, <3>3, <3>4, <3>5, Zenon DEF Precedence, Sign
  <2>7. CASE l.pre # r.pre /\ l.pre # <<>> /\ r.pre # <<>> /\ Differences(l.pre, r.pre) = {}
    <3>1. Len(l.pre) = n /\ Len(r.pre) = m
      BY <1>3, <1>4
    <3>2. Ordered(l, r, token) = Sign(n < m)
      BY <1>6, <2>7, <3>1, Zenon DEF Ordered
    <3>3. n # m
      <4>1. n = m => l.pre = r.pre
        BY <1>3, <1>4, <2>7, SameItems, Zenon
      <4>2. QED
        BY <2>7, <4>1
    <3>4. before <=> n < m
      BY <1>3, <1>4, <2>7, IdentifiersOrdered, Zenon
    <3>5. after <=> m < n
      <4>1. Differences(r.pre, l.pre) = {}
        BY <2>7, DifferencesSymmetric, Zenon
      <4>2. QED
        BY <1>3, <1>4, <4>1, IdentifiersOrdered, Zenon
    <3>6. m < n <=> ~(n < m)
      BY <3>3
    <3> HIDE DEF before, after, lower, upper
    <3>7. QED
      BY <1>1, <2>1, <2>2, <2>7, <3>2, <3>4, <3>5, <3>6, Zenon DEF Precedence, Sign
  <2>8. QED
    BY <2>3, <2>4, <2>5, <2>6, <2>7
<1>7. QED
  BY <1>5, <1>6

LEMMA ComparisonsAreOrdered ==
  ASSUME NEW l, NEW r
  PROVE  /\ compareSemver(l, r) =
              Ordered(l, r, compareToken(l.pre[FirstDiff(l.pre, r.pre)], r.pre[FirstDiff(l.pre, r.pre)]))
         /\ compare_versions(l, r) =
              Ordered(l, r, compare_token(l.pre[FirstDiff(l.pre, r.pre)], r.pre[FirstDiff(l.pre, r.pre)]))
  BY SMT DEF compareSemver, compare_versions, Compare, Ordered, FirstDiff

LEMMA VersionsAreOrdered ==
  ASSUME WithinWidth, NEW l \in Version, NEW r \in Version
  PROVE  /\ compare_versions(l, r) = Precedence(l, r)
         /\ ~HasSigned(l) /\ ~HasSigned(r) => compareSemver(l, r) = Precedence(l, r)
<1> DEFINE i == FirstDiff(l.pre, r.pre)
           s == l.pre[i]
           t == r.pre[i]
<1>1. ASSUME Differences(l.pre, r.pre) # {}
      PROVE  /\ Admitted(s) /\ Admitted(t) /\ s # t
             /\ ~HasSigned(l) /\ ~HasSigned(r) => ~Signed(s) /\ ~Signed(t)
  <2>1. PICK n \in Nat : l.pre \in [1..n -> Identifier] /\ \A k \in 1..n : Admitted(l.pre[k])
    BY VersionType
  <2>2. PICK m \in Nat : r.pre \in [1..m -> Identifier] /\ \A k \in 1..m : Admitted(r.pre[k])
    BY VersionType
  <2>3. IsFirst(l.pre, r.pre, n, m, i)
    BY <1>1, <2>1, <2>2, FirstDifference, Zenon
  <2>4. i \in 1..n /\ i \in 1..m /\ s # t
    BY <2>3, Zenon DEF IsFirst
  <2>5. DOMAIN l.pre = 1..n /\ DOMAIN r.pre = 1..m
    BY <2>1, <2>2
  <2>6. QED
    BY <2>1, <2>2, <2>4, <2>5, Zenon DEF HasSigned
<1>2. compare_versions(l, r) = Ordered(l, r, compare_token(s, t))
  BY ComparisonsAreOrdered, Zenon
<1>3. compareSemver(l, r) = Ordered(l, r, compareToken(s, t))
  BY ComparisonsAreOrdered, Zenon
<1>4. Ordered(l, r, compare_token(s, t)) = Precedence(l, r)
  <2>1. Differences(l.pre, r.pre) # {} => compare_token(s, t) = Sign(LowerIdentifier(s, t))
    BY <1>1, TokensAreOrdered, Zenon
  <2>2. QED
    BY <2>1, OrderedIsPrecedence, Zenon
<1>5. ASSUME ~HasSigned(l), ~HasSigned(r)
      PROVE  Ordered(l, r, compareToken(s, t)) = Precedence(l, r)
  <2>1. Differences(l.pre, r.pre) # {} => compareToken(s, t) = Sign(LowerIdentifier(s, t))
    BY <1>1, <1>5, TokensAreOrdered, Zenon
  <2>2. QED
    BY <2>1, OrderedIsPrecedence, Zenon
<1>6. QED
  BY <1>2, <1>3, <1>4, <1>5, Zenon

\* The highest-seen version is always one that parseSemver admits.
LEMMA SeenIsVersion == VersionSpec => [](seen \in Version)
<1>1. VersionInit => seen \in Version
  BY DEF VersionInit
<1>2. seen \in Version /\ [VersionNext]_seen => (seen \in Version)'
  BY Zenon DEF VersionNext, ObservePack
<1>3. QED
  BY <1>1, <1>2, PTL DEF VersionSpec

\* Where no number is too large for strconv.Atoi, both runtimes order all
\* versions as SemVer 2.0.0 does, but for identifiers with a sign in Go.
THEOREM ComparisonsArePrecedence ==
  ASSUME WithinWidth PROVE VersionSpec => []PrecedenceIsSemVer
<1>1. seen \in Version => PrecedenceIsSemVer
  BY VersionsAreOrdered, Zenon DEF PrecedenceIsSemVer, GoIsSemVer, PythonIsSemVer
<1>2. QED
  BY <1>1, SeenIsVersion, PTL
=============================================================================
