--------------------------- MODULE IngestNormalize ---------------------------
(***************************************************************************)
(* The normalizers of ingestion/normalizers: each turns the parsed records *)
(* of one source into canonical entities and claims, under a mapping       *)
(* profile that is pinned by its digest.  Every output names the records   *)
(* it comes from (its lineage); a record whose identity is missing, or     *)
(* taken, is set aside.                                                    *)
(*                                                                         *)
(* The records are visited in the order of their identifiers, which are    *)
(* digests: `order` is that order, and it says nothing of the source.      *)
(***************************************************************************)
EXTENDS IngestParse

CONSTANTS
  Lower,       \* the lower-case spelling of the identifiers that have another
  Decimal,     \* the decimal spelling of each number
  TextOrder    \* the keys of events in the order of their texts

ASSUME NormalizeAssumption ==
  /\ {Number[t] : t \in DOMAIN Number} \subseteq DOMAIN Decimal
  /\ \A n \in DOMAIN Decimal : Decimal[n] \in Digits /\ Number[Decimal[n]] = n

LowerCase(text) == IF text \in DOMAIN Lower THEN Lower[text] ELSE text

-----------------------------------------------------------------------------
(* the mapping profile *)

LifecycleRule ==
  ("sysmon-docs"   :> "unset-until-schema-or-provider-evidence") @@
  ("sysmon-schema" :> "do-not-set-global-lifecycle") @@
  ("provider"      :> "do-not-set-global-lifecycle") @@
  ("security-doc"  :> "unset-until-provider-inventory-evidence")

Namespace ==
  ("sysmon-docs"  :> "microsoft.sysmon")            @@ ("sysmon-schema" :> "microsoft.sysmon") @@
  ("provider"     :> "microsoft.windows.security")  @@ ("security-doc"  :> "microsoft.windows.security")

mapping_profile_digest(m) == m.body

\* A profile that was altered, or is of another normalizer, release or
\* scope, or that would let documentation set a lifecycle, is refused.
ProfileBound(source, m, release) ==
  /\ m.digest = mapping_profile_digest(m)
  /\ m.body.normalizer = source /\ m.body.release = release
  /\ source \notin {"car", "defenseops"} => m.body.schema = "1.0.0"
  /\ source = "attack" => m.body.domain = "enterprise-attack"
  /\ source \in DOMAIN Namespace =>
       /\ m.body.namespace = Namespace[source]
       /\ m.body.lifecycle_rule = LifecycleRule[source]

-----------------------------------------------------------------------------
(* one record *)

\* A record is out of scope, without an identity, of another scope than the
\* pinned one, or a canonical record.
Judged(inScope, identified, bound, made) ==
  IF ~inScope THEN [verdict |-> "skipped"]
  ELSE IF ~identified THEN [verdict |-> "ambiguous"]
  ELSE IF ~bound THEN [verdict |-> "refused"]
  ELSE made

Made(entity, claims, blockers) ==
  [verdict |-> "made", entity |-> entity, claims |-> claims, blockers |-> blockers]

Entity(type, namespace, key, title, native, created) ==
  [kind |-> "entity", id |-> <<type, namespace, key>>, title |-> title, native |-> native,
   created |-> created, lifecycle |-> "unset", curation |-> "draft"]

\* A claim is identified by what it says; its evidence is where that is from.
_claim(subject, predicate, value, p, release, at) ==
  [kind |-> "claim", id |-> subject \o <<predicate, value>>,
   evidence |-> [source |-> p.source, snapshot |-> p.snapshot, release |-> release, at |-> at,
                 locator |-> p.locator]]

Identifiers(p, type) == {x[2] : x \in {x \in p.ids : x[1] = type}}
Only(S) == CHOOSE x \in S : TRUE
WellFormed(p, type) == Cardinality(Identifiers(p, type)) = 1 /\ Identifiers(p, type) \subseteq Shaped[type]

\* Of the flags of ATT&CK, a missing one is not a false one.
_lifecycle(n) ==
  IF n.revoked = "true" THEN "retired"
  ELSE IF n.deprecated = "true" THEN "deprecated"
  ELSE IF {n.revoked, n.deprecated} = {"false"} THEN "current" ELSE "unset"

normalize_attack(p, m, release, at) ==
  LET n   == p.native
      id  == Only(Identifiers(p, "attack_id"))
      when == IF n.created # "" THEN n.created ELSE at
      e   == [Entity("attack-technique", "mitre.attack", LowerCase(id), n.name,
                     [value |-> id, stix |-> p.key, release |-> release], when)
              EXCEPT !.lifecycle = _lifecycle(n)]
  IN Judged(p.type = "attack-pattern", WellFormed(p, "attack_id") /\ n.name # "", TRUE,
            Made(e, IF n.description = "" THEN {}
                    ELSE {_claim(e.id, "behavior.description", n.description, p, release, at)}, {}))

normalize_car(p, m, release, at) ==
  LET id == Only(Identifiers(p, "car_id"))
      e  == Entity("analytic", "mitre.car", LowerCase(id), p.native.title, [value |-> id, release |-> release], at)
  IN Judged(p.type = "mitre-car-analytic", WellFormed(p, "car_id") /\ p.native.title # "", TRUE,
            Made(e, IF p.native.description = "" THEN {}
                    ELSE {_claim(e.id, "description", p.native.description, p, release, at)}, {}))

normalize_d3fend(p, m, release, at) ==
  LET id == Only(Identifiers(p, "d3fend_id"))
      e  == Entity("defensive-technique", "mitre.d3fend", LowerCase(id), p.native.label,
                   [value |-> id, iri |-> p.key, release |-> release], at)
  IN Judged(p.type = "d3fend-defensive-technique", WellFormed(p, "d3fend_id") /\ p.native.label # "", TRUE,
            Made(e, {_claim(e.id, "definition", d, p, release, at) : d \in p.native.definitions \ {""}}, {}))

\* What blocks the promotion of an item is reported, and stops nothing here.
normalize_defenseops(p, m, release, at) ==
  LET n   == p.native
      e   == [Entity(n.type, "defenseops", LowerCase(n.id), n.id, [value |-> n.id, review |-> n.review, license |-> n.license], at)
              EXCEPT !.curation = IF n.review = "validated" THEN "review" ELSE "draft"]
  IN Judged(TRUE, LowerCase(n.id) \in Shaped["key"], TRUE,
            Made(e, {}, {<<n.id, g>> : g \in (IF n.review = "validated" THEN {} ELSE {"G15"})
                                       \union (IF n.license = "verified" THEN {} ELSE {"G14"})}))

\* Documentation of another release than the pinned one is refused.
normalize_sysmon_docs(p, m, release, at) ==
  LET id == Only(Identifiers(p, "event_id"))
  IN Judged(p.type = "sysmon-event-heading", WellFormed(p, "event_id") /\ p.native.title # "",
            p.native.release = release,
            Made(Entity("event", Namespace["sysmon-docs"], id, p.native.title,
                        [value |-> id, provider |-> m.body.provider, channel |-> m.body.channel, release |-> release], at),
                 {}, {}))

\* Only the current schema is normalized, under the decimal spelling.
normalize_sysmon_schema(p, m, release, at) ==
  Judged(p.type = "sysmon-schema-event" /\ p.native.schema = m.body.current, TRUE,
         <<p.native.provider, p.native.channel>> = <<m.body.provider, m.body.channel>>,
         Made(Entity("event", Namespace["sysmon-schema"], Decimal[p.native.number], p.native.title,
                     [value |-> p.native.event, number |-> p.native.number, version |-> p.native.version,
                      fields |-> p.native.fields, release |-> release], at), {}, {}))

normalize_security_doc(p, m, release, at) ==
  LET id   == Only(Identifiers(p, "event_id"))
      same == id = p.native.event
  IN Judged(p.type = "windows-security-event-documentation",
            WellFormed(p, "event_id") /\ (same => p.native.title # ""),
            same /\ <<p.native.provider, p.native.channel>> = <<m.body.provider, m.body.channel>>,
            Made(Entity("event", Namespace["security-doc"], id, p.native.title,
                        [value |-> id, versions |-> p.native.versions, release |-> release], at), {}, {}))

Outcome(source, p, m, release, at) ==
  CASE source = "attack"        -> normalize_attack(p, m, release, at)
    [] source = "car"           -> normalize_car(p, m, release, at)
    [] source = "d3fend"        -> normalize_d3fend(p, m, release, at)
    [] source = "defenseops"    -> normalize_defenseops(p, m, release, at)
    [] source = "sysmon-docs"   -> normalize_sysmon_docs(p, m, release, at)
    [] source = "sysmon-schema" -> normalize_sysmon_schema(p, m, release, at)
    [] source = "security-doc"  -> normalize_security_doc(p, m, release, at)

-----------------------------------------------------------------------------
(* all the records of a snapshot *)

Empty == [ok |-> TRUE, records |-> {}, lineage |-> {}, quarantined |-> {}, blockers |-> {}]

_lineage(output, psrs, m) ==
  [output |-> output, psrs |-> psrs, snapshots |-> {p.snapshot : p \in psrs}, profile |-> m.digest]

\* What is set aside counts as AMBIGUOUS.
SetAside(s, p) == [s EXCEPT !.quarantined = @ \union {p}]

\* The first record of an identity has it, and the next is set aside: of the
\* Sysmon schema it is refused.
Add(s, p, o, m) ==
  LET new   == {o.entity} \union o.claims
      taken == o.verdict = "made" /\ o.entity.id \in {r.id : r \in s.records}
  IN IF p.source # m.body.source \/ o.verdict = "refused" \/ (taken /\ p.source = "sysmon-schema")
     THEN [s EXCEPT !.ok = FALSE]
     ELSE IF o.verdict = "skipped" THEN s
     ELSE IF taken \/ o.verdict = "ambiguous" THEN SetAside(s, p)
     ELSE [s EXCEPT !.records = @ \union new,
                    !.lineage = @ \union {_lineage(r.id, {p}, m) : r \in new},
                    !.blockers = @ \union o.blockers]

\* The versions of a Windows event are one entity: its lineage is all of them.
Grouped_First(psrs, e) == {CHOOSE p \in psrs : p.native.event = e}
Grouped(psrs, e) == {p \in psrs : p.native.event = e}

normalize_provider(psrs, m, release, at) ==
  LET inScope == {p \in psrs : p.type = "windows-event-provider-definition"}
      known   == {p \in inScope : p.native.event \in Shaped["event_id"]}
      bound   == /\ \A p \in psrs : p.source = m.body.source
                 /\ \A p \in known : /\ p.native.version \in Digits
                                     /\ <<p.native.provider, p.native.channel>> = <<m.body.provider, m.body.channel>>
      events  == {p.native.event : p \in known}
      Guids(e) == {p.native.guid : p \in Grouped(known, e)}
      Id(e)   == <<"event", Namespace["provider"], e>>
  IN IF ~bound \/ \E e \in events : Cardinality(Guids(e)) # 1 \/ "" \in Guids(e)
     THEN [Empty EXCEPT !.ok = FALSE]
     ELSE [Empty EXCEPT
             !.records = {Entity("event", Namespace["provider"], e, e,
                                 [value |-> e, guid |-> Only(Guids(e)), release |-> release,
                                  structures |-> {[version |-> p.native.version, fields |-> p.native.fields]
                                                  : p \in Grouped(known, e)}], at) : e \in events},
             !.lineage = {_lineage(Id(e), Grouped(known, e), m) : e \in events},
             !.quarantined = inScope \ known]

\* The records one after the other, up to the first that is refused.
NormalizeEach(source, order, m, release, at) ==
  LET after[k \in 0..Len(order)] ==
        IF k = 0 THEN Empty
        ELSE LET s == after[k-1]
                 p == order[k]
             IN IF s.ok THEN Add(s, p, Outcome(source, p, m, release, at), m) ELSE s
  IN after[Len(order)]

normalize_psr(source, order, m, release, at) ==
  IF ~ProfileBound(source, m, release) THEN [Empty EXCEPT !.ok = FALSE]
  ELSE IF source = "provider" THEN normalize_provider(ToSet(order), m, release, at)
  ELSE NormalizeEach(source, order, m, release, at)

\* The digest is of the records in an order: of an event, that of its number.
ByNumber == {"sysmon-docs", "sysmon-schema", "provider", "security-doc"}

SameOrder(records) ==
  \A i, j \in DOMAIN TextOrder :
    ({TextOrder[i], TextOrder[j]} \subseteq {r.id[3] : r \in records} /\ i < j)
      => Number[TextOrder[i]] <= Number[TextOrder[j]]

sha256_digest_Identities(records, order) == [records |-> {r.id : r \in records}, order |-> order]
sha256_digest(records, order) == [records |-> records, order |-> order]

candidate_digest(source, records) ==
  sha256_digest(records, IF source \in ByNumber /\ ~SameOrder(records) THEN "number" ELSE "id")
=============================================================================
