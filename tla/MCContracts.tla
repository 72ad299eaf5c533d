----------------------------- MODULE MCContracts -----------------------------
(* Instances of SemVer and of CanonicalModel for TLC.  The two share nothing, *)
(* so a behaviour is one of the highest-seen version, whose characters are    *)
(* - 0 1 and a, or one of the canonical records.                              *)
EXTENDS SemVer, CanonicalModel

Hyphened == {45, 48, 49, 97}

TwoCores == {<<1, 0, 0>>, <<0, 2, 1>>}

\* What the theorem about the comparisons takes for granted holds here.
ASSUME InstanceIsWithinWidth == WithinWidth

-----------------------------------------------------------------------------
(* records *)
Registries ==
  "entity-types" :> {"event", "telemetry-provider", "telemetry-source"}
  @@ "namespaces" :> {"windows", "microsoft.sysmon", "atlas"}
  @@ "relationship-types" :> {"EMITS", "HAS_TELEMETRY_SOURCE", "RELATED_TO"}
  @@ "native-identifier-types" :> {"event_id"}
  @@ "claim-predicates" :> {"telemetry.represents"}
  @@ "alias-kinds" :> {"native", "legacy-canonical-id"}

Text(w)  == [word |-> <<w>>, spelling |-> "exact"]
Caps(w)  == [word |-> <<w>>, spelling |-> "capitals"]
NoApp    == <<>>

Alias(value, sensitive) ==
  [value |-> value, kind |-> "native", case_sensitive |-> sensitive, namespace |-> None,
   entity_type |-> None, provider_id |-> None, locale |-> None, applicability |-> NoApp]
In(a, namespace) == [a EXCEPT !.namespace = namespace]
Say(a, locale)   == [a EXCEPT !.locale = locale]

Entity(type, ns, key, title, native, aliases) ==
  [record_kind |-> "entity", id |-> <<type, ns, key>>, entity_type |-> type, namespace |-> ns,
   canonical_key |-> key, title |-> title, aliases |-> aliases, applicability |-> NoApp,
   reason_claim_ids |-> {}, wellFormed |-> TRUE,
   native_identifiers |-> IF native = "" THEN <<>> ELSE
     <<[type |-> "event_id", value |-> Text(native), namespace |-> None, context |-> None,
       case_sensitive |-> FALSE, primary |-> TRUE, applicability |-> NoApp]>>]

OldId  == <<"event", "sysmon", "1">>
Legacy == [Alias([word |-> OldId, spelling |-> "exact"], TRUE) EXCEPT
             !.kind = "legacy-canonical-id", !.namespace = "microsoft.sysmon"]

Sysmon(aliases)  == Entity("event", "microsoft.sysmon", "1", Text("sysmon 1"), "1", aliases)
Windows(aliases) == Entity("event", "windows", "1", Text("windows 1"), "1", aliases)
S1 == Sysmon(<<Legacy, In(Alias(Text("one"), FALSE), "microsoft.sysmon")>>)
W1 == Windows(<<In(Alias(Text("one"), FALSE), "windows")>>)
Old == Entity("event", "sysmon", "1", Text("old"), "1", <<>>)
Pv == Entity("telemetry-provider", "windows", "p", Text("p"), "", <<>>)
Ts == Entity("telemetry-source", "windows", "ts", Text("ts"), "", <<>>)

Source(tierA) ==
  [record_kind |-> "source", id |-> <<"source", "atlas", "s">>, namespace |-> "atlas", canonical_key |-> "s",
   tierA |-> tierA, applicability |-> NoApp, wellFormed |-> TRUE]
Evidence(approved, draft) ==
  [source_id |-> Source(TRUE).id, source_snapshot_id |-> None, approved |-> approved, direct |-> ~draft, draft |-> draft]

Claim(object, app, confidence, evidence) ==
  LET c == [record_kind |-> "claim", namespace |-> "atlas", subject_id |-> S1.id,
            predicate |-> "telemetry.represents", object |-> [kind |-> "literal", value |-> object],
            applicability |-> app, confidence |-> confidence, status |-> "published",
            evidence |-> {evidence}, wellFormed |-> TRUE]
      key == claim_semantic_payload(c)
  IN ("id" :> <<"claim", "atlas", key>>) @@ ("canonical_key" :> key) @@ c

Within(order) == "version_constraints" :> [i \in DOMAIN order |-> [subject_id |-> Pv.id, expression |-> order[i]]]
C1 == Claim("a", NoApp, "authoritative", Evidence(TRUE, FALSE))
C2 == Claim("b", NoApp, "high", Evidence(TRUE, FALSE))
Reworded == [C1 EXCEPT !.object.value = "c"]

Edge(from, type, to, claims, confidence) ==
  LET r == [record_kind |-> "relationship", namespace |-> "atlas", from |-> from.id,
            relationship_type |-> type, to |-> to.id, qualifier |-> None, applicability |-> NoApp,
            supporting_claim_ids |-> claims, confidence |-> confidence, wellFormed |-> TRUE]
      key == relationship_semantic_payload(r)
  IN ("id" :> <<"relationship", "atlas", key>>) @@ ("canonical_key" :> key) @@ r

Supporting(kind, key) ==
  [record_kind |-> kind, id |-> <<kind, "atlas", key>>, namespace |-> "atlas", canonical_key |-> key,
   applicability |-> NoApp, wellFormed |-> TRUE, subject_id |-> Pv.id, target_id |-> C1.id,
   evidence |-> {}, subject_ids |-> {S1.id}]

At(path, record) == [path |-> path, record |-> record]
Files ==
  {At(1, S1), At(1, Sysmon(<<>>)), At(1, Sysmon(<<Legacy, Alias(Text("proc"), TRUE)>>)),
   At(1, Sysmon(<<Legacy, Say(Alias(Text("proc"), TRUE), "en")>>)),
   At(2, W1), At(2, Windows(<<Alias(Caps("proc"), FALSE)>>)), At(2, Windows(<<Alias(Caps("proc"), TRUE)>>)),
   At(2, Windows(<<Say(Alias(Text("proc"), FALSE), "de")>>)), At(3, Old),
   At(4, Pv), At(6, Ts),
   At(7, Edge(Pv, "HAS_TELEMETRY_SOURCE", Ts, {}, "high")), At(8, Edge(Ts, "EMITS", S1, {}, "high")),
   At(9, Edge(Ts, "EMITS", Pv, {}, "high")),
   At(10, Source(TRUE)), At(10, Source(FALSE)),
   At(11, C1), At(11, C2), At(11, Reworded), At(12, C2), At(12, [C2 EXCEPT !.evidence = {Evidence(FALSE, TRUE)}]),
   At(13, Claim("a", Within(<<"1", "2">>), "high", Evidence(TRUE, FALSE))),
   At(14, Claim("a", Within(<<"2", "1">>), "high", Evidence(FALSE, FALSE))),
   At(15, Edge(S1, "RELATED_TO", W1, {C1.id}, "authoritative")),
   At(16, Edge(S1, "RELATED_TO", W1, {}, "high")),
   At(17, Supporting("version", "v")), At(18, Supporting("validation", "v")), At(19, Supporting("coverage-snapshot", "v"))}

First1  == {At(1, S1)}
Migrated == {[old_id |-> OldId, new_id |-> S1.id, migration_type |-> "legacy-canonical-id-alias"]}
Cases == {[query |-> Text("sysmon 1"), namespace |-> None, expected_id |-> S1.id]}

-----------------------------------------------------------------------------
Unseen == seen = [core |-> <<1, 0, 0>>, pre |-> <<>>]

MCInit == VersionInit /\ Init
MCNext ==
  \/ main = Start /\ VersionNext /\ UNCHANGED main
  \/ Unseen /\ Next /\ UNCHANGED seen
MCSpec == MCInit /\ [][MCNext]_<<seen, main>>
=============================================================================
