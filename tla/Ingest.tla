------------------------------- MODULE Ingest -------------------------------
(***************************************************************************)
(* A source on its way to a build that may be packed: it is acquired at a  *)
(* pinned release, parsed and normalized (tools/ingestion/run_*_canary.py), *)
(* its candidate is compared with the last known good build, reviewed,     *)
(* validated and put in a manifest (phase534_promotion.py), and the bundle *)
(* of all these artifacts is accepted or refused                           *)
(* (validate_ingestion_foundation.py).                                     *)
(*                                                                         *)
(* Each stage leaves an artifact, and any stage can be done again while    *)
(* the artifacts of the later ones are still about; the source may move    *)
(* and a candidate may be edited by hand.  What accepts a bundle is that   *)
(* everything in it is bound to everything else.                           *)
(*                                                                         *)
(* A digest is what it is computed from.  Times are left out: they only    *)
(* refuse more.                                                            *)
(***************************************************************************)
EXTENDS IngestNormalize

CONSTANTS
  Docs,            \* of each source, its documents by the name of their release
  Successor,       \* the release that comes after one
  Profiles,        \* of each source, the mapping profiles
  Promoted,        \* the sources whose candidates go on to a build
  Targets, Required,   \* of the connector; "main" is the one that is parsed
  HighRisk,        \* the sources whose changes are of high risk
  Explained,       \* the sources whose change of size somebody explained
  Licensed,        \* the sources whose license allows redistribution, gate G14
  Panels,          \* the actors whose approvals a review lists, one sequence for each
  MaxShrink, MaxGrowth,            \* the guardrails of the inventory, in percent
  MaxAcquisitions, MaxBuilds       \* bounds of the model

ASSUME SourceAssumption ==
  DOMAIN Docs \subseteq {"attack", "car", "d3fend", "defenseops", "sysmon-docs", "sysmon-schema", "provider", "security-doc"}

\* A parser returns a list, so what it makes of a document is finite.
ASSUME ParserAssumption ==
  \A s \in DOMAIN Docs : \A r \in DOMAIN Docs[s] : IsFiniteSet(Parse(s, Docs[s][r], r))

\* A document of D3FEND is a finite graph: triples point to blank nodes of it.
Triples(nodes)  == Seq([predicate : STRING, node : nodes \union {""}, text : STRING])
Subjects(nodes) ==
  [iri : STRING, named : BOOLEAN, labels : SUBSET STRING, definitions : SUBSET STRING, unknown : Triples(nodes)]
TechniqueSeq(nodes) == Seq([id : STRING, subjects : SUBSET Subjects(nodes)])

ASSUME GraphAssumption ==
  "d3fend" \in DOMAIN Docs => \A r \in DOMAIN Docs["d3fend"] :
    LET doc   == Docs["d3fend"][r]
        nodes == DOMAIN doc.nodes
    IN /\ IsFiniteSet(nodes) /\ "" \notin nodes /\ doc.nodes \in [nodes -> Triples(nodes)]
       /\ doc.techniques \in TechniqueSeq(nodes)
       /\ \A t \in Range(doc.techniques) : IsFiniteSet(t.subjects)

ASSUME IngestAssumption ==
  /\ Required \subseteq Targets /\ "main" \in Targets
  /\ Promoted \union HighRisk \union Licensed \union Explained \subseteq DOMAIN Docs /\ DOMAIN Profiles = DOMAIN Docs
  /\ \A a \in Panels : a \in Seq(Range(a))
  /\ {MaxShrink, MaxGrowth, MaxAcquisitions, MaxBuilds} \subseteq Nat

VARIABLES
  source,       \* the source that is ingested
  pinned,       \* the release that the profile of the source pins
  run,          \* the acquisition run, with its snapshots
  parsed,       \* the parser run and its records
  norm,         \* the normalization run
  candidates,   \* the canonical candidates, as they are now
  diff, review, report, build,
  accepted      \* the builds that were accepted; the last is the last known good

vars == <<source, pinned, run, parsed, norm, candidates, diff, review, report, build, accepted>>

None == [build |-> 0, records |-> {}]

Init ==
  /\ source \in DOMAIN Docs
  /\ pinned \in DOMAIN Docs[source]
  /\ run = [at |-> 0, snapshots |-> {}]
  /\ parsed = [snapshot |-> "", at |-> 0, records |-> {}]
  /\ norm = None /\ candidates = {}
  /\ diff = None /\ review = None /\ report = None /\ build = None
  /\ accepted = <<None>>

-----------------------------------------------------------------------------
(* acquisition *)

\* The profile of the source is pinned to the next release.
Pin ==
  /\ run.at < MaxAcquisitions /\ pinned \in DOMAIN Successor
  /\ Successor[pinned] \in DOMAIN Docs[source] /\ pinned' = Successor[pinned]
  /\ UNCHANGED <<source, run, parsed, norm, candidates, diff, review, report, build, accepted>>

Usable(results, t) == results[t] \in {"success", "not-modified"}

\* The rules of a run: results is what came of each target, "absent" if
\* nothing did.
acquisition_semantic_errors(results, status, eligible) ==
  LET all == {results[t] : t \in Targets} \ {"absent"}
      bad == {"failed", "skipped"}
  IN ~ /\ \A t \in Required : results[t] # "absent" /\ (eligible => Usable(results, t))
       /\ status = "success"      => all \intersect bad = {} /\ "success" \in all
       /\ status = "failed"       => ~eligible /\ all \subseteq bad
       /\ status = "partial"      => all \intersect bad # {} /\ ~(all \subseteq bad)
       /\ status = "not-modified" => all = {"not-modified"}

\* One request without redirects, of an allowed and public address, for at most
\* max_response_bytes, and the check of what arrives: anything else than the
\* blob that the release pins is a failure.
Fetched(served) == IF served = pinned THEN "success" ELSE "failed"

\* The source may have moved on, or serve nothing.  A snapshot is named by its
\* content.  Of a run nothing reads more than its snapshots afterwards.
Acquire ==
  /\ run.at < MaxAcquisitions /\ pinned \notin run.snapshots
  /\ \E results \in [Targets -> {"success", "not-modified", "failed", "skipped", "absent"}],
        status \in {"success", "failed", "partial", "not-modified"}, eligible \in BOOLEAN,
        served \in DOMAIN Docs[source] \union {"nothing"} :
       /\ ~acquisition_semantic_errors(results, status, eligible)
       /\ run.at = 0 => "not-modified" \notin {results[t] : t \in Targets}
       /\ results["main"] \in {"success", "failed"} => results["main"] = Fetched(served)
       /\ run' = [at |-> run.at + 1,
                  snapshots |-> IF results["main"] = "success" THEN {served} ELSE {}]
  /\ UNCHANGED <<source, pinned, parsed, norm, candidates, diff, review, report, build, accepted>>

-----------------------------------------------------------------------------
(* parsing and normalization *)

\* A document that is refused leaves no parser run.
ParseSnapshot ==
  /\ \E s \in run.snapshots :
       LET records == Parse(source, Docs[source][s], s)
       IN /\ records # {}
          /\ parsed' = [snapshot |-> s, at |-> run.at, records |-> records]
  /\ UNCHANGED <<source, pinned, run, norm, candidates, diff, review, report, build, accepted>>

\* The order of the identifiers, whatever it is, is the same each time.
ById(records) == SetToSeq(records)

\* The run of a normalizer on the records at hand, with all that it made.
NormalizationRun(m, n) ==
  [build |-> 1, parsed |-> parsed, profile |-> m, release |-> pinned,
   records |-> n.records, lineage |-> n.lineage, quarantined |-> n.quarantined,
   digest |-> candidate_digest(source, n.records), publishable |-> n.quarantined = {}]

\* Every lineage leads to the snapshot that was parsed.
LineageBound(n) == \A l \in n.lineage : l.snapshots = {parsed.snapshot}

Normalize ==
  /\ parsed.records # {}
  /\ \E m \in Profiles[source] :
       LET n == normalize_psr(source, ById(parsed.records), m, pinned, parsed.at)
       IN /\ n.ok /\ LineageBound(n)
          /\ norm' = NormalizationRun(m, n) /\ candidates' = n.records
  /\ UNCHANGED <<source, pinned, run, parsed, diff, review, report, build, accepted>>

Entities(records) == {r \in records : r.kind = "entity"}

\* A candidate is a file: the text of a record is edited.
Curate ==
  /\ source \in Promoted /\ candidates = norm.records
  /\ \E r \in Entities(candidates) :
       candidates' = (candidates \ {r}) \union {[r EXCEPT !.title = "edited"]}
  /\ UNCHANGED <<source, pinned, run, parsed, norm, diff, review, report, build, accepted>>

-----------------------------------------------------------------------------
(* promotion *)

\* The validator digests the candidates in the order of their identifiers.
Corpus(records) == sha256_digest(records, "id")

LKG == Last(accepted)

\* A comparison, with whichever accepted build, begins a build: what was
\* reviewed, validated and listed before has the name of another.
Compare ==
  /\ source \in Promoted /\ norm # None /\ diff.build < MaxBuilds
  /\ \E base \in Range(accepted) :
       diff' = [build |-> diff.build + 1, baseline |-> base.build,
                before |-> Cardinality(Entities(base.records)), after |-> Cardinality(Entities(candidates)),
                raw |-> run.snapshots, parsed |-> parsed, candidate |-> Corpus(candidates),
                explained |-> source \in Explained]
  /\ review' = None /\ report' = None /\ build' = None
  /\ UNCHANGED <<source, pinned, run, parsed, norm, candidates, accepted>>

\* What the actors have seen is kept with their review, for the properties.
\* A manifest lists the digests of a review and of a report: of another one
\* another manifest is made.
make_review(actors, high_risk) ==
  [build |-> diff.build, candidate |-> Corpus(candidates), seen |-> candidates, diff |-> diff, actors |-> actors,
   high_risk |-> high_risk, required |-> IF high_risk THEN 2 ELSE 1]

Review ==
  /\ diff # None
  /\ \E actors \in Panels :
       review' = make_review(actors, source \in HighRisk)
  /\ build' = None
  /\ UNCHANGED <<source, pinned, run, parsed, norm, candidates, diff, report, accepted>>

qualifying_approvals(r) == Range(r.actors)

review_is_qualifying(r) ==
  /\ Cardinality(qualifying_approvals(r)) >= r.required
  /\ r.high_risk => Cardinality(qualifying_approvals(r)) >= 2

\* Of the fifteen gates two are not constant.
make_report(g14) ==
  LET gates == [G14 |-> g14, G15 |-> review_is_qualifying(review)]
  IN [build |-> diff.build, gates |-> gates, publication_eligible |-> gates.G14 /\ gates.G15]

Report ==
  /\ review # None
  /\ report' = make_report(source \in Licensed)
  /\ build' = None
  /\ UNCHANGED <<source, pinned, run, parsed, norm, candidates, diff, review, accepted>>

\* A run is named by what it read and made: the acquisition by the content.
Runs == [acquisition |-> run.snapshots, parser |-> parsed, normalization |-> norm.digest]

\* The previous build is an argument of the code's make_manifest; here the caller
\* passes the last known good.
make_manifest ==
  LET bindings_ok == /\ review.build = diff.build /\ review.candidate = Corpus(candidates)
                     /\ review.diff = diff /\ report.build = diff.build
      eligible == review_is_qualifying(review) /\ bindings_ok /\ report.publication_eligible
  IN IF eligible
     THEN [build |-> diff.build, state |-> "PACK_READY", previous |-> LKG.build, candidate |-> Corpus(candidates),
           pack_ready |-> TRUE, diff |-> diff, review |-> review, report |-> report, runs |-> Runs]
     ELSE [build |-> diff.build, state |-> "REJECTED", pack_ready |-> FALSE, previous |-> LKG.build]

Manifest ==
  /\ report # None
  /\ build' = make_manifest
  /\ UNCHANGED <<source, pinned, run, parsed, norm, candidates, diff, review, report, accepted>>

-----------------------------------------------------------------------------
(* acceptance *)

inventory_guardrail_errors ==
  \/ (diff.before - diff.after) * 100 > MaxShrink * diff.before /\ ~diff.explained
  \/ IF diff.before = 0 THEN diff.after > 0 /\ 100 > MaxGrowth /\ ~diff.explained
     ELSE (diff.after - diff.before) * 100 > MaxGrowth * diff.before /\ ~diff.explained

review_decision_errors ==
  \/ ~IsInjective(review.actors)
  \/ Cardinality(Range(review.actors)) < review.required
  \/ review.high_risk /\ (review.required < 2 \/ Cardinality(Range(review.actors)) < 2)

validation_report_errors ==
  \/ report.publication_eligible /\ ~(report.gates.G14 /\ report.gates.G15)
  \/ report.gates.G15 /\ review_decision_errors

\* A manifest that is rejected may name a later stage only with every earlier
\* one: that of make_manifest names none.
build_state_errors == build.pack_ready # (build.state = "PACK_READY")

\* The normalization is under the profile it names, and whatever was set aside
\* keeps it from being published.
NormalizationPinned ==
  /\ norm.profile.digest = mapping_profile_digest(norm.profile)
  /\ norm.quarantined # {} => ~norm.publishable

review_and_pack_ready_errors ==
  \/ build_state_errors \/ review_decision_errors \/ validation_report_errors
  \/ review.build # build.build
  \/ review.candidate # Corpus(candidates) \/ build.candidate # Corpus(candidates)
  \/ review.diff # diff \/ build.diff # diff
  \/ build.report # report \/ build.review # review
  \/ ~report.publication_eligible
  \/ ~norm.publishable \/ norm.quarantined # {}

\* The runs: each is of the one before.
RunsBound ==
  /\ run.snapshots # {}
  /\ parsed.snapshot \in run.snapshots
  /\ norm.parsed = parsed
  /\ build.runs = Runs

\* The candidates: they are those of the normalization run, and one lineage
\* and the evidence of every claim lead to a snapshot.
CandidateBound_Curated ==
  \E l \in norm.lineage : l.output \in {r.id : r \in candidates} /\ l.psrs \subseteq parsed.records
CandidateBound ==
  /\ norm.digest = Corpus(candidates)
  /\ \E l \in norm.lineage : /\ l.output \in {r.id : r \in candidates}
                             /\ l.psrs \subseteq parsed.records /\ l.snapshots \subseteq run.snapshots
  /\ \A c \in candidates \ Entities(candidates) :
       c.evidence.snapshot \in run.snapshots /\ c.evidence.release = c.evidence.snapshot

\* The comparison: it is of this candidate with the build it would replace.
DiffBound_AnyBaseline ==
  /\ diff.raw = run.snapshots /\ diff.parsed = parsed
  /\ diff.build = build.build /\ diff.candidate = Corpus(candidates)
DiffBound ==
  /\ diff.raw = run.snapshots /\ diff.parsed = parsed
  /\ diff.build = build.build /\ diff.candidate = Corpus(candidates)
  /\ build.previous # 0 => diff.baseline = build.previous

cross_stage_ri_errors == ~(RunsBound /\ CandidateBound /\ DiffBound /\ report.build = build.build)

\* A bundle without errors is accepted, and is the build to compare with.
Publish ==
  /\ build # None
  /\ build.state = "PACK_READY"
  /\ build.build # LKG.build
  /\ NormalizationPinned /\ ~inventory_guardrail_errors /\ ~review_and_pack_ready_errors /\ ~cross_stage_ri_errors
  /\ accepted' = Append(accepted, [build |-> build.build, records |-> candidates, norm |-> norm,
                                   review |-> review, explained |-> diff.explained])
  /\ UNCHANGED <<source, pinned, run, parsed, norm, candidates, diff, review, report, build>>

Next ==
  \/ Pin \/ Acquire \/ ParseSnapshot \/ Normalize \/ Curate
  \/ Compare \/ Review \/ Report \/ Manifest \/ Publish

Spec == Init /\ [][Next]_vars

-----------------------------------------------------------------------------
(* Properties *)

\* Four eyes: the records of an accepted build were approved as they are, in
\* that build, by one actor, and by two when the change is of high risk;
\* whatever was edited, repeated or reviewed before or after.
ReadyIsReviewed ==
  LKG # None =>
    /\ LKG.review.seen = LKG.records /\ LKG.review.build = LKG.build
    /\ Cardinality(Range(LKG.review.actors)) >= IF source \in HighRisk THEN 2 ELSE 1

Replay(order) == normalize_psr(source, order, LKG.norm.profile, LKG.norm.release, LKG.norm.parsed.at).records

\* Deterministic replay: what was accepted is what the parser and the
\* normalizer make of the snapshot, however the artifacts were mixed.
PublishedTraces ==
  LKG # None =>
    LET s == LKG.norm.parsed.snapshot
    IN LKG.records = Replay(ById(Parse(source, Docs[source][s], s)))

\* No winner among two records of one identity is chosen by the order of
\* their digests: an accepted build is the same for every order.
NoArbitraryWinner ==
  LKG # None => \A order \in SetToSeqs(LKG.norm.parsed.records) : Replay(order) = LKG.records

\* The records that a normalizer is for.
InScope(p, m) ==
  LET n == m.body.normalizer
  IN \/ n = "attack" /\ p.type = "attack-pattern"
     \/ n = "car" /\ p.type = "mitre-car-analytic"
     \/ n = "d3fend" /\ p.type = "d3fend-defensive-technique"
     \/ n = "defenseops"
     \/ n = "sysmon-docs" /\ p.type = "sysmon-event-heading"
     \/ n = "sysmon-schema" /\ p.type = "sysmon-schema-event" /\ p.native.schema = m.body.current
     \/ n = "provider" /\ p.type = "windows-event-provider-definition"
     \/ n = "security-doc" /\ p.type = "windows-security-event-documentation"

\* Nothing is lost between a parser and a candidate: every record that is in
\* scope is in the lineage of an output, or was set aside.
NothingDropped ==
  norm # None =>
    \A p \in norm.parsed.records :
      InScope(p, norm.profile) => p \in norm.quarantined \union UNION {l.psrs : l \in norm.lineage}

\* Two records of one identity are merged or set aside, never chosen from by
\* the accident of their digests, and none disappears (normalize_psr).
NormalizationFaithful == NoArbitraryWinner /\ NothingDropped

\* What the parser of the Sysmon schema accepts, its normalizer does not
\* refuse under a profile of that scope: the two agree on which spellings are
\* one event.
ScopeOf(m, records) ==
  \A p \in records : p.source = m.body.source
                     /\ <<p.native.provider, p.native.channel>> = <<m.body.provider, m.body.channel>>
AcceptedIsNormalizable ==
  source = "sysmon-schema" /\ parsed.records # {} =>
    \A m \in Profiles[source] :
      ProfileBound(source, m, parsed.snapshot) /\ ScopeOf(m, parsed.records)
        => normalize_psr(source, ById(parsed.records), m, parsed.snapshot, 1).ok

Labelling(f, xs) == [i \in DOMAIN xs |-> [xs[i] EXCEPT !.node = IF @ = "" THEN "" ELSE f[@]]]
Renamed(doc, f) ==
  [techniques |-> [i \in DOMAIN doc.techniques |->
     [doc.techniques[i] EXCEPT !.subjects = {[u EXCEPT !.unknown = Labelling(f, @)] : u \in @}]],
   nodes |-> [n \in DOMAIN doc.nodes |-> Labelling(f, doc.nodes[CHOOSE k \in DOMAIN f : f[k] = n])]]

\* The labels of blank nodes, which every export gives anew, are not in the
\* records of D3FEND, nor decide whether a document is accepted.
LabelsDoNotMatter ==
  source = "d3fend" /\ run.at = 0 =>
    LET doc == Docs[source][pinned]
        nodes == DOMAIN doc.nodes
    IN \A f \in {f \in [nodes -> nodes] : Range(f) = nodes} :
         Parse(source, Renamed(doc, f), pinned) = Parse(source, doc, pinned)

\* Two things that an export may spell as it likes: a Sysmon schema whose event
\* numbers are spelled apart is never accepted by its parser and then refused by
\* its normalizer, and new labels of the blank nodes of D3FEND change nothing
\* (_event_id_numeric_value, _stable_blank_node_value).
SpellingsDoNotMatter == AcceptedIsNormalizable /\ LabelsDoNotMatter

Shrinks(from, to) ==
  (Cardinality(Entities(from)) - Cardinality(Entities(to))) * 100 > MaxShrink * Cardinality(Entities(from))

\* The inventory never shrinks by more than its guardrail from one accepted
\* build to the next, unless somebody explained it, with whichever baseline
\* the comparison was made.
NoSilentShrink ==
  [][accepted' # accepted => (Shrinks(LKG.records, LKG'.records) => LKG'.explained)]_vars
=============================================================================
