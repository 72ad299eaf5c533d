---------------------------- MODULE IngestProofs ----------------------------
(***************************************************************************)
(* What is accepted by the control plane was reviewed as it is, is what    *)
(* the parser and the normalizer make of a snapshot, and does not shrink   *)
(* unexplained, for any documents, profiles, panels and bounds; and what a *)
(* normalizer makes depends on no order of the records and drops none.     *)
(* Two parsers are looked into, because what is claimed of them is about   *)
(* what they compute: that of the Sysmon schema, which tells its events    *)
(* apart by their numbers, and that of the D3FEND graph, which forgets the *)
(* labels of blank nodes.  The others are any functions.                   *)
(*                                                                         *)
(* Any stage can be done again at any time, so each artifact is only       *)
(* claimed to be what its own stage makes: of a snapshot (Parsed), of      *)
(* parsed records (Normalized), of a candidate (Compared, Reviewed).  An   *)
(* artifact is claimed to be there because a later one is (Ordered).       *)
(***************************************************************************)
EXTENDS Ingest, Recursion, FiniteSetTheorems, SequenceTheorems

Acquired ==
  source \in DOMAIN Docs /\ pinned \in DOMAIN Docs[source] /\ run.snapshots \subseteq DOMAIN Docs[source]

ParsedFrom(p) ==
  /\ source \in DOMAIN Docs /\ p.snapshot \in DOMAIN Docs[source]
  /\ p.records = Parse(source, Docs[source][p.snapshot], p.snapshot)

\* A normalization run is what the normalizer makes of its records.
MadeBy(n, x) ==
  x.ok /\ n.records = x.records /\ n.lineage = x.lineage /\ n.quarantined = x.quarantined

NormalizedFrom(n) ==
  /\ ParsedFrom(n.parsed)
  /\ MadeBy(n, normalize_psr(source, ById(n.parsed.records), n.profile, n.release, n.parsed.at))
  /\ n.digest = candidate_digest(source, n.records)

Parsed     == parsed.records # {} => ParsedFrom(parsed)
Normalized == norm # None => NormalizedFrom(norm)

\* A review is of what its actors have seen, and requires what the risk does.
Reviewed(r) ==
  /\ r.candidate = Corpus(r.seen) /\ r.actors \in Panels
  /\ r.required = IF source \in HighRisk THEN 2 ELSE 1

\* The comparison counts its candidate and an accepted build.
Compared ==
  /\ diff.after = Cardinality(Entities(diff.candidate.records))
  /\ \E i \in 1..Len(accepted) :
       /\ diff.baseline = accepted[i].build
       /\ diff.before = Cardinality(Entities(accepted[i].records))

\* A manifest names the last known good build, or has become it.
Listed == build.previous = LKG.build \/ build.build = LKG.build

Ordered ==
  /\ diff # None => NormalizedFrom(norm) /\ Compared
  /\ review # None => NormalizedFrom(norm) /\ Compared /\ Reviewed(review)
  /\ report # None => NormalizedFrom(norm) /\ Compared /\ Reviewed(review)
  /\ build # None => NormalizedFrom(norm) /\ Compared /\ Reviewed(review) /\ Listed

\* The builds that were accepted, one after the other.
History ==
  /\ accepted \in Seq(Range(accepted)) /\ Len(accepted) >= 1
  /\ accepted[1] = None
  /\ \A i \in 1..Len(accepted) : accepted[i].build \in Nat /\ accepted[i].build <= diff.build
  /\ \A i, j \in 1..Len(accepted) : i < j => accepted[i].build < accepted[j].build
  /\ diff.build \in Nat

\* What is claimed of each accepted build.
ReviewedBuild(b) ==
  /\ b.review.seen = b.records /\ b.review.build = b.build
  /\ Cardinality(Range(b.review.actors)) >= IF source \in HighRisk THEN 2 ELSE 1
TracedBuild(b) == NormalizedFrom(b.norm) /\ b.records = b.norm.records /\ b.norm.quarantined = {}

Claimed == \A i \in 2..Len(accepted) : ReviewedBuild(accepted[i]) /\ TracedBuild(accepted[i])

IInv == Parsed /\ Normalized /\ Ordered /\ History /\ Claimed

-----------------------------------------------------------------------------
\* A longer history, and its last build.
LEMMA Grown ==
  ASSUME NEW s, s \in Seq(Range(s)), NEW x
  PROVE  /\ Append(s, x) \in Seq(Range(Append(s, x)))
         /\ Len(s) \in Nat /\ Len(Append(s, x)) = Len(s) + 1
         /\ \A i \in 1..Len(s) : Append(s, x)[i] = s[i]
         /\ Append(s, x)[Len(s) + 1] = x /\ Last(Append(s, x)) = x
  <1> DEFINE t == Append(s, x)
             S == Range(s) \union {x}
  <1>1. s \in Seq(S) /\ x \in S
    <2>1. Range(s) \subseteq S
      OBVIOUS
    <2> HIDE DEF S
    <2>2. s \in Seq(S)
      BY <2>1
    <2>3. QED
      BY <2>2 DEF S
  <1> HIDE DEF S
  <1>2. /\ t \in Seq(S) /\ Len(s) \in Nat /\ Len(t) = Len(s) + 1
        /\ \A i \in 1..Len(s) : t[i] = s[i]
        /\ t[Len(s) + 1] = x
    BY <1>1
  <1> HIDE DEF t
  <1>3. Last(t) = x
    BY <1>2 DEF Last
  <1>4. t \in [1..Len(t) -> Range(t)] /\ Len(t) \in Nat
    BY <1>2 DEF Range
  <1>5. t \in Seq(Range(t))
    BY <1>4
  <1>6. QED
    BY <1>2, <1>3, <1>5 DEF t

LEMMA DigestsDiffer ==
  ASSUME NEW r, NEW q, candidate_digest(source, r) = Corpus(q)
  PROVE  r = q
  BY DEF candidate_digest, Corpus, sha256_digest

LEMMA CorpusDiffers ==
  ASSUME NEW r, NEW q, Corpus(r) = Corpus(q)
  PROVE  r = q
  BY DEF Corpus, sha256_digest

LEMMA AcquiredAlways == Spec => []Acquired
  <1>1. Init => Acquired
    <2> SUFFICES ASSUME Init PROVE Acquired
      OBVIOUS
    <2>1. source \in DOMAIN Docs /\ pinned \in DOMAIN Docs[source] /\ run = [at |-> 0, snapshots |-> {}]
      BY DEF Init
    <2>2. run.snapshots = {}
      BY <2>1
    <2>3. QED
      BY <2>1, <2>2 DEF Acquired
  <1>2. ASSUME Acquired, [Next]_vars PROVE Acquired'
    <2> USE DEF Acquired
    <2>1. CASE Pin
      BY <1>2, <2>1 DEF Pin
    <2>2. CASE Acquire
      <3>1. UNCHANGED <<source, pinned>>
        BY <2>2 DEF Acquire
      <3>2. PICK results, served :
              /\ results["main"] \in {"success", "failed"} => results["main"] = Fetched(served)
              /\ run' = [at |-> run.at + 1, snapshots |-> IF results["main"] = "success" THEN {served} ELSE {}]
        BY <2>2, Zenon DEF Acquire
      <3>3. run'.snapshots = IF results["main"] = "success" THEN {served} ELSE {}
        BY <3>2
      <3>4. results["main"] = "success" => served = pinned
        BY <3>2 DEF Fetched
      <3>5. QED
        BY <1>2, <3>1, <3>3, <3>4
    <2>3. CASE UNCHANGED <<source, pinned, run>>
      BY <1>2, <2>3
    <2>4. QED
      BY <1>2, <2>1, <2>2, <2>3
      DEF Next, vars, ParseSnapshot, Normalize, Curate, Compare, Review, Report, Manifest, Publish
  <1>3. QED
    BY <1>1, <1>2, PTL DEF Spec

LEMMA Initially == Init => IInv
  <1> SUFFICES ASSUME Init PROVE IInv
    OBVIOUS
  <1>1. Parsed /\ Normalized /\ Ordered
    BY DEF Init, Parsed, Normalized, Ordered
  <1>2. accepted = <<None>> /\ diff = None /\ diff.build = 0 /\ None.build = 0
    BY DEF Init, None
  <1>3. Len(accepted) = 1 /\ accepted[1] = None /\ 1..1 = {1} /\ 2..1 = {}
    BY <1>2
  <1>4. accepted \in Seq(Range(accepted))
    <2>1. DOMAIN accepted = 1..1 /\ accepted \in Seq({None})
      BY <1>2
    <2>2. Range(accepted) = {None}
      BY <2>1, <1>3 DEF Range
    <2>3. QED
      BY <2>1, <2>2
  <1>5. History
    BY <1>2, <1>3, <1>4 DEF History
  <1>6. Claimed
    BY <1>3 DEF Claimed
  <1>7. QED
    BY <1>1, <1>5, <1>6 DEF IInv

\* Before the first comparison there is no history, so None is not compared.
LEMMA HistoryKept ==
  ASSUME IInv, UNCHANGED <<source, accepted>>, diff'.build \in Nat, diff'.build >= diff.build
  PROVE  History' /\ Claimed'
  <1>1. History'
    BY DEF IInv, History
  <1>2. Claimed'
    BY DEF IInv, Claimed, ReviewedBuild, TracedBuild, NormalizedFrom, ParsedFrom
  <1>3. QED
    BY <1>1, <1>2

LEMMA ParseKept ==
  ASSUME IInv, Acquired, ParseSnapshot
  PROVE  IInv'
  <1> USE DEF ParseSnapshot
  <1>1. Parsed'
    BY DEF Parsed, ParsedFrom, Acquired
  <1>2. Normalized' /\ Ordered'
    BY DEF IInv, Normalized, NormalizedFrom, ParsedFrom, Ordered, Compared, Reviewed, Listed, LKG
  <1>3. History' /\ Claimed'
    BY HistoryKept DEF IInv, History
  <1>4. QED
    BY <1>1, <1>2, <1>3 DEF IInv

LEMMA NormalizeKept ==
  ASSUME IInv, Normalize
  PROVE  IInv'
  <1>1. NormalizedFrom(norm)'
    <2>1. /\ ParsedFrom(parsed) /\ UNCHANGED <<source, parsed, pinned>>
      BY DEF IInv, Parsed, Normalize
    <2>2. PICK m \in Profiles[source] :
            /\ normalize_psr(source, ById(parsed.records), m, pinned, parsed.at).ok
            /\ norm' = NormalizationRun(m, normalize_psr(source, ById(parsed.records), m, pinned, parsed.at))
      BY DEF Normalize
    <2> DEFINE x == normalize_psr(source, ById(parsed.records), m, pinned, parsed.at)
    <2>3. x.ok /\ norm' = NormalizationRun(m, x)
      BY <2>2
    <2> HIDE DEF x
    <2>4. /\ norm'.parsed = parsed /\ norm'.profile = m /\ norm'.release = pinned
          /\ norm'.records = x.records /\ norm'.lineage = x.lineage /\ norm'.quarantined = x.quarantined
          /\ norm'.digest = candidate_digest(source, norm'.records)
      BY <2>3 DEF NormalizationRun
    <2>5. MadeBy(norm', x)
      BY <2>3, <2>4 DEF MadeBy
    <2>6. QED
      BY <2>1, <2>4, <2>5 DEF NormalizedFrom, ParsedFrom, x
  <1>2. Parsed' /\ Normalized' /\ Ordered'
    BY <1>1 DEF Normalize, IInv, Parsed, ParsedFrom, Normalized, Ordered, Compared, Reviewed, Listed, LKG
  <1>3. History' /\ Claimed'
    BY HistoryKept DEF IInv, History, Normalize
  <1>4. QED
    BY <1>2, <1>3 DEF IInv

LEMMA CompareKept ==
  ASSUME IInv, Compare
  PROVE  IInv'
  <1>1. UNCHANGED <<source, parsed, norm, accepted>> /\ norm # None
        /\ review' = None /\ report' = None /\ build' = None
    BY DEF Compare
  <1>2. PICK base \in Range(accepted) :
          /\ diff'.build = diff.build + 1 /\ diff'.baseline = base.build
          /\ diff'.before = Cardinality(Entities(base.records))
          /\ diff'.after = Cardinality(Entities(candidates)) /\ diff'.candidate = Corpus(candidates)
    BY DEF Compare
  <1>3. Compared'
    <2>1. PICK i \in DOMAIN accepted : base = accepted[i]
      BY DEF Range
    <2>2. DOMAIN accepted = 1..Len(accepted)
      BY DEF IInv, History
    <2>3. diff'.candidate.records = candidates
      BY <1>2 DEF Corpus, sha256_digest
    <2>4. QED
      BY <1>1, <1>2, <2>1, <2>2, <2>3 DEF Compared, Entities
  <1>4. Parsed' /\ Normalized' /\ NormalizedFrom(norm)'
    BY <1>1 DEF IInv, Parsed, ParsedFrom, Normalized, NormalizedFrom
  <1>5. Ordered'
    BY <1>1, <1>3, <1>4 DEF Ordered
  <1>6. diff'.build \in Nat /\ diff'.build >= diff.build
    BY <1>2 DEF IInv, History
  <1>7. QED
    BY <1>1, <1>4, <1>5, <1>6, HistoryKept DEF IInv

LEMMA ReviewKept ==
  ASSUME IInv, Review
  PROVE  IInv'
  <1>1. UNCHANGED <<source, parsed, norm, candidates, diff, report, accepted>> /\ diff # None /\ build' = None
    BY DEF Review
  <1>2. Reviewed(review)'
    <2>1. PICK actors \in Panels : review' = make_review(actors, source \in HighRisk)
      BY DEF Review
    <2>2. /\ review'.candidate = Corpus(candidates) /\ review'.seen = candidates /\ review'.actors \in Panels
          /\ review'.required = (IF source \in HighRisk THEN 2 ELSE 1)
      BY <2>1 DEF make_review
    <2>3. QED
      BY <1>1, <2>2 DEF Reviewed, Corpus
  <1>3. Parsed' /\ Normalized' /\ NormalizedFrom(norm)' /\ Compared'
    BY <1>1 DEF IInv, Parsed, ParsedFrom, Normalized, NormalizedFrom, Ordered, Compared
  <1>4. Ordered'
    BY <1>1, <1>2, <1>3 DEF Ordered
  <1>5. QED
    BY <1>1, <1>3, <1>4, HistoryKept DEF IInv, History

LEMMA ReportKept ==
  ASSUME IInv, Report
  PROVE  IInv'
  <1>1. UNCHANGED <<source, parsed, norm, candidates, diff, review, accepted>> /\ review # None /\ build' = None
    BY DEF Report
  <1>2. Parsed' /\ Normalized' /\ NormalizedFrom(norm)' /\ Compared' /\ Reviewed(review)'
    BY <1>1 DEF IInv, Parsed, ParsedFrom, Normalized, NormalizedFrom, Ordered, Compared, Reviewed
  <1>3. Ordered'
    BY <1>1, <1>2 DEF Ordered
  <1>4. QED
    BY <1>1, <1>2, <1>3, HistoryKept DEF IInv, History

LEMMA ManifestKept ==
  ASSUME IInv, Manifest
  PROVE  IInv'
  <1>1. UNCHANGED <<source, parsed, norm, candidates, diff, review, report, accepted>> /\ report # None
        /\ build' = make_manifest
    BY DEF Manifest
  <1>2. Parsed' /\ Normalized' /\ NormalizedFrom(norm)' /\ Compared' /\ Reviewed(review)'
    BY <1>1 DEF IInv, Parsed, ParsedFrom, Normalized, NormalizedFrom, Ordered, Compared, Reviewed
  <1>3. Listed'
    <2>1. build'.previous = LKG.build
      BY <1>1 DEF make_manifest
    <2>2. QED
      BY <1>1, <2>1 DEF Listed, LKG
  <1>4. Ordered'
    BY <1>1, <1>2, <1>3 DEF IInv, Ordered
  <1>5. QED
    BY <1>1, <1>2, <1>4, HistoryKept DEF IInv, History

LEMMA OthersKeep ==
  ASSUME IInv, Pin \/ Acquire \/ Curate \/ UNCHANGED vars
  PROVE  IInv'
  <1>1. UNCHANGED <<source, parsed, norm, diff, review, report, build, accepted>>
    BY DEF Pin, Acquire, Curate, vars
  <1>2. Parsed' /\ Normalized' /\ Ordered'
    BY <1>1 DEF IInv, Parsed, ParsedFrom, Normalized, NormalizedFrom, Ordered, Compared, Reviewed, Listed, LKG
  <1>3. QED
    BY <1>1, <1>2, HistoryKept DEF IInv, History

LEMMA PanelsCount ==
  ASSUME NEW a \in Panels
  PROVE  Cardinality(Range(a)) \in Nat
  <1>1. a \in Seq(Range(a))
    BY IngestAssumption
  <1>2. /\ Len(a) \in Nat /\ DOMAIN a = 1..Len(a)
    BY <1>1
  <1>3. IsFiniteSet(1..Len(a))
    BY <1>2, FS_Interval
  <1>4. a \in Surjection(1..Len(a), Range(a))
    <2>1. a \in [1..Len(a) -> Range(a)]
      BY <1>1, <1>2
    <2>2. \A y \in Range(a) : \E i \in 1..Len(a) : a[i] = y
      BY <1>2 DEF Range
    <2>3. QED
      BY <2>1, <2>2 DEF Surjection
  <1>5. IsFiniteSet(Range(a))
    BY <1>3, <1>4, FS_Surjection, Zenon
  <1>6. QED
    BY <1>5, FS_CardinalityType, Zenon

\* What is known of a bundle when it is accepted.
LEMMA Accepting ==
  ASSUME IInv, Publish
  PROVE  /\ NormalizedFrom(norm) /\ norm.records = candidates
         /\ Compared /\ diff.candidate = Corpus(candidates) /\ build.build = diff.build
         /\ LKG.build # diff.build /\ (LKG.build # 0 => diff.baseline = LKG.build)
         /\ Reviewed(review) /\ review.seen = candidates /\ review.build = diff.build
         /\ ~review_decision_errors /\ norm.quarantined = {}
  <1>1. /\ build # None /\ build.build # LKG.build
        /\ ~review_and_pack_ready_errors /\ CandidateBound /\ DiffBound
    BY DEF Publish, cross_stage_ri_errors
  <1>2. NormalizedFrom(norm) /\ Compared /\ Reviewed(review) /\ Listed
    BY <1>1 DEF IInv, Ordered
  <1>3. norm.records = candidates
    <2>1. candidate_digest(source, norm.records) = Corpus(candidates)
      BY <1>1, <1>2 DEF CandidateBound, NormalizedFrom
    <2>2. QED
      BY <2>1, DigestsDiffer
  <1>4. /\ review.candidate = Corpus(candidates) /\ review.build = build.build
        /\ ~review_decision_errors /\ norm.quarantined = {}
    BY <1>1 DEF review_and_pack_ready_errors
  <1>5. review.seen = candidates
    BY <1>2, <1>4, CorpusDiffers DEF Reviewed
  <1>6. /\ diff.candidate = Corpus(candidates) /\ build.build = diff.build
        /\ LKG.build # 0 => diff.baseline = LKG.build
    BY <1>1, <1>2 DEF DiffBound, Listed
  <1>7. QED
    BY <1>1, <1>2, <1>3, <1>4, <1>5, <1>6

\* What is accepted was approved by enough, as it is.
LEMMA AcceptedIsReviewed ==
  ASSUME IInv, Publish, NEW b,
         b.build = diff.build, b.records = candidates, b.norm = norm, b.review = review
  PROVE  ReviewedBuild(b) /\ TracedBuild(b)
  <1>1. Cardinality(Range(review.actors)) >= IF source \in HighRisk THEN 2 ELSE 1
    <2> DEFINE n == Cardinality(Range(review.actors))
    <2>1. n \in Nat /\ Reviewed(review) /\ ~review_decision_errors
      BY Accepting, PanelsCount DEF Reviewed
    <2>2. ~(n < review.required) /\ review.required = IF source \in HighRisk THEN 2 ELSE 1
      BY <2>1 DEF Reviewed, review_decision_errors
    <2> HIDE DEF n
    <2>3. ASSUME source \in HighRisk PROVE n >= 2
      BY <2>1, <2>2, <2>3
    <2>4. ASSUME source \notin HighRisk PROVE n >= 1
      BY <2>1, <2>2, <2>4
    <2>5. QED
      BY <2>3, <2>4 DEF n
  <1>2. ReviewedBuild(b)
    BY <1>1, Accepting DEF ReviewedBuild
  <1>3. TracedBuild(b)
    BY Accepting DEF TracedBuild
  <1>4. QED
    BY <1>2, <1>3

LEMMA PublishKept ==
  ASSUME IInv, Publish
  PROVE  IInv'
  <1> DEFINE b == [build |-> build.build, records |-> candidates, norm |-> norm,
                   review |-> review, explained |-> diff.explained]
  <1>1. /\ accepted' = Append(accepted, b)
        /\ UNCHANGED <<source, parsed, norm, candidates, diff, review, report, build>>
    BY DEF Publish
  <1>2. /\ b.build = diff.build /\ b.records = candidates /\ b.norm = norm /\ b.review = review
        /\ build.build = diff.build
    BY Accepting
  <1> HIDE DEF b
  <1>3. ReviewedBuild(b) /\ TracedBuild(b)
    BY <1>2, AcceptedIsReviewed
  <1>4. accepted \in Seq(Range(accepted)) /\ Len(accepted) >= 1
    BY DEF IInv, History
  <1>5. /\ accepted' \in Seq(Range(accepted')) /\ Len(accepted) \in Nat /\ Len(accepted') = Len(accepted) + 1
        /\ \A i \in 1..Len(accepted) : accepted'[i] = accepted[i]
        /\ accepted'[Len(accepted) + 1] = b /\ LKG' = b
    BY <1>1, <1>4, Grown DEF LKG
  <1>6. History'
    <2>1. /\ \A i \in 1..Len(accepted) : accepted[i].build \in Nat /\ accepted[i].build <= diff.build
          /\ \A i, j \in 1..Len(accepted) : i < j => accepted[i].build < accepted[j].build
          /\ accepted[1] = None /\ diff.build \in Nat
      BY DEF IInv, History
    <2>2. accepted[Len(accepted)].build < diff.build
      BY <1>4, <1>5, <2>1, Accepting DEF LKG, Last
    <2>3. \A i \in 1..Len(accepted) : accepted[i].build < diff.build
      <3> SUFFICES ASSUME NEW i \in 1..Len(accepted) PROVE accepted[i].build < diff.build
        OBVIOUS
      <3>1. Len(accepted) \in 1..Len(accepted) /\ (i = Len(accepted) \/ i < Len(accepted))
        BY <1>4, <1>5
      <3>2. QED
        BY <2>1, <2>2, <3>1
    <2>4. \A i \in 1..Len(accepted') : i \in 1..Len(accepted) \/ i = Len(accepted) + 1
      BY <1>5
    <2>5. \A i \in 1..Len(accepted') : accepted'[i].build \in Nat /\ accepted'[i].build <= diff.build
      BY <1>2, <1>5, <2>1, <2>4
    <2>6. \A i, j \in 1..Len(accepted') : i < j => accepted'[i].build < accepted'[j].build
      <3> SUFFICES ASSUME NEW i \in 1..Len(accepted'), NEW j \in 1..Len(accepted'), i < j
                   PROVE  accepted'[i].build < accepted'[j].build
        OBVIOUS
      <3>1. i \in 1..Len(accepted)
        BY <1>5
      <3>2. CASE j \in 1..Len(accepted)
        BY <1>5, <2>1, <3>1, <3>2
      <3>3. CASE j = Len(accepted) + 1
        BY <1>2, <1>5, <2>3, <3>1, <3>3
      <3>4. QED
        BY <2>4, <3>2, <3>3
    <2>7. QED
      BY <1>1, <1>4, <1>5, <2>1, <2>5, <2>6 DEF History
  <1>7. Claimed'
    <2> SUFFICES ASSUME NEW i \in 2..Len(accepted') PROVE ReviewedBuild(accepted'[i]) /\ TracedBuild(accepted'[i])
      BY <1>1 DEF Claimed, ReviewedBuild, TracedBuild, NormalizedFrom, ParsedFrom
    <2>1. CASE i \in 2..Len(accepted)
      <3>1. accepted'[i] = accepted[i] /\ ReviewedBuild(accepted[i]) /\ TracedBuild(accepted[i])
        BY <1>5, <2>1 DEF IInv, Claimed
      <3>2. QED
        BY <3>1
    <2>2. CASE i = Len(accepted) + 1
      BY <1>3, <1>5, <2>2
    <2>3. QED
      BY <1>5, <2>1, <2>2
  <1>8. Parsed' /\ Normalized' /\ NormalizedFrom(norm)' /\ Reviewed(review)'
    BY <1>1, Accepting DEF IInv, Parsed, ParsedFrom, Normalized, NormalizedFrom, Reviewed
  <1>9. Compared'
    <2>1. PICK i \in 1..Len(accepted) : /\ diff.baseline = accepted[i].build
                                        /\ diff.before = Cardinality(Entities(accepted[i].records))
      BY Accepting DEF Compared
    <2>2. i \in 1..Len(accepted') /\ accepted'[i] = accepted[i]
      BY <1>5
    <2>3. diff'.after = Cardinality(Entities(diff'.candidate.records))
      BY <1>1, Accepting DEF Compared
    <2>4. QED
      BY <1>1, <2>1, <2>2, <2>3 DEF Compared, Entities
  <1>10. Listed'
    BY <1>1, <1>2, <1>5 DEF Listed
  <1>11. QED
    BY <1>6, <1>7, <1>8, <1>9, <1>10 DEF IInv, Ordered

-----------------------------------------------------------------------------
(* The identifiers of what is made. *)

\* Entities are identified by three texts, claims by five.
LEMMA TupleLengths ==
  ASSUME NEW a, NEW b, NEW c
  PROVE  /\ DOMAIN <<a, b, c>> = 1..3
         /\ \A x, y : DOMAIN (<<a, b, c>> \o <<x, y>>) = 1..5
  <1>1. DOMAIN <<a, b, c>> = 1..3
    OBVIOUS
  <1>2. ASSUME NEW x, NEW y
        PROVE  DOMAIN (<<a, b, c>> \o <<x, y>>) = 1..5
    <2> DEFINE S == {a, b, c, x, y}
    <2>1. <<a, b, c>> \in Seq(S) /\ Len(<<a, b, c>>) = 3
      OBVIOUS
    <2>2. <<x, y>> \in Seq(S) /\ Len(<<x, y>>) = 2
      OBVIOUS
    <2> DEFINE s == <<a, b, c>>
               t == <<x, y>>
    <2> HIDE DEF S, s, t
    <2>3. s \in Seq(S) /\ t \in Seq(S)
      BY <2>1, <2>2 DEF s, t
    <2>4. Len(s \o t) = Len(s) + Len(t) /\ DOMAIN (s \o t) = 1..Len(s \o t)
      BY ONLY <2>3
    <2>5. Len(s) = 3 /\ Len(t) = 2 /\ 3 + 2 = 5
      BY <2>1, <2>2 DEF s, t
    <2>6. QED
      BY ONLY <2>4, <2>5 DEF s, t
  <1>3. QED
    BY <1>1, <1>2

IsEntityId(i) == DOMAIN i = 1..3
IsClaimId(i)  == DOMAIN i = 1..5

LEMMA IdsDiffer == \A i, j : IsEntityId(i) /\ IsClaimId(j) => i # j
  BY DEF IsEntityId, IsClaimId

LEMMA EntityIds ==
  \A type, namespace, key, title, native, created :
    IsEntityId(Entity(type, namespace, key, title, native, created).id)
  BY TupleLengths DEF Entity, IsEntityId

LEMMA ClaimIds ==
  ASSUME NEW type, NEW namespace, NEW key, NEW title, NEW native, NEW created
  PROVE  \A predicate, value, p, release, at :
    IsClaimId(_claim(Entity(type, namespace, key, title, native, created).id, predicate, value, p, release, at).id)
  BY TupleLengths DEF Entity, _claim, IsClaimId

-----------------------------------------------------------------------------
(* What becomes of one record. *)

\* The identifiers of an entity and of its claims, and what is skipped.
ShapeOf(o, inScope) ==
  /\ o.verdict \in {"skipped", "ambiguous", "refused", "made"}
  /\ o.verdict = "skipped" => ~inScope
  /\ o.verdict = "made" => IsEntityId(o.entity.id) /\ \A c \in o.claims : IsClaimId(c.id)

LEMMA Judging ==
  ASSUME NEW inScope, NEW identified, NEW bound, NEW e, NEW claims, NEW blockers,
         IsEntityId(e.id), \A c \in claims : IsClaimId(c.id)
  PROVE  ShapeOf(Judged(inScope, identified, bound, Made(e, claims, blockers)), inScope)
  BY DEF ShapeOf, Judged, Made

Normalizers == {"attack", "car", "d3fend", "defenseops", "sysmon-docs", "sysmon-schema", "security-doc"}

LEMMA OutcomeShape ==
  ASSUME NEW n \in Normalizers, NEW p, NEW m, m.body.normalizer = n, NEW release, NEW at
  PROVE  ShapeOf(Outcome(n, p, m, release, at), InScope(p, m))
  <1> USE DEF Normalizers
  <1>1. CASE n = "attack"
    <2> DEFINE id == Only(Identifiers(p, "attack_id"))
               when == IF p.native.created # "" THEN p.native.created ELSE at
               d == Entity("attack-technique", "mitre.attack", LowerCase(id), p.native.name,
                           [value |-> id, stix |-> p.key, release |-> release], when)
               e == [d EXCEPT !.lifecycle = _lifecycle(p.native)]
               claims == IF p.native.description = "" THEN {}
                         ELSE {_claim(e.id, "behavior.description", p.native.description, p, release, at)}
    <2>1. e.id = d.id
      BY DEF Entity
    <2>2. IsEntityId(e.id)
      <3>1. IsEntityId(d.id)
        BY EntityIds
      <3> HIDE DEF d, e
      <3>2. QED
        BY <2>1, <3>1
    <2>3. \A c \in claims : IsClaimId(c.id)
      <3>1. \A predicate, value : IsClaimId(_claim(d.id, predicate, value, p, release, at).id)
        BY ClaimIds
      <3> HIDE DEF d, e
      <3>2. \A predicate, value : IsClaimId(_claim(e.id, predicate, value, p, release, at).id)
        BY <2>1, <3>1
      <3>3. QED
        BY <3>2
    <2>4. Outcome(n, p, m, release, at) =
            Judged(p.type = "attack-pattern", WellFormed(p, "attack_id") /\ p.native.name # "", TRUE, Made(e, claims, {}))
      BY <1>1 DEF Outcome, normalize_attack
    <2>5. InScope(p, m) <=> p.type = "attack-pattern"
      BY <1>1 DEF InScope
    <2> HIDE DEF e, claims
    <2> DEFINE o == Judged(p.type = "attack-pattern", WellFormed(p, "attack_id") /\ p.native.name # "", TRUE, Made(e, claims, {}))
               scope == p.type = "attack-pattern"
    <2>6. Outcome(n, p, m, release, at) = o /\ (InScope(p, m) <=> scope)
      BY <2>4, <2>5
    <2>7. ShapeOf(o, scope)
      BY <2>2, <2>3, Judging
    <2> HIDE DEF o, scope
    <2>8. QED
      BY <2>6, <2>7 DEF ShapeOf
  <1>2. CASE n = "car"
    <2> DEFINE e == Entity("analytic", "mitre.car", LowerCase(Only(Identifiers(p, "car_id"))), p.native.title,
                           [value |-> Only(Identifiers(p, "car_id")), release |-> release], at)
               claims == IF p.native.description = "" THEN {}
                         ELSE {_claim(e.id, "description", p.native.description, p, release, at)}
               blockers == {}
    <2>1. IsEntityId(e.id)
      BY EntityIds
    <2>2. \A c \in claims : IsClaimId(c.id)
      BY ClaimIds
    <2>3. Outcome(n, p, m, release, at) = Judged(p.type = "mitre-car-analytic", WellFormed(p, "car_id") /\ p.native.title # "", TRUE, Made(e, claims, blockers))
      BY <1>2 DEF Outcome, normalize_car
    <2>4. InScope(p, m) <=> p.type = "mitre-car-analytic"
      BY <1>2 DEF InScope
    <2> HIDE DEF e, claims, blockers
    <2> DEFINE o == Judged(p.type = "mitre-car-analytic", WellFormed(p, "car_id") /\ p.native.title # "", TRUE, Made(e, claims, blockers))
               scope == p.type = "mitre-car-analytic"
    <2>5. Outcome(n, p, m, release, at) = o /\ (InScope(p, m) <=> scope)
      BY <2>3, <2>4
    <2>6. ShapeOf(o, scope)
      BY <2>1, <2>2, Judging
    <2> HIDE DEF o, scope
    <2>7. QED
      BY <2>5, <2>6 DEF ShapeOf
  <1>3. CASE n = "d3fend"
    <2> DEFINE e == Entity("defensive-technique", "mitre.d3fend", LowerCase(Only(Identifiers(p, "d3fend_id"))), p.native.label,
                           [value |-> Only(Identifiers(p, "d3fend_id")), iri |-> p.key, release |-> release], at)
               claims == {_claim(e.id, "definition", d, p, release, at) : d \in p.native.definitions \ {""}}
               blockers == {}
    <2>1. IsEntityId(e.id)
      BY EntityIds
    <2>2. \A c \in claims : IsClaimId(c.id)
      BY ClaimIds
    <2>3. Outcome(n, p, m, release, at) = Judged(p.type = "d3fend-defensive-technique", WellFormed(p, "d3fend_id") /\ p.native.label # "", TRUE, Made(e, claims, blockers))
      BY <1>3 DEF Outcome, normalize_d3fend
    <2>4. InScope(p, m) <=> p.type = "d3fend-defensive-technique"
      BY <1>3 DEF InScope
    <2> HIDE DEF e, claims, blockers
    <2> DEFINE o == Judged(p.type = "d3fend-defensive-technique", WellFormed(p, "d3fend_id") /\ p.native.label # "", TRUE, Made(e, claims, blockers))
               scope == p.type = "d3fend-defensive-technique"
    <2>5. Outcome(n, p, m, release, at) = o /\ (InScope(p, m) <=> scope)
      BY <2>3, <2>4
    <2>6. ShapeOf(o, scope)
      BY <2>1, <2>2, Judging
    <2> HIDE DEF o, scope
    <2>7. QED
      BY <2>5, <2>6 DEF ShapeOf
  <1>4. CASE n = "defenseops"
    <2> DEFINE r == p.native
               d == Entity(r.type, "defenseops", LowerCase(r.id), r.id,
                           [value |-> r.id, review |-> r.review, license |-> r.license], at)
               e == [d EXCEPT !.curation = IF r.review = "validated" THEN "review" ELSE "draft"]
               claims == {}
               blockers == {<<r.id, g>> : g \in (IF r.review = "validated" THEN {} ELSE {"G15"})
                                                \union (IF r.license = "verified" THEN {} ELSE {"G14"})}
    <2>1. e.id = d.id
      BY DEF Entity
    <2>2. IsEntityId(e.id)
      <3>1. IsEntityId(d.id)
        BY EntityIds
      <3> HIDE DEF d, e
      <3>2. QED
        BY <2>1, <3>1
    <2>3. Outcome(n, p, m, release, at) =
            Judged(TRUE, LowerCase(r.id) \in Shaped["key"], TRUE, Made(e, claims, blockers))
      BY <1>4 DEF Outcome, normalize_defenseops
    <2>4. InScope(p, m)
      BY <1>4 DEF InScope
    <2>5. \A c \in claims : IsClaimId(c.id)
      OBVIOUS
    <2> HIDE DEF e, claims, blockers
    <2> DEFINE scope == TRUE
               o == Judged(scope, LowerCase(r.id) \in Shaped["key"], TRUE, Made(e, claims, blockers))
    <2>6. Outcome(n, p, m, release, at) = o /\ (InScope(p, m) <=> scope)
      BY <2>3, <2>4
    <2> HIDE DEF scope
    <2>7. ShapeOf(o, scope)
      BY <2>2, <2>5, Judging
    <2> HIDE DEF o
    <2>8. QED
      BY <2>6, <2>7 DEF ShapeOf
  <1>5. CASE n = "sysmon-docs"
    <2> DEFINE e == Entity("event", Namespace["sysmon-docs"], Only(Identifiers(p, "event_id")), p.native.title,
                           [value |-> Only(Identifiers(p, "event_id")), provider |-> m.body.provider,
                            channel |-> m.body.channel, release |-> release], at)
               claims == {}
               blockers == {}
    <2>1. IsEntityId(e.id)
      BY EntityIds
    <2>2. \A c \in claims : IsClaimId(c.id)
      BY ClaimIds
    <2>3. Outcome(n, p, m, release, at) = Judged(p.type = "sysmon-event-heading", WellFormed(p, "event_id") /\ p.native.title # "", p.native.release = release, Made(e, claims, blockers))
      BY <1>5 DEF Outcome, normalize_sysmon_docs
    <2>4. InScope(p, m) <=> p.type = "sysmon-event-heading"
      BY <1>5 DEF InScope
    <2> HIDE DEF e, claims, blockers
    <2> DEFINE o == Judged(p.type = "sysmon-event-heading", WellFormed(p, "event_id") /\ p.native.title # "", p.native.release = release, Made(e, claims, blockers))
               scope == p.type = "sysmon-event-heading"
    <2>5. Outcome(n, p, m, release, at) = o /\ (InScope(p, m) <=> scope)
      BY <2>3, <2>4
    <2>6. ShapeOf(o, scope)
      BY <2>1, <2>2, Judging
    <2> HIDE DEF o, scope
    <2>7. QED
      BY <2>5, <2>6 DEF ShapeOf
  <1>6. CASE n = "sysmon-schema"
    <2> DEFINE e == Entity("event", Namespace["sysmon-schema"], Decimal[p.native.number], p.native.title,
                           [value |-> p.native.event, number |-> p.native.number, version |-> p.native.version,
                            fields |-> p.native.fields, release |-> release], at)
               claims == {}
               blockers == {}
    <2>1. IsEntityId(e.id)
      BY EntityIds
    <2>2. \A c \in claims : IsClaimId(c.id)
      BY ClaimIds
    <2>3. Outcome(n, p, m, release, at) = Judged(p.type = "sysmon-schema-event" /\ p.native.schema = m.body.current, TRUE, <<p.native.provider, p.native.channel>> = <<m.body.provider, m.body.channel>>, Made(e, claims, blockers))
      BY <1>6 DEF Outcome, normalize_sysmon_schema
    <2>4. InScope(p, m) <=> p.type = "sysmon-schema-event" /\ p.native.schema = m.body.current
      BY <1>6 DEF InScope
    <2> HIDE DEF e, claims, blockers
    <2> DEFINE o == Judged(p.type = "sysmon-schema-event" /\ p.native.schema = m.body.current, TRUE, <<p.native.provider, p.native.channel>> = <<m.body.provider, m.body.channel>>, Made(e, claims, blockers))
               scope == p.type = "sysmon-schema-event" /\ p.native.schema = m.body.current
    <2>5. Outcome(n, p, m, release, at) = o /\ (InScope(p, m) <=> scope)
      BY <2>3, <2>4
    <2>6. ShapeOf(o, scope)
      BY <2>1, <2>2, Judging
    <2> HIDE DEF o, scope
    <2>7. QED
      BY <2>5, <2>6 DEF ShapeOf
  <1>7. CASE n = "security-doc"
    <2> DEFINE e == Entity("event", Namespace["security-doc"], Only(Identifiers(p, "event_id")), p.native.title,
                           [value |-> Only(Identifiers(p, "event_id")), versions |-> p.native.versions,
                            release |-> release], at)
               claims == {}
               blockers == {}
               same == Only(Identifiers(p, "event_id")) = p.native.event
    <2>1. IsEntityId(e.id)
      BY EntityIds
    <2>2. \A c \in claims : IsClaimId(c.id)
      BY ClaimIds
    <2>3. Outcome(n, p, m, release, at) = Judged(p.type = "windows-security-event-documentation", WellFormed(p, "event_id") /\ (same => p.native.title # ""), same /\ <<p.native.provider, p.native.channel>> = <<m.body.provider, m.body.channel>>, Made(e, claims, blockers))
      BY <1>7 DEF Outcome, normalize_security_doc
    <2>4. InScope(p, m) <=> p.type = "windows-security-event-documentation"
      BY <1>7 DEF InScope
    <2> HIDE DEF e, claims, blockers
    <2> DEFINE o == Judged(p.type = "windows-security-event-documentation", WellFormed(p, "event_id") /\ (same => p.native.title # ""), same /\ <<p.native.provider, p.native.channel>> = <<m.body.provider, m.body.channel>>, Made(e, claims, blockers))
               scope == p.type = "windows-security-event-documentation"
    <2>5. Outcome(n, p, m, release, at) = o /\ (InScope(p, m) <=> scope)
      BY <2>3, <2>4
    <2>6. ShapeOf(o, scope)
      BY <2>1, <2>2, Judging
    <2> HIDE DEF o, scope
    <2>7. QED
      BY <2>5, <2>6 DEF ShapeOf
  <1>8. QED
    BY <1>1, <1>2, <1>3, <1>4, <1>5, <1>6, <1>7

-----------------------------------------------------------------------------
(* One record after the other. *)

\* The outcome of each record is given as a function on the records S.
Outputs(o) == {o.entity} \union o.claims

Results(S, out, m) ==
  LET R == UNION {Outputs(out[p]) : p \in S}
  IN [ok : BOOLEAN, records : SUBSET R,
      lineage : SUBSET UNION {{_lineage(r.id, {p}, m) : r \in R} : p \in S},
      quarantined : SUBSET S, blockers : SUBSET UNION {out[p].blockers : p \in S}]

Visited(s, p, o, m) == IF s.ok THEN Add(s, p, o, m) ELSE s

\* What is made of the first k records, for each k.
Walk(a, S, order, out, m) ==
  /\ a \in [0..Len(order) -> Results(S, out, m)]
  /\ a[0] = Empty
  /\ \A k \in 1..Len(order) : a[k] = Visited(a[k-1], order[k], out[order[k]], m)

\* What a record that is made adds.
Added(s, p, o, m) ==
  [s EXCEPT !.records = @ \union Outputs(o),
            !.lineage = @ \union {_lineage(r.id, {p}, m) : r \in Outputs(o)},
            !.blockers = @ \union o.blockers]

Taken(s, o) == o.verdict = "made" /\ o.entity.id \in {r.id : r \in s.records}

\* The four ends of a visit.
LEMMA AddCases ==
  ASSUME NEW s, NEW p, NEW o, NEW m
  PROVE  LET refused == p.source # m.body.source \/ o.verdict = "refused"
                        \/ (Taken(s, o) /\ p.source = "sysmon-schema")
         IN /\ refused => Add(s, p, o, m) = [s EXCEPT !.ok = FALSE]
            /\ ~refused /\ o.verdict = "skipped" => Add(s, p, o, m) = s
            /\ ~refused /\ o.verdict # "skipped" /\ (Taken(s, o) \/ o.verdict = "ambiguous")
                 => Add(s, p, o, m) = [s EXCEPT !.quarantined = @ \union {p}]
            /\ ~refused /\ o.verdict # "skipped" /\ ~Taken(s, o) /\ o.verdict # "ambiguous"
                 => Add(s, p, o, m) = Added(s, p, o, m)
  BY DEF Add, SetAside, Added, Taken, Outputs

LEMMA AddType ==
  ASSUME NEW S, NEW out, NEW m, NEW s \in Results(S, out, m), NEW p \in S
  PROVE  Add(s, p, out[p], m) \in Results(S, out, m)
  <1> DEFINE R == UNION {Outputs(out[q]) : q \in S}
             L == UNION {{_lineage(r.id, {q}, m) : r \in R} : q \in S}
             B == UNION {out[q].blockers : q \in S}
             T == [ok : BOOLEAN, records : SUBSET R, lineage : SUBSET L, quarantined : SUBSET S, blockers : SUBSET B]
             l == {_lineage(r.id, {p}, m) : r \in Outputs(out[p])}
  <1>1. Results(S, out, m) = T
    BY DEF Results
  <1>2. Outputs(out[p]) \subseteq R /\ out[p].blockers \subseteq B
    OBVIOUS
  <1>3. l \subseteq L
    BY SMTT(30)
  <1>4. Added(s, p, out[p], m) = [s EXCEPT !.records = @ \union Outputs(out[p]), !.lineage = @ \union l,
                                           !.blockers = @ \union out[p].blockers]
    BY DEF Added
  <1> HIDE DEF R, L, B, l
  <1>5. s \in T
    BY <1>1
  <1>6. [s EXCEPT !.ok = FALSE] \in T /\ [s EXCEPT !.quarantined = @ \union {p}] \in T
    BY <1>5
  <1>7. Added(s, p, out[p], m) \in T
    BY <1>2, <1>3, <1>4, <1>5
  <1> DEFINE x == Add(s, p, out[p], m)
  <1>8. \/ x = [s EXCEPT !.ok = FALSE] \/ x = s
        \/ x = [s EXCEPT !.quarantined = @ \union {p}] \/ x = Added(s, p, out[p], m)
    <2> DEFINE o == out[p]
    <2> HIDE DEF o
    <2>1. x = Add(s, p, o, m)
      BY DEF o
    <2> HIDE DEF x
    <2>2. \/ x = [s EXCEPT !.ok = FALSE] \/ x = s
          \/ x = [s EXCEPT !.quarantined = @ \union {p}] \/ x = Added(s, p, o, m)
      <3> DEFINE refused == p.source # m.body.source \/ o.verdict = "refused"
                            \/ (Taken(s, o) /\ p.source = "sysmon-schema")
                 taken == Taken(s, o)
      <3>1. /\ refused => x = [s EXCEPT !.ok = FALSE]
            /\ ~refused /\ o.verdict = "skipped" => x = s
            /\ ~refused /\ o.verdict # "skipped" /\ (taken \/ o.verdict = "ambiguous")
                 => x = [s EXCEPT !.quarantined = @ \union {p}]
            /\ ~refused /\ o.verdict # "skipped" /\ ~taken /\ o.verdict # "ambiguous"
                 => x = Added(s, p, o, m)
        BY <2>1, AddCases
      <3> HIDE DEF refused, taken
      <3>2. QED
        BY <3>1, Zenon
    <2>3. QED
      BY <2>2 DEF o
  <1> HIDE DEF T, x
  <1>9. x \in T
    BY <1>5, <1>6, <1>7, <1>8
  <1>10. QED
    BY <1>1, <1>9 DEF x

\* The recursion of NormalizeEach is such a walk.
LEMMA EachWalks ==
  ASSUME NEW S, NEW n \in Nat, NEW order \in [1..n -> S],
         NEW src, NEW m, NEW release, NEW at,
         NEW out, out = [p \in S |-> Outcome(src, p, m, release, at)]
  PROVE  \E a : Walk(a, S, order, out, m) /\ NormalizeEach(src, order, m, release, at) = a[n]
  <1> DEFINE A == Results(S, out, m)
             step == [k \in 1..n |-> [s \in A |-> Visited(s, order[k], out[order[k]], m)]]
             F(f) == [k \in 0..n |->
                        IF k = 0 THEN Empty
                        ELSE LET s == f[k-1]
                                 p == order[k]
                             IN IF s.ok THEN Add(s, p, Outcome(src, p, m, release, at), m) ELSE s]
             after[k \in 0..n] ==
               IF k = 0 THEN Empty
               ELSE LET s == after[k-1]
                        p == order[k]
                    IN IF s.ok THEN Add(s, p, Outcome(src, p, m, release, at), m) ELSE s
  <1>1. Len(order) = n
    OBVIOUS
  <1>2. NormalizeEach(src, order, m, release, at) = after[n]
    BY <1>1 DEF NormalizeEach
  <1>3. after = CHOOSE f : f = F(f)
    OBVIOUS
  <1>4. Empty \in A
    BY DEF Empty, Results
  <1>5. \A k \in 1..n : order[k] \in S /\ out[order[k]] = Outcome(src, order[k], m, release, at)
    OBVIOUS
  <1> HIDE DEF after
  <1>6. step \in [1..n -> [A -> A]]
    <2> SUFFICES ASSUME NEW k \in 1..n, NEW s \in A PROVE Visited(s, order[k], out[order[k]], m) \in A
      OBVIOUS
    <2>1. order[k] \in S
      BY <1>5
    <2>2. Add(s, order[k], out[order[k]], m) \in A
      BY <2>1, AddType
    <2>3. QED
      BY <2>2 DEF Visited
  <1>7. \A k \in 1..n, s \in A : step[k][s] = Visited(s, order[k], out[order[k]], m)
    OBVIOUS
  <1>8. \A f : \A k \in 1..n : F(f)[k] = Visited(f[k-1], order[k], out[order[k]], m)
    BY <1>5 DEF Visited
  <1>9. \A f : F(f)[0] = Empty /\ F(f) = [k \in 0..n |-> F(f)[k]]
    OBVIOUS
  <1> HIDE DEF A, step, F
  <1>10. Defined(n, A, Empty, step)
    BY <1>4, <1>6, Recursion, Zenon
  <1>11. PICK f \in [0..n -> A] : f[0] = Empty /\ \A k \in 1..n : f[k] = step[k][f[k-1]]
    BY <1>10 DEF Defined
  <1>12. f = F(f)
    <2> DEFINE g == F(f)
    <2>1. g[0] = Empty /\ g = [k \in 0..n |-> g[k]]
      BY <1>9
    <2>2. \A k \in 1..n : g[k] = Visited(f[k-1], order[k], out[order[k]], m)
      BY <1>8
    <2> HIDE DEF g
    <2>3. \A k \in 1..n : f[k-1] \in A
      BY <1>11
    <2>4. \A k \in 1..n : f[k] = g[k]
      BY <1>7, <1>11, <2>2, <2>3
    <2>5. \A k \in 0..n : f[k] = g[k]
      <3>1. \A k \in 0..n : k = 0 \/ k \in 1..n
        OBVIOUS
      <3>2. QED
        BY <1>11, <2>1, <2>4, <3>1
    <2>6. f = [k \in 0..n |-> f[k]]
      BY <1>11
    <2>7. f = g
      BY <2>1, <2>5, <2>6
    <2>8. QED
      BY <2>7 DEF g
  <1>13. after = F(after)
    BY <1>3, <1>12
  <1>14. /\ after[0] = Empty /\ after = [k \in 0..n |-> after[k]]
         /\ \A k \in 1..n : after[k] = Visited(after[k-1], order[k], out[order[k]], m)
    <2> DEFINE g == F(after)
    <2>1. g[0] = Empty /\ g = [k \in 0..n |-> g[k]]
      BY <1>9
    <2>2. \A k \in 1..n : g[k] = Visited(after[k-1], order[k], out[order[k]], m)
      BY <1>8
    <2>3. after = g
      BY <1>13
    <2> HIDE DEF g
    <2>4. QED
      BY <2>1, <2>2, <2>3
  <1>15. after \in [0..n -> A]
    <2>1. Unfolds(after, n, A, Empty, step)
      BY ONLY <1>7, <1>14 DEF Unfolds
    <2>2. QED
      BY <1>4, <1>6, <2>1, RecursiveFunction, Zenon
  <1>17. Walk(after, S, order, out, m)
    BY <1>1, <1>14, <1>15 DEF Walk, A
  <1>18. QED
    BY <1>2, <1>17

\* What can be told from the result s about the records V that were visited.
Sound(s, V, out, m) ==
  s.ok =>
    /\ \A p \in V : p.source = m.body.source /\ out[p].verdict # "refused"
    /\ \A p \in V : out[p].verdict = "skipped" \/ p \in s.quarantined \/ \E l \in s.lineage : p \in l.psrs
    /\ s.quarantined = {} =>
         /\ \A p \in V : out[p].verdict # "ambiguous"
         /\ \A p \in V : out[p].verdict = "made" => out[p].entity \in s.records
         /\ \A p, q \in V : out[p].verdict = "made" /\ out[q].verdict = "made" /\ p # q
                              => out[p].entity.id # out[q].entity.id

LEMMA VisitSound ==
  ASSUME NEW S, NEW out, NEW m, NEW s \in Results(S, out, m), NEW p \in S, NEW V, p \notin V,
         out[p].verdict \in {"skipped", "ambiguous", "refused", "made"},
         Sound(s, V, out, m)
  PROVE  Sound(Visited(s, p, out[p], m), V \union {p}, out, m)
  <1> DEFINE o == out[p]
             x == Visited(s, p, o, m)
             refused == p.source # m.body.source \/ o.verdict = "refused"
                        \/ (Taken(s, o) /\ p.source = "sysmon-schema")
  <1> SUFFICES ASSUME x.ok PROVE Sound(x, V \union {p}, out, m)
    BY DEF Sound
  <1>1. /\ s.ok \in BOOLEAN /\ DOMAIN s = {"ok", "records", "lineage", "quarantined", "blockers"}
        /\ s = [ok |-> s.ok, records |-> s.records, lineage |-> s.lineage,
                quarantined |-> s.quarantined, blockers |-> s.blockers]
    BY DEF Results
  <1>2. s.ok
    BY DEF Visited
  <1>3. x = Add(s, p, o, m)
    BY <1>2 DEF Visited
  <1>4. ~refused
    <2>1. ASSUME refused PROVE FALSE
      <3>1. x = [s EXCEPT !.ok = FALSE]
        BY <1>3, <2>1, AddCases
      <3>2. ~x.ok
        BY <1>1, <3>1
      <3>3. QED
        BY <3>2
    <2>2. QED
      BY <2>1
  <1>5. p.source = m.body.source /\ o.verdict # "refused"
    BY <1>4
  <1>6. CASE o.verdict = "skipped"
    <2>1. x = s
      BY <1>3, <1>4, <1>6, AddCases
    <2> HIDE DEF x, refused
    <2>2. QED
      BY <1>2, <1>5, <1>6, <2>1 DEF Sound
  <1>7. CASE o.verdict # "skipped" /\ (Taken(s, o) \/ o.verdict = "ambiguous")
    <2>1. x = [s EXCEPT !.quarantined = @ \union {p}]
      <3> DEFINE taken == Taken(s, o)
      <3> HIDE DEF o, x
      <3>1. ~refused /\ o.verdict # "skipped" /\ (taken \/ o.verdict = "ambiguous")
              => x = [s EXCEPT !.quarantined = @ \union {p}]
        BY <1>3, AddCases
      <3>2. taken \/ o.verdict = "ambiguous"
        BY <1>7
      <3> HIDE DEF refused, taken
      <3>3. QED
        BY <1>4, <1>7, <3>1, <3>2, Zenon
    <2>2. /\ x.quarantined = s.quarantined \union {p} /\ x.lineage = s.lineage /\ x.records = s.records
          /\ x.quarantined # {}
      BY <1>1, <2>1
    <2> HIDE DEF x, refused
    <2>3. QED
      BY <1>2, <1>5, <2>2 DEF Sound
  <1>8. CASE o.verdict # "skipped" /\ ~Taken(s, o) /\ o.verdict # "ambiguous"
    <2>1. x = Added(s, p, o, m)
      BY <1>3, <1>4, <1>8, AddCases
    <2>2. /\ x.quarantined = s.quarantined /\ x.records = s.records \union Outputs(o)
          /\ x.lineage = s.lineage \union {_lineage(r.id, {p}, m) : r \in Outputs(o)}
      BY <1>1, <2>1 DEF Added
    <2>3. o.verdict = "made" /\ \A r \in s.records : r.id # o.entity.id
      BY <1>4, <1>8 DEF Taken
    <2> HIDE DEF x, refused
    <2>4. o.entity \in Outputs(o)
      BY DEF Outputs
    <2>5. \E l \in x.lineage : p \in l.psrs
      <3>1. _lineage(o.entity.id, {p}, m) \in x.lineage
        BY <2>2, <2>4
      <3>2. _lineage(o.entity.id, {p}, m).psrs = {p}
        BY DEF _lineage
      <3>3. QED
        BY <3>1, <3>2
    <2>6. \A q \in V \union {p} : out[q].verdict = "skipped" \/ q \in x.quarantined \/ \E l \in x.lineage : q \in l.psrs
      BY <1>2, <2>2, <2>5 DEF Sound
    <2>7. ASSUME x.quarantined = {}
          PROVE  /\ \A q \in V \union {p} : out[q].verdict # "ambiguous"
                 /\ \A q \in V \union {p} : out[q].verdict = "made" => out[q].entity \in x.records
                 /\ \A q, r \in V \union {p} : out[q].verdict = "made" /\ out[r].verdict = "made" /\ q # r
                                                => out[q].entity.id # out[r].entity.id
      BY <1>2, <1>8, <2>2, <2>3, <2>4, <2>7 DEF Sound
    <2>8. QED
      BY <1>2, <1>5, <2>6, <2>7 DEF Sound
  <1>9. QED
    BY <1>6, <1>7, <1>8

\* Where nothing is refused or set aside, everything is there.
Complete(s, V, out) ==
  s.ok /\ s.records = UNION {Outputs(out[p]) : p \in {q \in V : out[q].verdict = "made"}}

LEMMA VisitComplete ==
  ASSUME NEW S, NEW out, NEW m, NEW s \in Results(S, out, m), NEW p \in S, NEW V \in SUBSET S, p \notin V,
         \A q \in S : q.source = m.body.source /\ out[q].verdict \in {"skipped", "made"},
         \A q \in S : out[q].verdict = "made" =>
                        IsEntityId(out[q].entity.id) /\ \A c \in out[q].claims : IsClaimId(c.id),
         \A q, r \in S : out[q].verdict = "made" /\ out[r].verdict = "made" /\ q # r
                          => out[q].entity.id # out[r].entity.id,
         Complete(s, V, out)
  PROVE  Complete(Visited(s, p, out[p], m), V \union {p}, out)
  <1> DEFINE o == out[p]
             x == Visited(s, p, o, m)
             made(W) == {q \in W : out[q].verdict = "made"}
  <1> SUFFICES Complete(x, V \union {p}, out)
    OBVIOUS
  <1>1. /\ s = [ok |-> s.ok, records |-> s.records, lineage |-> s.lineage,
                quarantined |-> s.quarantined, blockers |-> s.blockers]
    BY DEF Results
  <1>2. s.ok /\ s.records = UNION {Outputs(out[q]) : q \in made(V)}
    BY DEF Complete
  <1>3. x = Add(s, p, o, m)
    BY <1>2 DEF Visited
  <1>4. ~Taken(s, o)
    <2> SUFFICES ASSUME o.verdict = "made", NEW r \in s.records, r.id = o.entity.id PROVE FALSE
      BY DEF Taken
    <2>1. PICK q \in made(V) : r \in Outputs(out[q])
      BY <1>2
    <2>2. q # p /\ q \in S /\ out[q].verdict = "made"
      BY <2>1
    <2>3. CASE r = out[q].entity
      BY <2>2, <2>3
    <2>4. CASE r \in out[q].claims
      <3>1. IsClaimId(r.id) /\ IsEntityId(o.entity.id)
        BY <2>2, <2>4
      <3>2. QED
        BY <3>1, IdsDiffer
    <2>5. QED
      BY <2>1, <2>3, <2>4 DEF Outputs
  <1>5. p.source = m.body.source /\ o.verdict \in {"skipped", "made"}
    OBVIOUS
  <1> DEFINE refused == p.source # m.body.source \/ o.verdict = "refused"
                        \/ (Taken(s, o) /\ p.source = "sysmon-schema")
  <1>6. ~refused
    BY <1>4, <1>5
  <1>7. CASE o.verdict = "skipped"
    <2>1. x = s
      BY <1>3, <1>6, <1>7, AddCases
    <2>2. made(V \union {p}) = made(V)
      BY <1>7
    <2> HIDE DEF x, refused
    <2>3. QED
      BY <2>1, <2>2 DEF Complete
  <1>8. CASE o.verdict = "made"
    <2>1. x = Added(s, p, o, m)
      BY <1>3, <1>4, <1>6, <1>8, AddCases
    <2>2. x.ok = s.ok /\ x.records = s.records \union Outputs(o)
      BY <1>1, <2>1 DEF Added
    <2>3. made(V \union {p}) = made(V) \union {p}
      BY <1>8
    <2>4. UNION {Outputs(out[q]) : q \in made(V) \union {p}} = (UNION {Outputs(out[q]) : q \in made(V)}) \union Outputs(o)
      OBVIOUS
    <2>5. x.ok
      BY <1>2, <2>2
    <2> HIDE DEF x, refused
    <2>6. QED
      BY <1>2, <2>2, <2>3, <2>4, <2>5 DEF Complete
  <1>9. QED
    BY <1>5, <1>7, <1>8

-----------------------------------------------------------------------------
(* The orders of the records. *)

LEMMA Orders ==
  ASSUME NEW S, IsFiniteSet(S)
  PROVE  /\ Cardinality(S) \in Nat
         /\ \A order \in SetToSeqs(S) :
              /\ order \in [1..Cardinality(S) -> S]
              /\ \A i, j \in 1..Cardinality(S) : i # j => order[i] # order[j]
              /\ {order[i] : i \in 1..Cardinality(S)} = S
         /\ ById(S) \in SetToSeqs(S)
  <1> DEFINE n == Cardinality(S)
  <1>1. n \in Nat /\ ExistsBijection(1..n, S)
    BY FS_CardinalityType
  <1>2. IsFiniteSet(1..n) /\ Cardinality(1..n) = n
    BY <1>1, FS_Interval
  <1>3. ASSUME NEW order \in SetToSeqs(S)
        PROVE  /\ order \in [1..n -> S]
               /\ \A i, j \in 1..n : i # j => order[i] # order[j]
               /\ {order[i] : i \in 1..n} = S
    <2>1. order \in [1..n -> S] /\ \A i, j \in 1..n : i # j => order[i] # order[j]
      BY DEF SetToSeqs
    <2>2. order \in Injection(1..n, S)
      BY <2>1 DEF Injection, IsInjective
    <2>3. Cardinality(1..n) = Cardinality(S)
      BY <1>2
    <2>4. order \in Surjection(1..n, S)
      BY <2>2, <2>3, FS_Injection, Zenon
    <2>5. QED
      BY <2>1, <2>4 DEF Surjection
  <1>4. ById(S) \in SetToSeqs(S)
    <2>1. PICK f \in Bijection(1..n, S) : TRUE
      BY <1>1 DEF ExistsBijection
    <2>2. f \in [1..n -> S] /\ \A i, j \in 1..n : f[i] = f[j] => i = j
      BY <2>1 DEF Bijection, Injection, IsInjective
    <2>3. IsInjective(f)
      BY <2>2 DEF IsInjective
    <2>4. ById(S) \in [1..n -> S] /\ IsInjective(ById(S))
      BY <2>2, <2>3 DEF ById, SetToSeq
    <2>5. QED
      BY <2>4 DEF SetToSeqs, IsInjective
  <1>5. QED
    BY <1>1, <1>3, <1>4

\* The records that are visited up to the k-th.
UpTo(order, k) == {order[i] : i \in 1..k}

LEMMA UpToNext ==
  ASSUME NEW n \in Nat, NEW order, \A i, j \in 1..n : i # j => order[i] # order[j], NEW k \in 1..n
  PROVE  UpTo(order, k) = UpTo(order, k - 1) \union {order[k]} /\ order[k] \notin UpTo(order, k - 1)
  <1>1. \A i : i \in 1..k <=> i \in 1..(k-1) \/ i = k
    OBVIOUS
  <1>2. \A i \in 1..(k-1) : i \in 1..n /\ i # k
    OBVIOUS
  <1>3. UpTo(order, k) = UpTo(order, k - 1) \union {order[k]}
    BY <1>1 DEF UpTo
  <1>4. QED
    BY <1>2, <1>3 DEF UpTo

LEMMA WalkSound ==
  ASSUME NEW S, NEW n \in Nat, NEW order \in [1..n -> S],
         \A i, j \in 1..n : i # j => order[i] # order[j],
         NEW out, NEW m, \A p \in S : out[p].verdict \in {"skipped", "ambiguous", "refused", "made"},
         NEW a, Walk(a, S, order, out, m)
  PROVE  Sound(a[n], UpTo(order, n), out, m)
  <1> DEFINE T == {k \in 0..n : Sound(a[k], UpTo(order, k), out, m)}
  <1>0. Len(order) = n
    OBVIOUS
  <1>1. /\ a \in [0..n -> Results(S, out, m)] /\ a[0] = Empty
        /\ \A k \in 1..n : a[k] = Visited(a[k-1], order[k], out[order[k]], m)
    BY <1>0 DEF Walk
  <1>2. 0 \in T
    <2>1. UpTo(order, 0) = {}
      BY DEF UpTo
    <2>2. QED
      BY <1>1, <2>1 DEF Sound
  <1>3. ASSUME NEW k \in 1..n, k - 1 \in T PROVE k \in T
    <2>1. k - 1 \in 0..n /\ k \in 0..n
      OBVIOUS
    <2>2. a[k-1] \in Results(S, out, m) /\ order[k] \in S
      BY <1>1, <2>1
    <2>3. Sound(a[k-1], UpTo(order, k - 1), out, m)
      BY <1>3
    <2>4. UpTo(order, k) = UpTo(order, k - 1) \union {order[k]} /\ order[k] \notin UpTo(order, k - 1)
      BY UpToNext
    <2>5. Sound(Visited(a[k-1], order[k], out[order[k]], m), UpTo(order, k - 1) \union {order[k]}, out, m)
      BY <2>2, <2>3, <2>4, VisitSound
    <2>6. Sound(a[k], UpTo(order, k), out, m)
      <3>1. UpTo(order, k) = UpTo(order, k - 1) \union {order[k]}
        BY <2>4
      <3>2. a[k] = Visited(a[k-1], order[k], out[order[k]], m)
        BY <1>1
      <3>3. QED
        BY <2>5, <3>1, <3>2
    <2>7. QED
      BY <2>1, <2>6
  <1> HIDE DEF T
  <1>4. 0..n \subseteq T
    BY <1>2, <1>3, IntervalInduction
  <1>5. n \in T
    BY <1>4
  <1>6. QED
    BY <1>5 DEF T

LEMMA WalkComplete ==
  ASSUME NEW S, NEW n \in Nat, NEW order \in [1..n -> S],
         \A i, j \in 1..n : i # j => order[i] # order[j],
         NEW out, NEW m,
         \A q \in S : q.source = m.body.source /\ out[q].verdict \in {"skipped", "made"},
         \A q \in S : out[q].verdict = "made" =>
                        IsEntityId(out[q].entity.id) /\ \A c \in out[q].claims : IsClaimId(c.id),
         \A q, r \in S : out[q].verdict = "made" /\ out[r].verdict = "made" /\ q # r
                          => out[q].entity.id # out[r].entity.id,
         NEW a, Walk(a, S, order, out, m)
  PROVE  Complete(a[n], UpTo(order, n), out)
  <1> DEFINE T == {k \in 0..n : Complete(a[k], UpTo(order, k), out)}
  <1>0. Len(order) = n
    OBVIOUS
  <1>1. /\ a \in [0..n -> Results(S, out, m)] /\ a[0] = Empty
        /\ \A k \in 1..n : a[k] = Visited(a[k-1], order[k], out[order[k]], m)
    BY <1>0 DEF Walk
  <1>2. 0 \in T
    <2>1. UpTo(order, 0) = {}
      BY DEF UpTo
    <2>2. QED
      BY <1>1, <2>1 DEF Complete, Empty
  <1>3. ASSUME NEW k \in 1..n, k - 1 \in T PROVE k \in T
    <2>1. k - 1 \in 0..n /\ k \in 0..n
      OBVIOUS
    <2>2. a[k-1] \in Results(S, out, m) /\ order[k] \in S
      BY <1>1, <2>1
    <2>3. Complete(a[k-1], UpTo(order, k - 1), out)
      BY <1>3
    <2>4. UpTo(order, k) = UpTo(order, k - 1) \union {order[k]} /\ order[k] \notin UpTo(order, k - 1)
      BY UpToNext
    <2>8. UpTo(order, k - 1) \in SUBSET S
      BY DEF UpTo
    <2>5. Complete(Visited(a[k-1], order[k], out[order[k]], m), UpTo(order, k - 1) \union {order[k]}, out)
      BY <2>2, <2>3, <2>4, <2>8, VisitComplete
    <2>6. Complete(a[k], UpTo(order, k), out)
      <3>1. UpTo(order, k) = UpTo(order, k - 1) \union {order[k]}
        BY <2>4
      <3>2. a[k] = Visited(a[k-1], order[k], out[order[k]], m)
        BY <1>1
      <3>3. QED
        BY <2>5, <3>1, <3>2
    <2>7. QED
      BY <2>1, <2>6
  <1> HIDE DEF T
  <1>4. 0..n \subseteq T
    BY <1>2, <1>3, IntervalInduction
  <1>5. n \in T
    BY <1>4
  <1>6. QED
    BY <1>5 DEF T

-----------------------------------------------------------------------------
(* What a normalizer makes. *)

Sources == Normalizers \union {"provider"}

\* Every record that is in scope is accounted for, and where none was set
\* aside, each order gives the same records.
Faithful(src, S, order, m, release, at) ==
  LET n == normalize_psr(src, order, m, release, at)
  IN /\ \A p \in S : InScope(p, m) => p \in n.quarantined \union UNION {l.psrs : l \in n.lineage}
     /\ n.quarantined = {} =>
          \A other \in SetToSeqs(S) : normalize_psr(src, other, m, release, at).records = n.records

LEMMA EachIsFaithful ==
  ASSUME NEW S, IsFiniteSet(S), NEW src \in Normalizers, NEW m, m.body.normalizer = src, NEW release, NEW at,
         NEW first \in SetToSeqs(S), NormalizeEach(src, first, m, release, at).ok
  PROVE  LET n == NormalizeEach(src, first, m, release, at)
         IN /\ \A p \in S : InScope(p, m) => p \in n.quarantined \union UNION {l.psrs : l \in n.lineage}
            /\ n.quarantined = {} =>
                 \A other \in SetToSeqs(S) : NormalizeEach(src, other, m, release, at).records = n.records
  <1> DEFINE c == Cardinality(S)
             out == [p \in S |-> Outcome(src, p, m, release, at)]
             each(order) == NormalizeEach(src, order, m, release, at)
             n == each(first)
  <1>1. /\ c \in Nat
        /\ \A order \in SetToSeqs(S) :
             /\ order \in [1..c -> S] /\ \A i, j \in 1..c : i # j => order[i] # order[j]
             /\ UpTo(order, c) = S
    BY Orders DEF UpTo
  <1>2. ASSUME NEW order \in SetToSeqs(S)
        PROVE  \E a : Walk(a, S, order, out, m) /\ each(order) = a[c]
    <2>1. order \in [1..c -> S]
      BY <1>1
    <2>2. c \in Nat
      BY <1>1
    <2>3. out = [p \in S |-> Outcome(src, p, m, release, at)]
      OBVIOUS
    <2> HIDE DEF c, out
    <2>4. QED
      BY ONLY <2>1, <2>2, <2>3, EachWalks
  <1>3. \A p \in S : ShapeOf(out[p], InScope(p, m))
    <2> SUFFICES ASSUME NEW p \in S PROVE ShapeOf(out[p], InScope(p, m))
      OBVIOUS
    <2>1. ShapeOf(Outcome(src, p, m, release, at), InScope(p, m))
      BY OutcomeShape
    <2>2. out[p] = Outcome(src, p, m, release, at)
      OBVIOUS
    <2> HIDE DEF out
    <2>3. QED
      BY <2>1, <2>2
  <1> HIDE DEF c, out, each
  <1>4. Sound(n, S, out, m)
    <2>1. PICK a : Walk(a, S, first, out, m) /\ each(first) = a[c]
      BY <1>2
    <2>2. \A p \in S : out[p].verdict \in {"skipped", "ambiguous", "refused", "made"}
      BY <1>3 DEF ShapeOf
    <2>3. Sound(a[c], UpTo(first, c), out, m)
      BY <1>1, <2>1, <2>2, WalkSound
    <2>4. QED
      BY <1>1, <2>1, <2>3
  <1>5. n.ok
    BY DEF each
  <1> HIDE DEF n
  <1>6. \A p \in S : InScope(p, m) => p \in n.quarantined \union UNION {l.psrs : l \in n.lineage}
    BY <1>3, <1>4, <1>5 DEF ShapeOf, Sound
  <1>7. ASSUME n.quarantined = {}, NEW order \in SetToSeqs(S)
        PROVE  each(order).records = UNION {Outputs(out[p]) : p \in {q \in S : out[q].verdict = "made"}}
    <2>1. \A p \in S : p.source = m.body.source /\ out[p].verdict \in {"skipped", "made"}
      BY <1>3, <1>4, <1>5, <1>7 DEF ShapeOf, Sound
    <2>2. \A p \in S : out[p].verdict = "made" =>
                         IsEntityId(out[p].entity.id) /\ \A x \in out[p].claims : IsClaimId(x.id)
      BY <1>3 DEF ShapeOf
    <2>3. \A p, q \in S : out[p].verdict = "made" /\ out[q].verdict = "made" /\ p # q
                           => out[p].entity.id # out[q].entity.id
      BY <1>4, <1>5, <1>7 DEF Sound
    <2>4. PICK a : Walk(a, S, order, out, m) /\ each(order) = a[c]
      BY <1>2
    <2>5. order \in [1..c -> S] /\ \A i, j \in 1..c : i # j => order[i] # order[j]
      BY <1>1
    <2>6. Complete(a[c], UpTo(order, c), out)
      BY <1>1, <2>1, <2>2, <2>3, <2>4, <2>5, WalkComplete
    <2>7. QED
      BY <1>1, <2>4, <2>6 DEF Complete
  <1>8. n.quarantined = {} => \A order \in SetToSeqs(S) : each(order).records = n.records
    <2> SUFFICES ASSUME n.quarantined = {}, NEW order \in SetToSeqs(S) PROVE each(order).records = n.records
      OBVIOUS
    <2> DEFINE R == UNION {Outputs(out[p]) : p \in {q \in S : out[q].verdict = "made"}}
    <2>1. each(order).records = R
      BY <1>7
    <2>2. each(first).records = R
      BY <1>7
    <2> HIDE DEF R
    <2>3. QED
      BY <2>1, <2>2 DEF n
  <1>9. QED
    BY <1>6, <1>8 DEF n, each

LEMMA ProviderIsFaithful ==
  ASSUME NEW S, NEW m, m.body.normalizer = "provider", NEW release, NEW at,
         normalize_provider(S, m, release, at).ok
  PROVE  LET n == normalize_provider(S, m, release, at)
         IN \A p \in S : InScope(p, m) => p \in n.quarantined \union UNION {l.psrs : l \in n.lineage}
  <1> DEFINE n == normalize_provider(S, m, release, at)
             inScope == {p \in S : p.type = "windows-event-provider-definition"}
             known   == {p \in inScope : p.native.event \in Shaped["event_id"]}
             events  == {p.native.event : p \in known}
             Id(e)   == <<"event", Namespace["provider"], e>>
  <1>1. /\ n.lineage = {_lineage(Id(e), Grouped(known, e), m) : e \in events}
        /\ n.quarantined = inScope \ known
    BY DEF normalize_provider, Empty
  <1>2. \A p \in S : InScope(p, m) => p \in inScope
    BY DEF InScope
  <1> HIDE DEF n
  <1>3. ASSUME NEW p \in known
        PROVE  \E l \in n.lineage : p \in l.psrs
    <2>1. _lineage(Id(p.native.event), Grouped(known, p.native.event), m) \in n.lineage
      BY <1>1
    <2>2. _lineage(Id(p.native.event), Grouped(known, p.native.event), m).psrs = Grouped(known, p.native.event)
      BY DEF _lineage
    <2>3. p \in Grouped(known, p.native.event)
      BY DEF Grouped
    <2>4. QED
      BY <2>1, <2>2, <2>3
  <1>4. QED
    BY <1>1, <1>2, <1>3 DEF n

LEMMA NormalizingIsFaithful ==
  ASSUME NEW S, IsFiniteSet(S), NEW src \in Sources, NEW m, NEW release, NEW at,
         NEW order \in SetToSeqs(S), normalize_psr(src, order, m, release, at).ok
  PROVE  Faithful(src, S, order, m, release, at)
  <1>1. ProfileBound(src, m, release) /\ m.body.normalizer = src
    <2>1. ASSUME ~ProfileBound(src, m, release) PROVE FALSE
      <3>1. normalize_psr(src, order, m, release, at) = [Empty EXCEPT !.ok = FALSE]
        BY <2>1 DEF normalize_psr
      <3>2. ~[Empty EXCEPT !.ok = FALSE].ok
        BY DEF Empty
      <3>3. QED
        BY <3>1, <3>2
    <2>2. QED
      BY <2>1 DEF ProfileBound
  <1>2. CASE src = "provider"
    <2>1. \A other \in SetToSeqs(S) : ToSet(other) = S
      BY Orders DEF ToSet
    <2>2. \A other \in SetToSeqs(S) :
            normalize_psr(src, other, m, release, at) = normalize_provider(S, m, release, at)
      BY <1>1, <1>2, <2>1 DEF normalize_psr
    <2>3. normalize_provider(S, m, release, at).ok
      BY <2>2
    <2>4. QED
      BY <1>1, <1>2, <2>2, <2>3, ProviderIsFaithful DEF Faithful
  <1>3. CASE src # "provider"
    <2>1. \A other \in SetToSeqs(S) :
            normalize_psr(src, other, m, release, at) = NormalizeEach(src, other, m, release, at)
      BY <1>1, <1>3 DEF normalize_psr
    <2>2. src \in Normalizers
      BY <1>3 DEF Sources
    <2>3. NormalizeEach(src, order, m, release, at).ok
      BY <2>1
    <2>4. QED
      BY <1>1, <2>1, <2>2, <2>3, EachIsFaithful DEF Faithful
  <1>4. QED
    BY <1>2, <1>3

-----------------------------------------------------------------------------
(* The events of the Sysmon schema. *)

\* What its normalizer makes of a record that is within its scope.
NumberedOf(p, o, m) ==
  /\ o.verdict \in {"skipped", "made"}
  /\ o.verdict = "made" =>
       /\ p.native.schema = m.body.current
       /\ o.entity.id = <<"event", Namespace["sysmon-schema"], Decimal[p.native.number]>> /\ o.claims = {}

LEMMA SchemaOutcome ==
  ASSUME NEW p, NEW m, NEW release, NEW at,
         <<p.native.provider, p.native.channel>> = <<m.body.provider, m.body.channel>>
  PROVE  NumberedOf(p, normalize_sysmon_schema(p, m, release, at), m)
  <1> DEFINE scope == p.type = "sysmon-schema-event" /\ p.native.schema = m.body.current
             bound == <<p.native.provider, p.native.channel>> = <<m.body.provider, m.body.channel>>
             id    == <<"event", Namespace["sysmon-schema"], Decimal[p.native.number]>>
             native == [value |-> p.native.event, number |-> p.native.number, version |-> p.native.version,
                        fields |-> p.native.fields, release |-> release]
             e == [kind |-> "entity", id |-> id, title |-> p.native.title, native |-> native,
                   created |-> at, lifecycle |-> "unset", curation |-> "draft"]
             o == normalize_sysmon_schema(p, m, release, at)
  <1>1. o = Judged(scope, TRUE, bound, Made(e, {}, {}))
    BY DEF normalize_sysmon_schema, Entity
  <1>2. e.id = id
    OBVIOUS
  <1>3. bound
    OBVIOUS
  <1>4. scope => p.native.schema = m.body.current
    OBVIOUS
  <1> HIDE DEF scope, bound, id, native, e, o
  <1>5. o = IF ~scope THEN [verdict |-> "skipped"]
            ELSE [verdict |-> "made", entity |-> e, claims |-> {}, blockers |-> {}]
    BY <1>1, <1>3 DEF Judged, Made
  <1>6. CASE scope
    <2>1. o.verdict = "made" /\ o.entity = e /\ o.claims = {}
      BY <1>5, <1>6
    <2>2. QED
      BY <1>2, <1>4, <1>6, <2>1 DEF NumberedOf, o, id
  <1>7. CASE ~scope
    <2>1. o.verdict = "skipped"
      BY <1>5, <1>7
    <2>2. QED
      BY <2>1 DEF NumberedOf, o
  <1>8. QED
    BY <1>6, <1>7

\* Two records of one schema that its parser accepts are of two numbers.
Numbered(S) ==
  /\ \A p \in S : p.native.number \in DOMAIN Decimal
  /\ \A p, q \in S : p.native.schema = q.native.schema /\ p.native.number = q.native.number => p = q

\* The record that the parser of the schema makes of an event.
EventRecord(snapshot, f, e) ==
  Psr("sysmon-schema", snapshot, "sysmon-schema-event", <<f.schema, e.event>>,
      {<<"event_id", e.event>>, <<"schema_version", f.schema>>},
      [provider |-> "Microsoft-Windows-Sysmon", channel |-> "Microsoft-Windows-Sysmon/Operational",
       schema |-> f.schema, event |-> e.event, number |-> _event_id_numeric_value(e.event),
       version |-> e.version, title |-> e.template, fields |-> e.fields],
      f.extra \union e.extra, <<f.schema, e.event>>)

LEMMA EventParts ==
  ASSUME NEW snapshot, NEW f, NEW e
  PROVE  /\ EventRecord(snapshot, f, e).native.schema = f.schema
         /\ EventRecord(snapshot, f, e).native.number = Number[e.event]
  <1> DEFINE native == [provider |-> "Microsoft-Windows-Sysmon", channel |-> "Microsoft-Windows-Sysmon/Operational",
                        schema |-> f.schema, event |-> e.event, number |-> Number[e.event],
                        version |-> e.version, title |-> e.template, fields |-> e.fields]
             p == EventRecord(snapshot, f, e)
  <1>1. native.schema = f.schema /\ native.number = Number[e.event]
    OBVIOUS
  <1>2. \A name, type, key, ids, n, unknown, locator :
          Psr(name, snapshot, type, key, ids, n, unknown, locator).native = n
    BY DEF Psr
  <1>3. p = Psr("sysmon-schema", snapshot, "sysmon-schema-event", <<f.schema, e.event>>,
                {<<"event_id", e.event>>, <<"schema_version", f.schema>>}, native,
                f.extra \union e.extra, <<f.schema, e.event>>)
    BY DEF EventRecord, _event_id_numeric_value
  <1> HIDE DEF native, p
  <1>4. p.native = native
    BY <1>2, <1>3
  <1>5. QED
    BY <1>1, <1>4 DEF p

LEMMA SchemaNumbers ==
  ASSUME NormalizeAssumption, NEW doc, NEW snapshot
  PROVE  Numbered(parse_text(doc, snapshot))
  <1> DEFINE S == parse_text(doc, snapshot)
             r(f, e) == EventRecord(snapshot, f, e)
  <1>1. CASE S = {}
    BY <1>1 DEF Numbered
  <1>2. CASE S # {}
    <2>1. /\ SchemaManifests(doc) /\ \A f \in ToSet(doc) : SchemaEvents(f.events)
          /\ S = UNION {{r(f, e) : e \in ToSet(f.events)} : f \in ToSet(doc)}
      BY <1>2 DEF parse_text, EventRecord
    <2>2. \A f, g \in ToSet(doc) : f.schema = g.schema => f = g
      <3>1. \A i, j \in DOMAIN doc : doc[i].schema = doc[j].schema => i = j
        BY <2>1 DEF SchemaManifests, Distinct
      <3>2. ToSet(doc) = {doc[i] : i \in DOMAIN doc}
        BY DEF ToSet
      <3>3. SUFFICES ASSUME NEW f \in ToSet(doc), NEW g \in ToSet(doc), f.schema = g.schema PROVE f = g
        OBVIOUS
      <3>4. PICK i \in DOMAIN doc : f = doc[i]
        BY <3>2
      <3>5. PICK j \in DOMAIN doc : g = doc[j]
        BY <3>2
      <3>6. i = j
        BY <3>1, <3>3, <3>4, <3>5
      <3>7. QED
        BY <3>4, <3>5, <3>6
    <2>3. ASSUME NEW f \in ToSet(doc)
          PROVE  /\ \A e \in ToSet(f.events) : Number[e.event] \in DOMAIN Decimal
                 /\ \A d, e \in ToSet(f.events) : Number[d.event] = Number[e.event] => d = e
      <3>1. SchemaEvents(f.events)
        BY <2>1
      <3>2. \A e \in ToSet(f.events) : e.event \in DOMAIN Number
        BY <3>1 DEF SchemaEvents
      <3>3. \A d, e \in ToSet(f.events) : Number[d.event] = Number[e.event] => d = e
        <4> DEFINE es == f.events
        <4>1. \A i, j \in DOMAIN es : Number[es[i].event] = Number[es[j].event] => i = j
          BY <3>1 DEF SchemaEvents, SameEvent, _event_id_numeric_value
        <4>2. ToSet(es) = {es[i] : i \in DOMAIN es}
          BY DEF ToSet
        <4> HIDE DEF es
        <4>3. ASSUME NEW d \in ToSet(es), NEW e \in ToSet(es), Number[d.event] = Number[e.event] PROVE d = e
          <5>1. PICK i \in DOMAIN es : d = es[i]
            BY <4>2
          <5>2. PICK j \in DOMAIN es : e = es[j]
            BY <4>2
          <5>3. i = j
            BY <4>1, <4>3, <5>1, <5>2
          <5>4. QED
            BY <5>1, <5>2, <5>3
        <4>4. QED
          BY <4>3 DEF es
      <3>4. QED
        BY <3>2, <3>3, NormalizeAssumption DEF NormalizeAssumption
    <2>4. \A f, e : r(f, e).native.schema = f.schema /\ r(f, e).native.number = Number[e.event]
      BY EventParts
    <2> HIDE DEF r
    <2>5. \A p \in S : \E f \in ToSet(doc) : \E e \in ToSet(f.events) : p = r(f, e)
      BY <2>1
    <2> HIDE DEF S
    <2>6. ASSUME NEW p \in S PROVE p.native.number \in DOMAIN Decimal
      <3>1. PICK f \in ToSet(doc) : \E e \in ToSet(f.events) : p = r(f, e)
        BY <2>5
      <3>2. PICK e \in ToSet(f.events) : p = r(f, e)
        BY <3>1
      <3>3. p.native.number = Number[e.event]
        BY <2>4, <3>2
      <3>4. QED
        BY <2>3, <3>3
    <2>7. ASSUME NEW p \in S, NEW q \in S, p.native.schema = q.native.schema, p.native.number = q.native.number
          PROVE  p = q
      <3>1. PICK f \in ToSet(doc) : \E e \in ToSet(f.events) : p = r(f, e)
        BY <2>5
      <3>2. PICK e \in ToSet(f.events) : p = r(f, e)
        BY <3>1
      <3>3. PICK g \in ToSet(doc) : \E d \in ToSet(g.events) : q = r(g, d)
        BY <2>5
      <3>4. PICK d \in ToSet(g.events) : q = r(g, d)
        BY <3>3
      <3>5. f.schema = g.schema
        BY <2>4, <2>7, <3>2, <3>4
      <3>6. f = g
        BY <2>2, <3>5
      <3>7. Number[e.event] = Number[d.event]
        BY <2>4, <2>7, <3>2, <3>4
      <3>8. e = d
        BY <2>3, <3>6, <3>7
      <3>9. QED
        BY <3>2, <3>4, <3>6, <3>8
    <2>8. QED
      BY <2>6, <2>7 DEF Numbered, S
  <1>3. QED
    BY <1>1, <1>2

LEMMA DecimalsDiffer ==
  ASSUME NormalizeAssumption
  PROVE  \A m, n \in DOMAIN Decimal : Decimal[m] = Decimal[n] => m = n
  BY DEF NormalizeAssumption

\* A normalization of such records under a profile of their scope.
LEMMA SchemaNormalizes ==
  ASSUME NormalizeAssumption, NEW S, IsFiniteSet(S), Numbered(S), NEW m, ScopeOf(m, S),
         NEW release, NEW at, ProfileBound("sysmon-schema", m, release)
  PROVE  normalize_psr("sysmon-schema", ById(S), m, release, at).ok
  <1> DEFINE c == Cardinality(S)
             order == ById(S)
             out == [p \in S |-> Outcome("sysmon-schema", p, m, release, at)]
  <1>1. /\ c \in Nat /\ order \in [1..c -> S] /\ \A i, j \in 1..c : i # j => order[i] # order[j]
    BY Orders
  <1>2. normalize_psr("sysmon-schema", order, m, release, at) = NormalizeEach("sysmon-schema", order, m, release, at)
    BY DEF normalize_psr
  <1>3. out = [p \in S |-> Outcome("sysmon-schema", p, m, release, at)]
    OBVIOUS
  <1>4. \A p \in S : out[p] = normalize_sysmon_schema(p, m, release, at)
    BY DEF Outcome
  <1> DEFINE src == "sysmon-schema"
  <1> HIDE DEF c, order
  <1>5. PICK a : Walk(a, S, order, out, m) /\ NormalizeEach("sysmon-schema", order, m, release, at) = a[c]
    <2>1. out = [p \in S |-> Outcome(src, p, m, release, at)]
      OBVIOUS
    <2>2. c \in Nat /\ order \in [1..c -> S]
      BY <1>1
    <2> HIDE DEF src, out
    <2>3. \E a : Walk(a, S, order, out, m) /\ NormalizeEach(src, order, m, release, at) = a[c]
      BY ONLY <2>1, <2>2, EachWalks
    <2>4. QED
      BY <2>3 DEF src
  <1> HIDE DEF out
  <1>6. \A p \in S : NumberedOf(p, out[p], m)
    BY <1>4, SchemaOutcome DEF ScopeOf
  <1>7. \A p \in S : p.source = m.body.source /\ out[p].verdict \in {"skipped", "made"}
    BY <1>6 DEF ScopeOf, NumberedOf
  <1>8. \A p \in S : out[p].verdict = "made" =>
                        IsEntityId(out[p].entity.id) /\ \A x \in out[p].claims : IsClaimId(x.id)
    BY <1>6, TupleLengths DEF NumberedOf, IsEntityId
  <1>9. ASSUME NEW p \in S, NEW q \in S, out[p].verdict = "made", out[q].verdict = "made", p # q
        PROVE  out[p].entity.id # out[q].entity.id
    <2> DEFINE i == p.native.number
               j == q.native.number
    <2>1. i \in DOMAIN Decimal /\ j \in DOMAIN Decimal
      BY DEF Numbered
    <2>2. p.native.schema = q.native.schema
      BY <1>6, <1>9 DEF NumberedOf
    <2>3. i # j
      BY <1>9, <2>2 DEF Numbered
    <2>4. /\ out[p].entity.id = <<"event", Namespace["sysmon-schema"], Decimal[i]>>
          /\ out[q].entity.id = <<"event", Namespace["sysmon-schema"], Decimal[j]>>
      BY <1>6, <1>9 DEF NumberedOf
    <2> HIDE DEF i, j
    <2>5. Decimal[i] # Decimal[j]
      BY <2>1, <2>3, DecimalsDiffer
    <2>6. QED
      BY <2>4, <2>5
  <1>10. Complete(a[c], UpTo(order, c), out)
    BY <1>1, <1>5, <1>7, <1>8, <1>9, WalkComplete
  <1>11. QED
    BY <1>2, <1>5, <1>10 DEF Complete, order

-----------------------------------------------------------------------------
(* The labels of blank nodes.  Two graphs that differ in their labels are  *)
(* visited in the same way: the cache, the way and the edges of one visit  *)
(* are those of the other under the labels (Agree), level by level.        *)

\* Iterated takes its steps one after the other.
LEMMA IteratedSteps ==
  ASSUME NEW steps, Len(steps) \in Nat, NEW base
  PROVE  \E a : /\ a[0] = base /\ \A k \in 1..Len(steps) : a[k] = steps[k][a[k-1]]
                /\ Iterated(steps, base) = a[Len(steps)]
  <1> DEFINE n == Len(steps)
             F(m, g) == [k \in 0..m |-> IF k = 0 THEN base ELSE steps[k][g[k-1]]]
             after[k \in 0..n] == IF k = 0 THEN base ELSE steps[k][after[k-1]]
             S == {m \in 0..n : \E g : g = F(m, g)}
  <1>1. Iterated(steps, base) = after[n]
    BY DEF Iterated
  <1>2. after = CHOOSE g : g = F(n, g)
    OBVIOUS
  <1> HIDE DEF after
  <1> n \in Nat
    OBVIOUS
  <1> HIDE DEF n
  <1>3. 0 \in S
    <2> DEFINE g == [k \in 0..0 |-> base]
    <2>1. g = F(0, g)
      OBVIOUS
    <2>2. 0 \in 0..n
      OBVIOUS
    <2> HIDE DEF g, F
    <2>3. QED
      BY <2>1, <2>2
  <1>4. ASSUME NEW m \in 1..n, m - 1 \in S PROVE m \in S
    <2>1. PICK g : g = F(m - 1, g)
      BY <1>4
    <2> DEFINE h == [k \in 0..m |-> IF k = m THEN steps[m][g[m-1]] ELSE g[k]]
    <2>2. \A k \in 0..(m-1) : h[k] = g[k]
      OBVIOUS
    <2>3. \A k \in 0..(m-1) : g[k] = IF k = 0 THEN base ELSE steps[k][g[k-1]]
      BY <2>1
    <2>4. h[m] = steps[m][g[m-1]] /\ h = [k \in 0..m |-> h[k]]
      OBVIOUS
    <2> HIDE DEF h
    <2>5. \A k \in 0..m : h[k] = IF k = 0 THEN base ELSE steps[k][h[k-1]]
      <3> SUFFICES ASSUME NEW k \in 0..m PROVE h[k] = IF k = 0 THEN base ELSE steps[k][h[k-1]]
        OBVIOUS
      <3>1. CASE k = m
        BY <2>2, <2>4, <3>1
      <3>2. CASE k # m
        BY <2>2, <2>3, <3>2
      <3>3. QED
        BY <3>1, <3>2
    <2>6. h = F(m, h)
      BY <2>4, <2>5
    <2>7. QED
      BY <2>6
  <1> HIDE DEF S
  <1>5. n \in S
    BY <1>3, <1>4, IntervalInduction
  <1>6. after = F(n, after)
    BY <1>2, <1>5 DEF S
  <1>7. after[0] = base /\ \A k \in 1..n : after[k] = steps[k][after[k-1]]
    BY <1>6
  <1>8. QED
    BY <1>1, <1>7 DEF n

-----------------------------------------------------------------------------
(* Two graphs that differ in the labels of their nodes. *)

Triple(D) == [predicate : STRING, node : D \union {""}, text : STRING]
GraphOf(D, nodes) == "" \notin D /\ nodes \in [D -> Seq(Triple(D))]
Bijective(D, f) == /\ f \in [D -> D] /\ \A x, y \in D : f[x] = f[y] => x = y
                   /\ \A y \in D : \E x \in D : f[x] = y

\* A visit under the labels f.
Image(f, S) == {f[x] : x \in S}
Carried(f, v) == [cache |-> Image(f, v.cache), stack |-> Image(f, v.stack), edges |-> v.edges, ok |-> v.ok]

\* The same graph under other labels.
Alike(D, f, nodes, other) ==
  /\ GraphOf(D, nodes) /\ GraphOf(D, other) /\ Bijective(D, f)
  /\ \A n \in D : other[f[n]] = Labelling(f, nodes[n])

LEMMA LengthOf ==
  ASSUME NEW T, NEW ys \in Seq(T), NEW n \in Nat, DOMAIN ys = 1..n
  PROVE  Len(ys) = n
  BY LenProperties

LEMMA Relabelled ==
  ASSUME NEW D, NEW x \in Triple(D), NEW l
  PROVE  [x EXCEPT !.node = l] = [predicate |-> x.predicate, node |-> l, text |-> x.text]
  <1>1. PICK p, q, t : x = [predicate |-> p, node |-> q, text |-> t]
    BY DEF Triple
  <1>2. [[predicate |-> p, node |-> q, text |-> t] EXCEPT !.node = l] = [predicate |-> p, node |-> l, text |-> t]
    OBVIOUS
  <1>3. x.predicate = p /\ x.text = t
    BY <1>1
  <1>4. QED
    BY ONLY <1>1, <1>2, <1>3

Label(f, n) == IF n = "" THEN "" ELSE f[n]
To(x, l) == [x EXCEPT !.node = l]
Match(D, f, x, y) ==
  x.node \in D \union {""} /\ y.node = Label(f, x.node) /\ y.predicate = x.predicate /\ y.text = x.text

LEMMA LabelledTriple ==
  ASSUME NEW D, "" \notin D, NEW f \in [D -> D], NEW x \in Triple(D), NEW y,
         y = To(x, Label(f, x.node))
  PROVE  y \in Triple(D) /\ Match(D, f, x, y)
  <1> DEFINE l == Label(f, x.node)
  <1>1. y = [x EXCEPT !.node = l]
    BY DEF To
  <1>2. x.node \in D \union {""}
    BY DEF Triple
  <1>3. l \in D \union {""}
    BY <1>2 DEF Label
  <1>4. l = Label(f, x.node)
    OBVIOUS
  <1> HIDE DEF l
  <1>5. [x EXCEPT !.node = l] = [predicate |-> x.predicate, node |-> l, text |-> x.text]
    BY Relabelled
  <1>6. y = [predicate |-> x.predicate, node |-> l, text |-> x.text]
    BY <1>1, <1>5
  <1>7. y \in Triple(D)
    <2>1. [predicate |-> x.predicate, node |-> l, text |-> x.text] \in Triple(D)
      BY <1>3 DEF Triple
    <2>2. QED
      BY <1>6, <2>1
  <1>8. y.node = l /\ y.predicate = x.predicate /\ y.text = x.text
    BY ONLY <1>6
  <1>9. QED
    BY <1>2, <1>4, <1>7, <1>8 DEF Match

LabelledAs(D, f, xs, ys) ==
  /\ Len(xs) \in Nat /\ DOMAIN xs = 1..Len(xs) /\ DOMAIN ys = 1..Len(xs) /\ Len(ys) = Len(xs)
  /\ \A i \in 1..Len(xs) : Match(D, f, xs[i], ys[i])

LEMMA LabellingType ==
  ASSUME NEW D, "" \notin D, NEW f \in [D -> D], NEW xs \in Seq(Triple(D)), NEW ys, ys = Labelling(f, xs)
  PROVE  ys \in Seq(Triple(D)) /\ LabelledAs(D, f, xs, ys)
  <1> DEFINE n == Len(xs)
             T == Triple(D)
  <1>1. n \in Nat /\ DOMAIN xs = 1..n /\ \A i \in 1..n : xs[i] \in T
    <2> HIDE DEF T
    <2>1. xs \in Seq(T)
      BY DEF T
    <2>2. Len(xs) \in Nat /\ xs \in [1..Len(xs) -> T] /\ DOMAIN xs = 1..Len(xs)
      BY <2>1, LenProperties
    <2> QED
      BY <2>2
  <1>2. ys = [i \in 1..n |-> [xs[i] EXCEPT !.node = IF @ = "" THEN "" ELSE f[@]]]
    BY <1>1 DEF Labelling
  <1>3. \A i \in 1..n : ys[i] = [xs[i] EXCEPT !.node = IF @ = "" THEN "" ELSE f[@]]
    BY <1>2
  <1>4. ys = [i \in 1..n |-> ys[i]]
    BY <1>2
  <1> HIDE DEF n, T
  <1>5. ASSUME NEW i \in 1..n
        PROVE  ys[i] \in T /\ Match(D, f, xs[i], ys[i])
    <2> DEFINE x == xs[i]
               y == ys[i]
    <2>1. x \in Triple(D)
      BY <1>1 DEF T
    <2>2. y = To(x, Label(f, x.node))
      BY <1>3 DEF Label, To
    <2> HIDE DEF x, y
    <2>3. y \in Triple(D) /\ Match(D, f, x, y)
      BY <2>1, <2>2, LabelledTriple
    <2>4. QED
      BY <2>3 DEF x, y, T
  <1>6. ys \in [1..n -> T] /\ DOMAIN ys = 1..n
    BY <1>4, <1>5
  <1>7. ys \in Seq(T) /\ Len(ys) = n
    <2>1. ys \in Seq(T)
      BY <1>1, <1>6, SeqDef, ZenonT(30)
    <2>2. QED
      BY <1>1, <1>6, <2>1, LengthOf
  <1>8. QED
    BY <1>1, <1>5, <1>6, <1>7 DEF n, T, LabelledAs

VisitOf(D) == [cache : SUBSET D, stack : SUBSET D, edges : Nat, ok : BOOLEAN]

\* Labels carry over sets of nodes.
LEMMA ImageOf ==
  ASSUME NEW D, NEW f, Bijective(D, f)
  PROVE  /\ \A S \in SUBSET D : Image(f, S) \in SUBSET D
         /\ \A S \in SUBSET D, n \in D : f[n] \in Image(f, S) <=> n \in S
         /\ \A S \in SUBSET D, n \in D : Image(f, S \union {n}) = Image(f, S) \union {f[n]}
         /\ \A S \in SUBSET D, n \in D : Image(f, S \ {n}) = Image(f, S) \ {f[n]}
         /\ Image(f, {}) = {}
  BY DEF Bijective, Image

LEMMA CarriedType ==
  ASSUME NEW D, NEW f, Bijective(D, f), NEW v \in VisitOf(D)
  PROVE  /\ Carried(f, v) \in VisitOf(D)
         /\ v.cache \in SUBSET D /\ v.stack \in SUBSET D /\ v.edges \in Nat /\ v.ok \in BOOLEAN
         /\ Carried(f, v).cache = Image(f, v.cache) /\ Carried(f, v).stack = Image(f, v.stack)
         /\ Carried(f, v).edges = v.edges /\ Carried(f, v).ok = v.ok
  <1>1. v.cache \in SUBSET D /\ v.stack \in SUBSET D /\ v.edges \in Nat /\ v.ok \in BOOLEAN
    BY DEF VisitOf
  <1>2. Image(f, v.cache) \in SUBSET D /\ Image(f, v.stack) \in SUBSET D
    BY <1>1, ImageOf
  <1>3. QED
    BY <1>1, <1>2 DEF Carried, VisitOf

\* A visit, and the same visit of the other nodes.
Agree(D, f, v, w) == v \in VisitOf(D) /\ w = Carried(f, v)

\* What labels f make of a visit of the nodes by g and by h is the same.
Commutes(D, f, g, h) ==
  \A n \in D : \A v \in VisitOf(D) : Agree(D, f, g[n][v], h[f[n]][Carried(f, v)])

\* One edge more.
Counted(b) == [b EXCEPT !.edges = b.edges + 1, !.ok = b.ok /\ b.edges < MaxEdges]

LEMMA CountedCarried ==
  ASSUME NEW D, NEW f, Bijective(D, f), NEW b \in VisitOf(D)
  PROVE  Counted(b) \in VisitOf(D) /\ Counted(Carried(f, b)) = Carried(f, Counted(b))
  <1> DEFINE V == VisitOf(D)
             e == b.edges + 1
             o == b.ok /\ b.edges < MaxEdges
             c == [cache |-> b.cache, stack |-> b.stack, edges |-> e, ok |-> o]
             d == [cache |-> Image(f, b.cache), stack |-> Image(f, b.stack), edges |-> e, ok |-> o]
             l == Carried(f, b)
  <1> HIDE DEF V, e, o, c, d, l
  <1>1. /\ l \in V /\ b.cache \in SUBSET D /\ b.stack \in SUBSET D /\ b.edges \in Nat /\ b.ok \in BOOLEAN
        /\ l.cache = Image(f, b.cache) /\ l.stack = Image(f, b.stack) /\ l.edges = b.edges /\ l.ok = b.ok
    BY CarriedType DEF l, V
  <1> DEFINE c0 == [b EXCEPT !.edges = e, !.ok = o]
             d0 == [l EXCEPT !.edges = e, !.ok = o]
  <1>2. c0 = c
    <2>1. c0 = [b EXCEPT !.edges = e, !.ok = o]
      OBVIOUS
    <2> HIDE DEF c0
    <2>2. b = [cache |-> b.cache, stack |-> b.stack, edges |-> b.edges, ok |-> b.ok]
      BY DEF VisitOf
    <2>3. QED
      BY ONLY <2>1, <2>2 DEF c
  <1>3. d0 = d
    <2>1. d0 = [l EXCEPT !.edges = e, !.ok = o]
      OBVIOUS
    <2> HIDE DEF d0
    <2>2. d0 = [cache |-> l.cache, stack |-> l.stack, edges |-> e, ok |-> o]
      <3>1. l = [cache |-> l.cache, stack |-> l.stack, edges |-> l.edges, ok |-> l.ok]
        BY <1>1 DEF V, VisitOf
      <3>2. QED
        BY ONLY <2>1, <3>1
    <2>3. QED
      BY <1>1, <2>2 DEF d
  <1>4. c \in V
    <2>1. e \in Nat
      BY <1>1 DEF e
    <2>2. o \in BOOLEAN
      BY Zenon DEF o
    <2>3. QED
      BY <1>1, <2>1, <2>2 DEF c, V, VisitOf
  <1>5. d = Carried(f, c)
    BY DEF Carried, c, d
  <1>6. Counted(b) = c0
    BY DEF Counted, e, o
  <1>7. Counted(l) = d0
    <2> DEFINE e1 == l.edges + 1
               o1 == l.ok /\ l.edges < MaxEdges
    <2>1. e1 = e /\ o1 = o
      BY <1>1 DEF e, o
    <2>2. Counted(l) = [l EXCEPT !.edges = e1, !.ok = o1]
      BY DEF Counted
    <2> HIDE DEF e1, o1
    <2>3. QED
      BY <2>1, <2>2
  <1> HIDE DEF c0, d0
  <1>8. QED
    BY <1>2, <1>3, <1>4, <1>5, <1>6, <1>7 DEF l, V

LEMMA FollowCarried ==
  ASSUME NEW D, NEW f, Bijective(D, f), "" \notin D, NEW g, NEW h, Commutes(D, f, g, h),
         NEW b \in VisitOf(D), NEW x, NEW y, Match(D, f, x, y)
  PROVE  Agree(D, f, Follow(g, b, x), Follow(h, Carried(f, b), y))
  <1> DEFINE c == Counted(b)
             l == Carried(f, b)
             n == x.node
             k == y.node
  <1>1. c \in VisitOf(D) /\ Counted(l) = Carried(f, c)
    BY CountedCarried
  <1>2. Carried(f, c).ok = c.ok
    BY <1>1, CarriedType
  <1>3. Follow(g, b, x) = IF c.ok /\ n # "" THEN g[n][c] ELSE c
    BY DEF Follow, Counted
  <1>4. Follow(h, l, y) = IF Carried(f, c).ok /\ k # "" THEN h[k][Carried(f, c)] ELSE Carried(f, c)
    <2>1. Follow(h, l, y) = IF Counted(l).ok /\ k # "" THEN h[k][Counted(l)] ELSE Counted(l)
      BY DEF Follow, Counted
    <2> HIDE DEF c, l, k
    <2>2. QED
      BY <1>1, <2>1
  <1>5. n \in D \union {""} /\ k = IF n = "" THEN "" ELSE f[n]
    BY DEF Label, Match
  <1> DEFINE F == Follow(g, b, x)
             H == Follow(h, l, y)
  <1> HIDE DEF c, l, n, k, F, H
  <1>6. CASE c.ok /\ n # ""
    <2>1. n \in D /\ k = f[n]
      BY <1>5, <1>6
    <2>2. f[n] \in D /\ k # ""
      <3>1. f[n] \in D
        BY <2>1 DEF Bijective
      <3>2. QED
        BY <2>1, <3>1
    <2>3. F = g[n][c] /\ H = h[f[n]][Carried(f, c)]
      BY <1>2, <1>3, <1>4, <1>6, <2>1, <2>2 DEF F, H
    <2>4. g[n][c] \in VisitOf(D) /\ h[f[n]][Carried(f, c)] = Carried(f, g[n][c])
      BY <1>1, <2>1 DEF Commutes, Agree
    <2>5. QED
      BY <2>3, <2>4 DEF l, F, H, Agree
  <1>7. CASE ~(c.ok /\ n # "")
    <2>1. ~(Carried(f, c).ok /\ k # "")
      BY <1>2, <1>5, <1>7
    <2>2. F = c /\ H = Carried(f, c)
      BY <1>3, <1>4, <1>7, <2>1 DEF F, H
    <2>3. QED
      BY <1>1, <2>2 DEF l, F, H, Agree
  <1>8. QED
    BY <1>6, <1>7

LEMMA LengthOfFunction ==
  ASSUME NEW n \in Nat, NEW s, s = [i \in 1..n |-> s[i]]
  PROVE  Len(s) = n
  <1> DEFINE T == {s[i] : i \in 1..n}
  <1>1. s \in [1..n -> T] /\ DOMAIN s = 1..n
    OBVIOUS
  <1> HIDE DEF T
  <1>2. s \in Seq(T)
    BY <1>1, SeqDef
  <1>3. QED
    BY <1>1, <1>2, LengthOf

\* A node is put on the way, a visit fails, a node is done.
On(v, n)  == [v EXCEPT !.stack = v.stack \union {n}]
Failed(v) == [v EXCEPT !.ok = FALSE]
Done(v, n) == [v EXCEPT !.stack = v.stack \ {n}, !.cache = v.cache \union {n}]
Root(v) == [v EXCEPT !.stack = {}, !.edges = 0]

IsVisit(v) == v = [cache |-> v.cache, stack |-> v.stack, edges |-> v.edges, ok |-> v.ok]

LEMMA VisitParts ==
  ASSUME NEW D, NEW v
  PROVE  v \in VisitOf(D) <=> /\ IsVisit(v)
                              /\ v.cache \in SUBSET D /\ v.stack \in SUBSET D /\ v.edges \in Nat /\ v.ok \in BOOLEAN
  BY DEF VisitOf, IsVisit

LEMMA CarriedParts ==
  ASSUME NEW f, NEW v
  PROVE  /\ IsVisit(Carried(f, v))
         /\ Carried(f, v).cache = Image(f, v.cache) /\ Carried(f, v).stack = Image(f, v.stack)
         /\ Carried(f, v).edges = v.edges /\ Carried(f, v).ok = v.ok
  BY DEF Carried, IsVisit

LEMMA CarriedIs ==
  ASSUME NEW f, NEW x, NEW y, IsVisit(y), y.cache = Image(f, x.cache), y.stack = Image(f, x.stack),
         y.edges = x.edges, y.ok = x.ok
  PROVE  y = Carried(f, x)
  BY DEF IsVisit, Carried

LEMMA OnParts ==
  ASSUME NEW v, IsVisit(v), NEW n
  PROVE  /\ IsVisit(On(v, n)) /\ On(v, n).cache = v.cache /\ On(v, n).stack = v.stack \union {n}
         /\ On(v, n).edges = v.edges /\ On(v, n).ok = v.ok
  <1>1. ASSUME NEW x, x = On(v, n)
        PROVE  x = [cache |-> v.cache, stack |-> v.stack \union {n}, edges |-> v.edges, ok |-> v.ok]
    BY <1>1 DEF On, IsVisit
  <1>2. QED
    BY <1>1 DEF IsVisit

LEMMA FailedParts ==
  ASSUME NEW v, IsVisit(v)
  PROVE  /\ IsVisit(Failed(v)) /\ Failed(v).cache = v.cache /\ Failed(v).stack = v.stack
         /\ Failed(v).edges = v.edges /\ Failed(v).ok = FALSE
  <1>1. ASSUME NEW x, x = Failed(v)
        PROVE  x = [cache |-> v.cache, stack |-> v.stack, edges |-> v.edges, ok |-> FALSE]
    BY <1>1 DEF Failed, IsVisit
  <1>2. QED
    BY <1>1 DEF IsVisit

LEMMA DoneParts ==
  ASSUME NEW v, IsVisit(v), NEW n
  PROVE  /\ IsVisit(Done(v, n)) /\ Done(v, n).cache = v.cache \union {n} /\ Done(v, n).stack = v.stack \ {n}
         /\ Done(v, n).edges = v.edges /\ Done(v, n).ok = v.ok
  <1>1. ASSUME NEW x, x = Done(v, n)
        PROVE  x = [cache |-> v.cache \union {n}, stack |-> v.stack \ {n}, edges |-> v.edges, ok |-> v.ok]
    BY <1>1 DEF Done, IsVisit
  <1>2. QED
    BY <1>1 DEF IsVisit

LEMMA RootParts ==
  ASSUME NEW v, IsVisit(v)
  PROVE  /\ IsVisit(Root(v)) /\ Root(v).cache = v.cache /\ Root(v).stack = {}
         /\ Root(v).edges = 0 /\ Root(v).ok = v.ok
  <1>1. ASSUME NEW x, x = Root(v)
        PROVE  x = [cache |-> v.cache, stack |-> {}, edges |-> 0, ok |-> v.ok]
    BY <1>1 DEF Root, IsVisit
  <1>2. QED
    BY <1>1 DEF IsVisit

LEMMA PartsCarried ==
  ASSUME NEW D, NEW f, Bijective(D, f), NEW v \in VisitOf(D)
  PROVE  /\ \A n \in D : On(v, n) \in VisitOf(D) /\ On(Carried(f, v), f[n]) = Carried(f, On(v, n))
         /\ Failed(v) \in VisitOf(D) /\ Failed(Carried(f, v)) = Carried(f, Failed(v))
         /\ \A n \in D : Done(v, n) \in VisitOf(D) /\ Done(Carried(f, v), f[n]) = Carried(f, Done(v, n))
         /\ Root(v) \in VisitOf(D) /\ Root(Carried(f, v)) = Carried(f, Root(v))
  <1> DEFINE l == Carried(f, v)
  <1>1. IsVisit(v) /\ v.cache \in SUBSET D /\ v.stack \in SUBSET D /\ v.edges \in Nat /\ v.ok \in BOOLEAN
    BY VisitParts
  <1>2. IsVisit(l) /\ l.cache = Image(f, v.cache) /\ l.stack = Image(f, v.stack) /\ l.edges = v.edges /\ l.ok = v.ok
    BY CarriedParts
  <1> HIDE DEF l
  <1>3. \A n \in D : /\ Image(f, v.stack \union {n}) = Image(f, v.stack) \union {f[n]}
                     /\ Image(f, v.cache \union {n}) = Image(f, v.cache) \union {f[n]}
                     /\ Image(f, v.stack \ {n}) = Image(f, v.stack) \ {f[n]}
    BY <1>1, ImageOf
  <1>4. Image(f, {}) = {}
    BY ImageOf
  <1>6. ASSUME NEW n \in D
        PROVE  On(v, n) \in VisitOf(D) /\ On(l, f[n]) = Carried(f, On(v, n))
    <2>1. On(v, n) \in VisitOf(D)
      BY <1>1, OnParts, VisitParts
    <2>2. /\ IsVisit(On(l, f[n])) /\ On(l, f[n]).cache = l.cache /\ On(l, f[n]).stack = l.stack \union {f[n]}
          /\ On(l, f[n]).edges = l.edges /\ On(l, f[n]).ok = l.ok
      BY <1>2, OnParts
    <2>3. /\ On(v, n).cache = v.cache /\ On(v, n).stack = v.stack \union {n}
          /\ On(v, n).edges = v.edges /\ On(v, n).ok = v.ok
      BY <1>1, OnParts
    <2> DEFINE x == On(v, n)
               y == On(l, f[n])
    <2> HIDE DEF x, y
    <2>4. IsVisit(y) /\ y.cache = Image(f, x.cache) /\ y.stack = Image(f, x.stack) /\ y.edges = x.edges /\ y.ok = x.ok
      BY <1>2, <1>3, <2>2, <2>3 DEF x, y
    <2>5. y = Carried(f, x)
      BY <2>4, CarriedIs
    <2>6. QED
      BY <2>1, <2>5 DEF x, y
  <1>7. Failed(v) \in VisitOf(D) /\ Failed(l) = Carried(f, Failed(v))
    <2>1. Failed(v) \in VisitOf(D)
      BY <1>1, FailedParts, VisitParts
    <2>2. /\ IsVisit(Failed(l)) /\ Failed(l).cache = l.cache /\ Failed(l).stack = l.stack
          /\ Failed(l).edges = l.edges /\ Failed(l).ok = FALSE
      BY <1>2, FailedParts
    <2>3. Failed(v).cache = v.cache /\ Failed(v).stack = v.stack /\ Failed(v).edges = v.edges /\ Failed(v).ok = FALSE
      BY <1>1, FailedParts
    <2>5. QED
      BY <1>2, <2>1, <2>2, <2>3, CarriedIs
  <1>8. ASSUME NEW n \in D
        PROVE  Done(v, n) \in VisitOf(D) /\ Done(l, f[n]) = Carried(f, Done(v, n))
    <2>1. Done(v, n) \in VisitOf(D)
      BY <1>1, DoneParts, VisitParts
    <2>2. /\ IsVisit(Done(l, f[n])) /\ Done(l, f[n]).cache = l.cache \union {f[n]} /\ Done(l, f[n]).stack = l.stack \ {f[n]}
          /\ Done(l, f[n]).edges = l.edges /\ Done(l, f[n]).ok = l.ok
      BY <1>2, DoneParts
    <2>3. /\ Done(v, n).cache = v.cache \union {n} /\ Done(v, n).stack = v.stack \ {n}
          /\ Done(v, n).edges = v.edges /\ Done(v, n).ok = v.ok
      BY <1>1, DoneParts
    <2> DEFINE x == Done(v, n)
               y == Done(l, f[n])
    <2> HIDE DEF x, y
    <2>4. IsVisit(y) /\ y.cache = Image(f, x.cache) /\ y.stack = Image(f, x.stack) /\ y.edges = x.edges /\ y.ok = x.ok
      BY <1>2, <1>3, <2>2, <2>3 DEF x, y
    <2>5. y = Carried(f, x)
      BY <2>4, CarriedIs
    <2>6. QED
      BY <2>1, <2>5 DEF x, y
  <1>9. Root(v) \in VisitOf(D) /\ Root(l) = Carried(f, Root(v))
    <2>1. Root(v) \in VisitOf(D)
      BY <1>1, RootParts, VisitParts
    <2>2. /\ IsVisit(Root(l)) /\ Root(l).cache = l.cache /\ Root(l).stack = {}
          /\ Root(l).edges = 0 /\ Root(l).ok = l.ok
      BY <1>2, RootParts
    <2>3. Root(v).cache = v.cache /\ Root(v).stack = {} /\ Root(v).edges = 0 /\ Root(v).ok = v.ok
      BY <1>1, RootParts
    <2>5. QED
      BY <1>2, <1>4, <2>1, <2>2, <2>3, CarriedIs
  <1>10. QED
    BY <1>6, <1>7, <1>8, <1>9 DEF l

\* Steps that labels commute with, one after the other.
LEMMA IteratedCarried ==
  ASSUME NEW D, NEW f, Bijective(D, f), NEW m \in Nat, NEW steps, NEW others, Len(steps) = m, Len(others) = m,
         \A i \in 1..m : \A b \in VisitOf(D) : Agree(D, f, steps[i][b], others[i][Carried(f, b)]),
         NEW a \in VisitOf(D)
  PROVE  Agree(D, f, Iterated(steps, a), Iterated(others, Carried(f, a)))
  <1> DEFINE z == Carried(f, a)
  <1> HIDE DEF z
  <1>1. PICK s : /\ s[0] = a /\ \A k \in 1..m : s[k] = steps[k][s[k-1]]
                 /\ Iterated(steps, a) = s[m]
    <2>1. Len(steps) = m /\ m \in Nat
      OBVIOUS
    <2>2. QED
      BY ONLY <2>1, IteratedSteps
  <1>2. PICK t : /\ t[0] = z /\ \A k \in 1..m : t[k] = others[k][t[k-1]]
                 /\ Iterated(others, z) = t[m]
    <2>1. Len(others) = m /\ m \in Nat
      OBVIOUS
    <2>2. QED
      BY ONLY <2>1, IteratedSteps
  <1> DEFINE S == {k \in 0..m : s[k] \in VisitOf(D) /\ t[k] = Carried(f, s[k])}
  <1>3. 0 \in S
    BY <1>1, <1>2 DEF z
  <1>4. ASSUME NEW k \in 1..m, k - 1 \in S PROVE k \in S
    BY <1>1, <1>2, <1>4, SMTT(30) DEF Agree
  <1> HIDE DEF S
  <1>5. m \in S
    BY ONLY <1>3, <1>4, IntervalInduction, m \in Nat
  <1>6. QED
    BY <1>1, <1>2, <1>5 DEF S, z, Agree

Follows(D, g, xs) == [i \in DOMAIN xs |-> [b \in VisitOf(D) |-> Follow(g, b, xs[i])]]

LEMMA IteratedFollow ==
  ASSUME NEW D, NEW f, Bijective(D, f), "" \notin D, NEW g, NEW h, Commutes(D, f, g, h),
         NEW xs \in Seq(Triple(D)), NEW ys, ys = Labelling(f, xs), NEW a \in VisitOf(D)
  PROVE  Agree(D, f, Iterated(Follows(D, g, xs), a), Iterated(Follows(D, h, ys), Carried(f, a)))
  <1> DEFINE V == VisitOf(D)
             steps  == Follows(D, g, xs)
             others == Follows(D, h, ys)
             m == Len(xs)
  <1>0. f \in [D -> D]
    BY DEF Bijective
  <1>1. m \in Nat /\ DOMAIN xs = 1..m /\ DOMAIN ys = 1..m /\ \A i \in 1..m : Match(D, f, xs[i], ys[i])
    <2>1. LabelledAs(D, f, xs, ys)
      BY <1>0, LabellingType
    <2>2. QED
      BY <2>1 DEF LabelledAs
  <1> HIDE DEF m
  <1>2. Len(steps) = m /\ Len(others) = m
    <2>1. steps = [i \in 1..m |-> steps[i]] /\ others = [i \in 1..m |-> others[i]]
      BY <1>1 DEF Follows
    <2> HIDE DEF steps, others
    <2>2. QED
      BY <1>1, <2>1, LengthOfFunction
  <1>3. ASSUME NEW i \in 1..m, NEW b \in V
        PROVE  Agree(D, f, steps[i][b], others[i][Carried(f, b)])
    <2> DEFINE x == xs[i]
               y == ys[i]
    <2>1. Match(D, f, x, y)
      BY <1>1
    <2>2. steps[i][b] = Follow(g, b, x)
      BY <1>1 DEF Follows
    <2>3. Carried(f, b) \in V
      BY CarriedType
    <2>4. others[i][Carried(f, b)] = Follow(h, Carried(f, b), y)
      BY <1>1, <2>3 DEF Follows
    <2> HIDE DEF x, y, steps, others
    <2>5. Agree(D, f, Follow(g, b, x), Follow(h, Carried(f, b), y))
      BY <2>1, FollowCarried
    <2>6. QED
      BY <2>2, <2>4, <2>5
  <1> HIDE DEF steps, others
  <1>4. Agree(D, f, Iterated(steps, a), Iterated(others, Carried(f, a)))
    BY <1>1, <1>2, <1>3, IteratedCarried
  <1>5. QED
    BY <1>4 DEF steps, others

LEMMA EnterCarried ==
  ASSUME NEW D, NEW f, NEW nodes, NEW other, Alike(D, f, nodes, other),
         NEW g, NEW h, Commutes(D, f, g, h), NEW n \in D, NEW v \in VisitOf(D)
  PROVE  /\ Enter(nodes, g, n, v) \in VisitOf(D)
         /\ Enter(other, h, f[n], Carried(f, v)) = Carried(f, Enter(nodes, g, n, v))
  <1> DEFINE V  == VisitOf(D)
             xs == nodes[n]
             ys == other[f[n]]
             steps  == Follows(D, g, xs)
             others == Follows(D, h, ys)
             l == Carried(f, v)
             a == On(v, n)
             z == On(l, f[n])
             done == Iterated(steps, a)
             done2 == Iterated(others, z)
             E == Enter(nodes, g, n, v)
             H == Enter(other, h, f[n], l)
  <1>0. Bijective(D, f)
    BY DEF Alike
  <1>1. "" \notin D /\ f \in [D -> D] /\ f[n] \in D
    BY DEF Alike, GraphOf, Bijective
  <1>2. ys = Labelling(f, xs) /\ xs \in Seq(Triple(D)) /\ DOMAIN nodes = D /\ DOMAIN other = D
    BY DEF Alike, GraphOf, Bijective
  <1>3. Visit(nodes) = V /\ Visit(other) = V
    BY <1>2 DEF Visit, VisitOf
  <1>4. E = IF n \in v.cache \/ ~v.ok THEN v
            ELSE IF n \in v.stack THEN Failed(v)
            ELSE IF ~done.ok THEN done
            ELSE Done(done, n)
    BY <1>3 DEF Enter, On, Failed, Done, Follows
  <1>5. H = IF f[n] \in l.cache \/ ~l.ok THEN l
            ELSE IF f[n] \in l.stack THEN Failed(l)
            ELSE IF ~done2.ok THEN done2
            ELSE Done(done2, f[n])
    BY <1>3 DEF Enter, On, Failed, Done, Follows
  <1> HIDE DEF E, H
  <1>7. a \in V /\ z = Carried(f, a) /\ Failed(v) \in V /\ Failed(l) = Carried(f, Failed(v))
    BY <1>0, PartsCarried
  <1>8. (f[n] \in l.cache <=> n \in v.cache) /\ (f[n] \in l.stack <=> n \in v.stack) /\ l.ok = v.ok
    <2>1. v.cache \in SUBSET D /\ v.stack \in SUBSET D
          /\ l.cache = Image(f, v.cache) /\ l.stack = Image(f, v.stack) /\ l.ok = v.ok
      BY <1>0, CarriedType
    <2> HIDE DEF l
    <2>2. QED
      BY <1>0, <2>1, ImageOf
  <1> HIDE DEF xs, ys, l, a, z
  <1>13. done \in V /\ done2 = Carried(f, done)
    <2>1. a \in VisitOf(D)
      BY <1>7
    <2>2. Agree(D, f, Iterated(steps, a), Iterated(others, Carried(f, a)))
      BY <1>0, <1>1, <1>2, <2>1, IteratedFollow
    <2>3. QED
      BY <1>7, <2>2 DEF Agree
  <1> HIDE DEF done, done2
  <1>14. Done(done, n) \in V /\ Done(done2, f[n]) = Carried(f, Done(done, n)) /\ done2.ok = done.ok
    <2> HIDE DEF V
    <2>1. done \in VisitOf(D)
      BY <1>13 DEF V
    <2>2. Done(done, n) \in VisitOf(D) /\ Done(Carried(f, done), f[n]) = Carried(f, Done(done, n))
      BY <1>0, <2>1, PartsCarried
    <2>3. Carried(f, done).ok = done.ok
      BY <1>0, <2>1, CarriedType
    <2>4. QED
      BY <1>13, <2>2, <2>3 DEF V
  <1>15. CASE n \in v.cache \/ ~v.ok
    <2>1. E = v /\ H = l
      BY <1>4, <1>5, <1>8, <1>15
    <2>2. QED
      BY <2>1 DEF E, H, l
  <1>16. CASE ~(n \in v.cache \/ ~v.ok) /\ n \in v.stack
    <2>1. E = Failed(v) /\ H = Failed(l)
      BY <1>4, <1>5, <1>8, <1>16
    <2>2. QED
      BY <1>7, <2>1 DEF E, H, l, V
  <1>17. CASE ~(n \in v.cache \/ ~v.ok) /\ n \notin v.stack /\ ~done.ok
    <2>1. E = done /\ H = done2
      BY <1>4, <1>5, <1>8, <1>14, <1>17
    <2>2. QED
      BY <1>13, <2>1 DEF E, H, l, V
  <1>18. CASE ~(n \in v.cache \/ ~v.ok) /\ n \notin v.stack /\ done.ok
    <2>1. E = Done(done, n) /\ H = Done(done2, f[n])
      BY <1>4, <1>5, <1>8, <1>14, <1>18
    <2>2. QED
      BY <1>14, <2>1 DEF E, H, l, V
  <1>19. QED
    BY <1>15, <1>16, <1>17, <1>18

\* A level of visits above another, and the lowest one.
Above(nodes, g) == [n \in DOMAIN nodes |-> [v \in Visit(nodes) |-> Enter(nodes, g, n, v)]]
Lowest(nodes) == [n \in DOMAIN nodes |-> [v \in Visit(nodes) |-> v]]

LEMMA BlankLevels ==
  ASSUME NEW nodes, MaxEdges \in Nat
  PROVE  \E a : /\ a[0] = Lowest(nodes) /\ \A k \in 1..MaxEdges + 1 : a[k] = Above(nodes, a[k-1])
                /\ Blank(nodes) = a[MaxEdges + 1]
  <1> DEFINE n == MaxEdges + 1
             base == Lowest(nodes)
             F(m, g) == [k \in 0..m |-> IF k = 0 THEN base ELSE Above(nodes, g[k-1])]
             blank[k \in 0..n] ==
               IF k = 0 THEN [x \in DOMAIN nodes |-> [v \in Visit(nodes) |-> v]]
               ELSE [x \in DOMAIN nodes |-> [v \in Visit(nodes) |-> Enter(nodes, blank[k-1], x, v)]]
             S == {m \in 0..n : \E g : g = F(m, g)}
  <1>1. Blank(nodes) = blank[n]
    BY DEF Blank
  <1>2. blank = CHOOSE g : g = F(n, g)
    BY DEF Lowest, Above
  <1> HIDE DEF blank
  <1> n \in Nat
    OBVIOUS
  <1> HIDE DEF n, base
  <1>3. 0 \in S
    <2> DEFINE g == [k \in 0..0 |-> base]
    <2>1. g = F(0, g)
      OBVIOUS
    <2>2. 0 \in 0..n
      OBVIOUS
    <2> HIDE DEF g, F
    <2>3. QED
      BY <2>1, <2>2
  <1>4. ASSUME NEW m \in 1..n, m - 1 \in S PROVE m \in S
    <2>1. PICK g : g = F(m - 1, g)
      BY <1>4
    <2> DEFINE h == [k \in 0..m |-> IF k = m THEN Above(nodes, g[m-1]) ELSE g[k]]
    <2>2. \A k \in 0..(m-1) : h[k] = g[k]
      OBVIOUS
    <2>3. \A k \in 0..(m-1) : g[k] = IF k = 0 THEN base ELSE Above(nodes, g[k-1])
      BY <2>1
    <2>4. h[m] = Above(nodes, g[m-1]) /\ h = [k \in 0..m |-> h[k]]
      OBVIOUS
    <2> HIDE DEF h
    <2>5. \A k \in 0..m : h[k] = IF k = 0 THEN base ELSE Above(nodes, h[k-1])
      <3> SUFFICES ASSUME NEW k \in 0..m PROVE h[k] = IF k = 0 THEN base ELSE Above(nodes, h[k-1])
        OBVIOUS
      <3>1. CASE k = m
        <4>1. m # 0 /\ m - 1 \in 0..(m-1)
          OBVIOUS
        <4>2. h[m-1] = g[m-1]
          BY <2>2, <4>1
        <4>3. QED
          BY <2>4, <3>1, <4>1, <4>2
      <3>2. CASE k # m
        BY <2>2, <2>3, <3>2
      <3>3. QED
        BY <3>1, <3>2
    <2>6. h = F(m, h)
      BY <2>4, <2>5
    <2>7. QED
      BY <2>6
  <1> HIDE DEF S
  <1>5. n \in S
    BY <1>3, <1>4, IntervalInduction
  <1>6. blank = F(n, blank)
    BY <1>2, <1>5 DEF S
  <1>7. blank[0] = base /\ \A k \in 1..n : blank[k] = Above(nodes, blank[k-1])
    BY <1>6
  <1>8. QED
    BY <1>1, <1>7 DEF n, base

LEMMA LevelsCarried ==
  ASSUME NEW D, NEW f, NEW nodes, NEW other, Alike(D, f, nodes, other)
  PROVE  /\ Commutes(D, f, Lowest(nodes), Lowest(other))
         /\ \A g, h : Commutes(D, f, g, h) => Commutes(D, f, Above(nodes, g), Above(other, h))
  <1> DEFINE V == VisitOf(D)
  <1>1. DOMAIN nodes = D /\ DOMAIN other = D /\ Bijective(D, f) /\ f \in [D -> D]
    BY DEF Alike, GraphOf, Bijective
  <1>2. Visit(nodes) = V /\ Visit(other) = V
    BY <1>1 DEF Visit, VisitOf
  <1> HIDE DEF V
  <1>3. \A v \in V : Carried(f, v) \in V
    BY <1>1, CarriedType DEF V
  <1>4. \A n \in D : f[n] \in D
    BY <1>1
  <1>5. Commutes(D, f, Lowest(nodes), Lowest(other))
    <2>1. Lowest(nodes) = [n \in D |-> [v \in V |-> v]] /\ Lowest(other) = [n \in D |-> [v \in V |-> v]]
      BY <1>1, <1>2 DEF Lowest
    <2>2. ASSUME NEW n \in D, NEW v \in V
          PROVE  Agree(D, f, Lowest(nodes)[n][v], Lowest(other)[f[n]][Carried(f, v)])
      <3>1. Lowest(nodes)[n][v] = v
        BY <2>1
      <3>2. Lowest(other)[f[n]][Carried(f, v)] = Carried(f, v)
        BY <1>3, <1>4, <2>1
      <3>3. QED
        BY <3>1, <3>2 DEF Agree, V
    <2>3. QED
      BY <2>2 DEF Commutes, V
  <1>6. ASSUME NEW g, NEW h, Commutes(D, f, g, h)
        PROVE  Commutes(D, f, Above(nodes, g), Above(other, h))
    <2>1. Above(nodes, g) = [n \in D |-> [v \in V |-> Enter(nodes, g, n, v)]]
      BY <1>1, <1>2 DEF Above
    <2>2. Above(other, h) = [n \in D |-> [v \in V |-> Enter(other, h, n, v)]]
      BY <1>1, <1>2 DEF Above
    <2>3. \A n \in D, v \in V : /\ Enter(nodes, g, n, v) \in V
                                /\ Enter(other, h, f[n], Carried(f, v)) = Carried(f, Enter(nodes, g, n, v))
      BY <1>6, EnterCarried DEF V
    <2>4. ASSUME NEW n \in D, NEW v \in V
          PROVE  Agree(D, f, Above(nodes, g)[n][v], Above(other, h)[f[n]][Carried(f, v)])
      <3>1. Above(nodes, g)[n][v] = Enter(nodes, g, n, v)
        BY <2>1
      <3>2. Above(other, h)[f[n]][Carried(f, v)] = Enter(other, h, f[n], Carried(f, v))
        BY <1>3, <1>4, <2>2
      <3>3. QED
        BY <2>3, <3>1, <3>2 DEF Agree, V
    <2>5. QED
      BY <2>4 DEF Commutes, V
  <1>7. QED
    BY <1>5, <1>6

LEMMA BlankCarried ==
  ASSUME NEW D, NEW f, NEW nodes, NEW other, Alike(D, f, nodes, other), MaxEdges \in Nat
  PROVE  Commutes(D, f, Blank(nodes), Blank(other))
  <1> DEFINE n == MaxEdges + 1
  <1> n \in Nat
    OBVIOUS
  <1>1. PICK a : /\ a[0] = Lowest(nodes) /\ \A k \in 1..n : a[k] = Above(nodes, a[k-1])
                 /\ Blank(nodes) = a[n]
    BY BlankLevels
  <1>2. PICK b : /\ b[0] = Lowest(other) /\ \A k \in 1..n : b[k] = Above(other, b[k-1])
                 /\ Blank(other) = b[n]
    BY BlankLevels
  <1> HIDE DEF n
  <1> DEFINE S == {k \in 0..n : Commutes(D, f, a[k], b[k])}
  <1>3. 0 \in S
    BY <1>1, <1>2, LevelsCarried
  <1>4. ASSUME NEW k \in 1..n, k - 1 \in S PROVE k \in S
    <2>1. Commutes(D, f, a[k-1], b[k-1])
      BY <1>4
    <2>2. Commutes(D, f, Above(nodes, a[k-1]), Above(other, b[k-1]))
      BY <2>1, LevelsCarried
    <2>3. QED
      BY <1>1, <1>2, <2>2
  <1> HIDE DEF S
  <1>5. n \in S
    BY ONLY <1>3, <1>4, IntervalInduction, n \in Nat
  <1>6. QED
    BY <1>1, <1>2, <1>5 DEF S

LEMMA RootCarried ==
  ASSUME NEW D, NEW f, Bijective(D, f), NEW v \in VisitOf(D)
  PROVE  Agree(D, f, Root(v), Root(Carried(f, v)))
  BY PartsCarried DEF Agree

LEMMA UnknownCarried ==
  ASSUME NEW D, NEW f, NEW nodes, NEW other, Alike(D, f, nodes, other), MaxEdges \in Nat,
         NEW v \in VisitOf(D), NEW x, NEW y, Match(D, f, x, y)
  PROVE  Agree(D, f, _stable_unknown_value(nodes, v, x), _stable_unknown_value(other, Carried(f, v), y))
  <1> DEFINE l == Carried(f, v)
             n == x.node
             k == y.node
             p == _stable_unknown_value(nodes, v, x)
             q == _stable_unknown_value(other, l, y)
  <1>1. Bijective(D, f) /\ "" \notin D /\ f \in [D -> D]
    BY DEF Alike, GraphOf, Bijective
  <1>2. n \in D \union {""} /\ k = IF n = "" THEN "" ELSE f[n]
    BY DEF Match, Label
  <1>3. p = IF n = "" THEN v ELSE Blank(nodes)[n][Root(v)]
    BY DEF _stable_unknown_value, Root
  <1>4. q = IF k = "" THEN l ELSE Blank(other)[k][Root(l)]
    BY DEF _stable_unknown_value, Root
  <1>5. Agree(D, f, Root(v), Root(l))
    BY <1>1, RootCarried
  <1>6. Commutes(D, f, Blank(nodes), Blank(other))
    BY BlankCarried
  <1> HIDE DEF n, k, p, q, l
  <1>7. CASE n = ""
    <2>1. p = v /\ q = l
      BY <1>2, <1>3, <1>4, <1>7
    <2>2. QED
      BY <2>1 DEF Agree, p, q, l
  <1>8. CASE n # ""
    <2>1. n \in D /\ k = f[n] /\ k # ""
      BY <1>1, <1>2, <1>8
    <2>2. Agree(D, f, Blank(nodes)[n][Root(v)], Blank(other)[f[n]][Carried(f, Root(v))])
      BY <1>5, <1>6, <2>1 DEF Commutes, Agree
    <2>3. QED
      BY <1>3, <1>4, <1>5, <1>8, <2>1, <2>2 DEF p, q, l, Agree
  <1>9. QED
    BY <1>7, <1>8

-----------------------------------------------------------------------------
(* The structures that the records keep. *)

Outline(nodes, g) == [n \in DOMAIN nodes |-> PropertiesOf(g, nodes[n])]
Nothing(nodes) == [n \in DOMAIN nodes |-> {}]

\* Two structures that are the same but for the labels.
Same(D, f, g, h) == \A n \in D : h[f[n]] = g[n]

SameValue(g, h, x, y) == ValueOf(h, y) = ValueOf(g, x) /\ y.predicate = x.predicate

LEMMA ValuesSame ==
  ASSUME NEW D, "" \notin D, NEW f, f \in [D -> D], NEW g, NEW h, Same(D, f, g, h),
         NEW x, NEW y, Match(D, f, x, y)
  PROVE  SameValue(g, h, x, y)
  <1> DEFINE n == x.node
             k == y.node
  <1>1. n \in D \union {""} /\ k = (IF n = "" THEN "" ELSE f[n]) /\ y.text = x.text /\ y.predicate = x.predicate
    BY DEF Match, Label
  <1> DEFINE Given(t) == [text |-> t]
             Copied(s) == [text |-> "", structure |-> s]
  <1>2. ValueOf(g, x) = IF n = "" THEN Given(x.text) ELSE Copied(g[n])
    BY DEF ValueOf
  <1>3. ValueOf(h, y) = IF k = "" THEN Given(y.text) ELSE Copied(h[k])
    BY DEF ValueOf
  <1> HIDE DEF n, k, Given, Copied
  <1>4. n = "" => ValueOf(h, y) = ValueOf(g, x)
    BY <1>1, <1>2, <1>3
  <1>5. ASSUME n # "" PROVE ValueOf(h, y) = ValueOf(g, x)
    <2>1. n \in D /\ k = f[n] /\ k # ""
      BY <1>1, <1>5
    <2>2. h[k] = g[n]
      BY <2>1 DEF Same
    <2>3. QED
      BY <1>1, <1>2, <1>3, <1>5, <2>1, <2>2
  <1>6. QED
    BY <1>1, <1>4, <1>5 DEF SameValue

SameProperties(g, h, xs, ys) == PropertiesOf(h, ys) = PropertiesOf(g, xs)

LEMMA PropertiesSame ==
  ASSUME NEW D, "" \notin D, NEW f, f \in [D -> D], NEW g, NEW h, Same(D, f, g, h),
         NEW xs, NEW ys, LabelledAs(D, f, xs, ys)
  PROVE  SameProperties(g, h, xs, ys)
  <1> DEFINE m == Len(xs)
             Pair(p, w) == [predicate |-> p, value |-> w]
  <1>1. DOMAIN xs = 1..m /\ DOMAIN ys = 1..m /\ \A i \in 1..m : Match(D, f, xs[i], ys[i])
    BY DEF LabelledAs
  <1>2. PropertiesOf(g, xs) = {Pair(xs[i].predicate, ValueOf(g, xs[i])) : i \in 1..m}
    BY <1>1 DEF PropertiesOf, ToSet
  <1>3. PropertiesOf(h, ys) = {Pair(ys[i].predicate, ValueOf(h, ys[i])) : i \in 1..m}
    BY <1>1 DEF PropertiesOf, ToSet
  <1> HIDE DEF m, Pair
  <1>4. \A i \in 1..m : ValueOf(h, ys[i]) = ValueOf(g, xs[i]) /\ ys[i].predicate = xs[i].predicate
    <2>1. \A i \in 1..m : SameValue(g, h, xs[i], ys[i])
      BY <1>1, ValuesSame
    <2>2. QED
      BY <2>1 DEF SameValue
  <1>5. QED
    BY <1>2, <1>3, <1>4, ZenonT(30) DEF SameProperties

LEMMA OutlineSame ==
  ASSUME NEW D, NEW f, NEW nodes, NEW other, Alike(D, f, nodes, other)
  PROVE  /\ Same(D, f, Nothing(nodes), Nothing(other))
         /\ \A g, h : Same(D, f, g, h) => Same(D, f, Outline(nodes, g), Outline(other, h))
  <1>1. /\ DOMAIN nodes = D /\ DOMAIN other = D /\ f \in [D -> D] /\ "" \notin D
        /\ \A n \in D : nodes[n] \in Seq(Triple(D)) /\ other[f[n]] = Labelling(f, nodes[n])
    BY DEF Alike, GraphOf, Bijective
  <1>2. Same(D, f, Nothing(nodes), Nothing(other))
    BY <1>1 DEF Same, Nothing
  <1>3. ASSUME NEW g, NEW h, Same(D, f, g, h), NEW n \in D
        PROVE  Outline(other, h)[f[n]] = Outline(nodes, g)[n]
    <2>1. LabelledAs(D, f, nodes[n], other[f[n]])
      BY <1>1, LabellingType
    <2>2. SameProperties(g, h, nodes[n], other[f[n]])
      BY <1>1, <1>3, <2>1, PropertiesSame
    <2>3. QED
      BY <1>1, <2>2 DEF Outline, SameProperties
  <1>4. QED
    BY <1>2, <1>3 DEF Same

LEMMA StructureLevels ==
  ASSUME NEW nodes, NEW n \in Nat, Cardinality(DOMAIN nodes) = n
  PROVE  \E a : /\ a[0] = Nothing(nodes) /\ \A k \in 1..n : a[k] = Outline(nodes, a[k-1])
                /\ Structures(nodes) = a[n]
  <1> DEFINE base == Nothing(nodes)
             F(m, g) == [k \in 0..m |-> IF k = 0 THEN base ELSE Outline(nodes, g[k-1])]
             structure[k \in 0..n] ==
               IF k = 0 THEN [x \in DOMAIN nodes |-> {}]
               ELSE [x \in DOMAIN nodes |-> PropertiesOf(structure[k-1], nodes[x])]
             S == {m \in 0..n : \E g : g = F(m, g)}
  <1>1. Structures(nodes) = structure[n]
    BY DEF Structures
  <1>2. structure = CHOOSE g : g = F(n, g)
    BY DEF Nothing, Outline
  <1> HIDE DEF structure, base
  <1>3. 0 \in S
    <2> DEFINE g == [k \in 0..0 |-> base]
    <2>1. g = F(0, g)
      OBVIOUS
    <2>2. 0 \in 0..n
      OBVIOUS
    <2> HIDE DEF g, F
    <2>3. QED
      BY <2>1, <2>2
  <1>4. ASSUME NEW m \in 1..n, m - 1 \in S PROVE m \in S
    <2>1. PICK g : g = F(m - 1, g)
      BY <1>4
    <2> DEFINE h == [k \in 0..m |-> IF k = m THEN Outline(nodes, g[m-1]) ELSE g[k]]
    <2>2. \A k \in 0..(m-1) : h[k] = g[k]
      OBVIOUS
    <2>3. \A k \in 0..(m-1) : g[k] = IF k = 0 THEN base ELSE Outline(nodes, g[k-1])
      BY <2>1
    <2>4. h[m] = Outline(nodes, g[m-1]) /\ h = [k \in 0..m |-> h[k]]
      OBVIOUS
    <2> HIDE DEF h
    <2>5. \A k \in 0..m : h[k] = IF k = 0 THEN base ELSE Outline(nodes, h[k-1])
      <3> SUFFICES ASSUME NEW k \in 0..m PROVE h[k] = IF k = 0 THEN base ELSE Outline(nodes, h[k-1])
        OBVIOUS
      <3>1. CASE k = m
        <4>1. m # 0 /\ m - 1 \in 0..(m-1)
          OBVIOUS
        <4>2. h[m-1] = g[m-1]
          BY <2>2, <4>1
        <4>3. QED
          BY <2>4, <3>1, <4>1, <4>2
      <3>2. CASE k # m
        BY <2>2, <2>3, <3>2
      <3>3. QED
        BY <3>1, <3>2
    <2>6. h = F(m, h)
      BY <2>4, <2>5
    <2>7. QED
      BY <2>6
  <1> HIDE DEF S
  <1>5. n \in S
    BY <1>3, <1>4, IntervalInduction
  <1>6. structure = F(n, structure)
    BY <1>2, <1>5 DEF S
  <1>7. structure[0] = base /\ \A k \in 1..n : structure[k] = Outline(nodes, structure[k-1])
    BY <1>6
  <1>8. QED
    BY <1>1, <1>7 DEF base

LEMMA StructuresSame ==
  ASSUME NEW D, NEW f, NEW nodes, NEW other, Alike(D, f, nodes, other), IsFiniteSet(D)
  PROVE  Same(D, f, Structures(nodes), Structures(other))
  <1> DEFINE n == Cardinality(D)
  <1>0. n \in Nat /\ DOMAIN nodes = D /\ DOMAIN other = D
    BY FS_CardinalityType DEF Alike, GraphOf
  <1>1. PICK a : /\ a[0] = Nothing(nodes) /\ \A k \in 1..n : a[k] = Outline(nodes, a[k-1])
                 /\ Structures(nodes) = a[n]
    BY <1>0, StructureLevels
  <1>2. PICK b : /\ b[0] = Nothing(other) /\ \A k \in 1..n : b[k] = Outline(other, b[k-1])
                 /\ Structures(other) = b[n]
    BY <1>0, StructureLevels
  <1> HIDE DEF n
  <1> DEFINE S == {k \in 0..n : Same(D, f, a[k], b[k])}
  <1>3. 0 \in S
    BY <1>0, <1>1, <1>2, OutlineSame
  <1>4. ASSUME NEW k \in 1..n, k - 1 \in S PROVE k \in S
    <2>1. Same(D, f, a[k-1], b[k-1])
      BY <1>4
    <2>2. Same(D, f, Outline(nodes, a[k-1]), Outline(other, b[k-1]))
      BY <2>1, OutlineSame
    <2>3. QED
      BY <1>1, <1>2, <2>2
  <1> HIDE DEF S
  <1>5. n \in S
    BY ONLY <1>0, <1>3, <1>4, IntervalInduction
  <1>6. QED
    BY <1>1, <1>2, <1>5 DEF S

\* A surjection of a finite set on itself is a bijection.
LEMMA SurjectiveIsBijective ==
  ASSUME NEW D, IsFiniteSet(D), NEW f, f \in [D -> D], Range(f) = D
  PROVE  Bijective(D, f)
  <1>1. \A y \in D : \E x \in D : f[x] = y
    BY DEF Range
  <1>2. f \in Surjection(D, D)
    BY <1>1 DEF Surjection
  <1>3. f \in Injection(D, D)
    BY <1>2, FS_SurjSameCardinalityImpliesInj
  <1>4. \A x, y \in D : f[x] = f[y] => x = y
    BY <1>3 DEF Injection, IsInjective
  <1>5. QED
    BY <1>1, <1>4 DEF Bijective

\* The document under other labels is a graph alike.
LEMMA RenamedAlike ==
  ASSUME NEW D, NEW f, Bijective(D, f), NEW nodes, GraphOf(D, nodes),
         NEW other, other = [n \in D |-> Labelling(f, nodes[CHOOSE k \in D : f[k] = n])]
  PROVE  Alike(D, f, nodes, other)
  <1>1. /\ f \in [D -> D] /\ (\A x, y \in D : f[x] = f[y] => x = y) /\ (\A y \in D : \E x \in D : f[x] = y)
        /\ "" \notin D /\ \A n \in D : nodes[n] \in Seq(Triple(D))
    BY DEF Bijective, GraphOf
  <1>2. ASSUME NEW n \in D PROVE other[f[n]] = Labelling(f, nodes[n])
    <2>1. (CHOOSE k \in D : f[k] = f[n]) = n
      BY <1>1
    <2>2. QED
      BY <1>1, <2>1
  <1>3. ASSUME NEW n \in D PROVE other[n] \in Seq(Triple(D))
    <2>1. PICK k \in D : f[k] = n
      BY <1>1
    <2>2. other[n] = Labelling(f, nodes[k])
      BY <1>2, <2>1
    <2> DEFINE xs == nodes[k]
               ys == other[n]
    <2> HIDE DEF xs, ys
    <2>3. xs \in Seq(Triple(D)) /\ ys = Labelling(f, xs)
      BY <1>1, <2>2 DEF xs, ys
    <2>4. ys \in Seq(Triple(D))
      BY <1>1, <2>3, LabellingType
    <2>5. QED
      BY <2>4 DEF ys
  <1>4. other \in [D -> Seq(Triple(D))]
    BY <1>3
  <1>5. GraphOf(D, other)
    BY <1>1, <1>4 DEF GraphOf
  <1>6. QED
    BY <1>2, <1>5 DEF Alike

-----------------------------------------------------------------------------
(* The subjects. *)

LEMMA LabelInjective ==
  ASSUME NEW D, NEW f, Bijective(D, f), "" \notin D, NEW x, NEW y, NEW z,
         x \in Triple(D), y \in Triple(D), Match(D, f, x, z), Match(D, f, y, z)
  PROVE  x = y
  <1>1. x.node \in D \union {""} /\ y.node \in D \union {""} /\ Label(f, x.node) = Label(f, y.node)
    BY DEF Match
  <1>2. x.node = y.node
    <2> DEFINE p == x.node
               q == y.node
    <2> HIDE DEF p, q
    <2>1. p \in D \union {""} /\ q \in D \union {""} /\ Label(f, p) = Label(f, q)
      BY <1>1 DEF p, q
    <2>2. f \in [D -> D] /\ \A a, b \in D : f[a] = f[b] => a = b
      BY DEF Bijective
    <2>3. (IF p = "" THEN "" ELSE f[p]) = (IF q = "" THEN "" ELSE f[q])
      BY <2>1 DEF Label
    <2>4. p # "" => f[p] \in D
      BY <2>1, <2>2
    <2>5. q # "" => f[q] \in D
      BY <2>1, <2>2
    <2>6. p = "" <=> q = ""
      BY <2>3, <2>4, <2>5
    <2>7. p = q
      BY <2>1, <2>2, <2>3, <2>6
    <2>8. QED
      BY <2>7 DEF p, q
  <1>3. x.predicate = y.predicate /\ x.text = y.text
    BY DEF Match
  <1>4. x = [predicate |-> x.predicate, node |-> x.node, text |-> x.text]
    BY DEF Triple
  <1>5. y = [predicate |-> y.predicate, node |-> y.node, text |-> y.text]
    BY DEF Triple
  <1>6. QED
    BY <1>2, <1>3, <1>4, <1>5

LEMMA LabellingInjective ==
  ASSUME NEW D, NEW f, Bijective(D, f), "" \notin D, NEW xs, NEW ys,
         xs \in Seq(Triple(D)), ys \in Seq(Triple(D)), Labelling(f, xs) = Labelling(f, ys)
  PROVE  xs = ys
  <1> DEFINE zs == Labelling(f, xs)
  <1>1. f \in [D -> D]
    BY DEF Bijective
  <1>2. zs = Labelling(f, xs) /\ zs = Labelling(f, ys)
    OBVIOUS
  <1> HIDE DEF zs
  <1>3. LabelledAs(D, f, xs, zs) /\ LabelledAs(D, f, ys, zs)
    BY <1>1, <1>2, LabellingType
  <1>4. Len(xs) = Len(ys) /\ Len(xs) \in Nat
    BY <1>3 DEF LabelledAs
  <1>5. \A i \in 1..Len(xs) : Match(D, f, xs[i], zs[i]) /\ Match(D, f, ys[i], zs[i])
    BY <1>3, <1>4 DEF LabelledAs
  <1>6. /\ xs \in [1..Len(xs) -> Triple(D)] /\ ys \in [1..Len(xs) -> Triple(D)]
    <2> DEFINE T == Triple(D)
    <2>1. xs \in Seq(T) /\ ys \in Seq(T)
      OBVIOUS
    <2> HIDE DEF T
    <2>2. xs \in [1..Len(xs) -> T] /\ ys \in [1..Len(ys) -> T]
      BY <2>1, LenProperties
    <2>3. QED
      BY <1>4, <2>2 DEF T
  <1>7. \A i \in 1..Len(xs) : xs[i] = ys[i]
    <2> SUFFICES ASSUME NEW i \in 1..Len(xs) PROVE xs[i] = ys[i]
      OBVIOUS
    <2> DEFINE x == xs[i]
               y == ys[i]
               z == zs[i]
    <2>1. x \in Triple(D) /\ y \in Triple(D) /\ Match(D, f, x, z) /\ Match(D, f, y, z)
      BY <1>5, <1>6
    <2> HIDE DEF x, y, z
    <2>2. x = y
      BY <2>1, LabelInjective
    <2>3. QED
      BY <2>2 DEF x, y
  <1> DEFINE T == Triple(D)
             m == Len(xs)
  <1>8. xs \in [1..m -> T] /\ ys \in [1..m -> T] /\ \A i \in 1..m : xs[i] = ys[i]
    BY <1>6, <1>7
  <1> HIDE DEF T, m
  <1>9. xs = [i \in 1..m |-> xs[i]] /\ ys = [i \in 1..m |-> ys[i]]
    BY <1>8
  <1>10. QED
    BY ONLY <1>8, <1>9

Renew(f, u) == [u EXCEPT !.unknown = Labelling(f, @)]
SameSubject(D, f, u, w) ==
  /\ w.iri = u.iri /\ w.named = u.named /\ w.labels = u.labels /\ w.definitions = u.definitions
  /\ w.unknown = Labelling(f, u.unknown) /\ u.unknown \in Seq(Triple(D))
IsSubject(u) ==
  u = [iri |-> u.iri, named |-> u.named, labels |-> u.labels, definitions |-> u.definitions, unknown |-> u.unknown]

LEMMA SubjectParts ==
  ASSUME NEW D, NEW u \in Subjects(D)
  PROVE  IsSubject(u) /\ u.unknown \in Seq(Triple(D)) /\ u.named \in BOOLEAN
  BY DEF Subjects, Triples, Triple, IsSubject

LEMMA RenewParts ==
  ASSUME NEW u, IsSubject(u), NEW xs, NEW w, w = [u EXCEPT !.unknown = xs]
  PROVE  /\ w.iri = u.iri /\ w.named = u.named /\ w.labels = u.labels /\ w.definitions = u.definitions
         /\ w.unknown = xs
  <1>1. w = [iri |-> u.iri, named |-> u.named, labels |-> u.labels, definitions |-> u.definitions, unknown |-> xs]
    BY DEF IsSubject
  <1>2. QED
    BY ONLY <1>1

LEMMA RenewSame ==
  ASSUME NEW D, NEW f, NEW u \in Subjects(D)
  PROVE  SameSubject(D, f, u, Renew(f, u))
  <1>1. IsSubject(u) /\ u.unknown \in Seq(Triple(D))
    BY SubjectParts
  <1> DEFINE xs == Labelling(f, u.unknown)
             w  == Renew(f, u)
  <1>2. w = [u EXCEPT !.unknown = xs]
    BY DEF Renew
  <1> HIDE DEF xs, w
  <1>3. /\ w.iri = u.iri /\ w.named = u.named /\ w.labels = u.labels /\ w.definitions = u.definitions
        /\ w.unknown = xs
    BY <1>1, <1>2, RenewParts
  <1>4. QED
    BY <1>1, <1>3 DEF SameSubject, xs, w

LEMMA RenewInjective ==
  ASSUME NEW D, NEW f, Bijective(D, f), "" \notin D, NEW u, NEW v, u \in Subjects(D), v \in Subjects(D),
         Renew(f, u) = Renew(f, v)
  PROVE  u = v
  <1> DEFINE w == Renew(f, u)
  <1>1. SameSubject(D, f, u, w) /\ SameSubject(D, f, v, w)
    BY RenewSame
  <1> HIDE DEF w
  <1>2. Labelling(f, u.unknown) = Labelling(f, v.unknown)
        /\ u.unknown \in Seq(Triple(D)) /\ v.unknown \in Seq(Triple(D))
    BY <1>1 DEF SameSubject
  <1>3. u.unknown = v.unknown
    <2> DEFINE p == u.unknown
               q == v.unknown
    <2>1. Labelling(f, p) = Labelling(f, q) /\ p \in Seq(Triple(D)) /\ q \in Seq(Triple(D))
      BY <1>2
    <2> HIDE DEF p, q
    <2>2. p = q
      BY <2>1, LabellingInjective
    <2>3. QED
      BY <2>2 DEF p, q
  <1>4. u.iri = v.iri /\ u.named = v.named /\ u.labels = v.labels /\ u.definitions = v.definitions
    BY <1>1 DEF SameSubject
  <1>5. IsSubject(u) /\ IsSubject(v)
    BY SubjectParts
  <1>6. QED
    BY <1>3, <1>4, <1>5 DEF IsSubject

\* Whether there is one subject, which and how it is spelt, is the same.
Once(f, S, T) ==
  /\ Cardinality(T) = 1 <=> Cardinality(S) = 1
  /\ Cardinality(S) = 1 => /\ (CHOOSE u \in S : TRUE) \in S
                           /\ (CHOOSE u \in T : TRUE) = Renew(f, CHOOSE u \in S : TRUE)

LEMMA RenewedOnce ==
  ASSUME NEW D, NEW f, Bijective(D, f), "" \notin D, NEW S, S \subseteq Subjects(D), IsFiniteSet(S),
         NEW T, T = {Renew(f, u) : u \in S}
  PROVE  Once(f, S, T)
  <1>1. IsFiniteSet(T)
    <2> DEFINE g == [u \in S |-> Renew(f, u)]
    <2>1. g \in Surjection(S, T)
      BY DEF Surjection
    <2> HIDE DEF g
    <2>2. QED
      BY <2>1, FS_Surjection
  <1>2. (Cardinality(T) = 1 <=> \E x : T = {x}) /\ (Cardinality(S) = 1 <=> \E x : S = {x})
    BY <1>1, FS_Singleton
  <1>3. \A u, v \in S : Renew(f, u) = Renew(f, v) => u = v
    BY RenewInjective
  <1>4. ASSUME NEW x, S = {x} PROVE T = {Renew(f, x)}
    BY <1>4
  <1>5. ASSUME NEW y, T = {y} PROVE \E x : S = {x}
    <2>1. PICK x \in S : Renew(f, x) = y
      BY <1>5
    <2>2. \A u \in S : u = x
      BY <1>3, <1>5, <2>1
    <2>3. S = {x}
      BY <2>1, <2>2
    <2>4. QED
      BY <2>3
  <1>6. Cardinality(S) = 1 => /\ (CHOOSE u \in S : TRUE) \in S
                              /\ (CHOOSE u \in T : TRUE) = Renew(f, CHOOSE u \in S : TRUE)
    <2> SUFFICES ASSUME NEW x, S = {x}, T = {Renew(f, x)}
                 PROVE  /\ (CHOOSE u \in S : TRUE) \in S
                        /\ (CHOOSE u \in T : TRUE) = Renew(f, CHOOSE u \in S : TRUE)
      BY <1>2, <1>4
    <2>1. (CHOOSE u \in S : TRUE) = x
      OBVIOUS
    <2>2. (CHOOSE u \in T : TRUE) = Renew(f, x)
      OBVIOUS
    <2>3. QED
      BY <2>1, <2>2
  <1>7. QED
    BY <1>2, <1>4, <1>5, <1>6 DEF Once

SameTechnique(D, f, t, s) ==
  /\ s.id = t.id /\ s.subjects = {Renew(f, u) : u \in t.subjects}
  /\ t.subjects \subseteq Subjects(D) /\ IsFiniteSet(t.subjects)
NamedAlike(D, f, t, s) ==
  /\ Named(s) <=> Named(t)
  /\ Named(t) => Subject(t) \in Subjects(D) /\ SameSubject(D, f, Subject(t), Subject(s))

LEMMA NamedSame ==
  ASSUME NEW D, NEW f, Bijective(D, f), "" \notin D, NEW t, NEW s, SameTechnique(D, f, t, s)
  PROVE  NamedAlike(D, f, t, s)
  <1> DEFINE S == t.subjects
             T == s.subjects
             u == Subject(t)
             w == Subject(s)
  <1>1. S \subseteq Subjects(D) /\ IsFiniteSet(S) /\ T = {Renew(f, x) : x \in S}
    BY DEF SameTechnique
  <1>2. u = (CHOOSE x \in S : TRUE) /\ w = (CHOOSE x \in T : TRUE)
    BY DEF Subject
  <1>3. Named(t) <=> /\ Cardinality(S) = 1 /\ u.named
                     /\ Cardinality(u.labels) = 1 /\ Cardinality(u.definitions) <= 1
    BY DEF Named
  <1>4. Named(s) <=> /\ Cardinality(T) = 1 /\ w.named
                     /\ Cardinality(w.labels) = 1 /\ Cardinality(w.definitions) <= 1
    BY DEF Named
  <1> HIDE DEF S, T, u, w
  <1>5. /\ Cardinality(T) = 1 <=> Cardinality(S) = 1
        /\ Cardinality(S) = 1 => u \in S /\ w = Renew(f, u)
    <2>1. Once(f, S, T)
      BY <1>1, RenewedOnce
    <2>2. QED
      BY <1>2, <2>1 DEF Once
  <1>6. ASSUME Cardinality(S) = 1
        PROVE  u \in Subjects(D) /\ SameSubject(D, f, u, w)
    <2>1. u \in Subjects(D) /\ w = Renew(f, u)
      BY <1>1, <1>5, <1>6
    <2>2. QED
      BY <2>1, RenewSame
  <1>7. Cardinality(S) = 1 => w.named = u.named /\ w.labels = u.labels /\ w.definitions = u.definitions
    BY <1>6 DEF SameSubject
  <1>8. Named(s) <=> Named(t)
    <2>1. CASE Cardinality(S) = 1
      BY <1>3, <1>4, <1>5, <1>7, <2>1, Zenon
    <2>2. CASE Cardinality(S) # 1
      BY <1>3, <1>4, <1>5, <2>2, Zenon
    <2>3. QED
      BY <2>1, <2>2
  <1>9. Named(t) => Cardinality(S) = 1
    BY <1>3, Zenon
  <1>10. QED
    BY <1>6, <1>8, <1>9 DEF NamedAlike, u, w

\* The reading of what is unknown of a subject.
Reads(D, nodes, xs) == [i \in DOMAIN xs |-> [b \in VisitOf(D) |-> _stable_unknown_value(nodes, b, xs[i])]]

LEMMA ReadsCarried ==
  ASSUME NEW D, NEW f, NEW nodes, NEW other, Alike(D, f, nodes, other), MaxEdges \in Nat,
         NEW xs, NEW ys, LabelledAs(D, f, xs, ys), NEW a \in VisitOf(D)
  PROVE  Agree(D, f, Iterated(Reads(D, nodes, xs), a), Iterated(Reads(D, other, ys), Carried(f, a)))
  <1> DEFINE V == VisitOf(D)
             steps  == Reads(D, nodes, xs)
             others == Reads(D, other, ys)
             m == Len(xs)
  <1>0. Bijective(D, f)
    BY DEF Alike
  <1>1. m \in Nat /\ DOMAIN xs = 1..m /\ DOMAIN ys = 1..m /\ \A i \in 1..m : Match(D, f, xs[i], ys[i])
    BY DEF LabelledAs
  <1> HIDE DEF m
  <1>2. Len(steps) = m /\ Len(others) = m
    <2>1. steps = [i \in 1..m |-> steps[i]] /\ others = [i \in 1..m |-> others[i]]
      BY <1>1 DEF Reads
    <2> HIDE DEF steps, others
    <2>2. QED
      BY <1>1, <2>1, LengthOfFunction
  <1>3. ASSUME NEW i \in 1..m, NEW b \in V
        PROVE  Agree(D, f, steps[i][b], others[i][Carried(f, b)])
    <2> DEFINE x == xs[i]
               y == ys[i]
    <2>1. Match(D, f, x, y)
      BY <1>1
    <2>2. steps[i][b] = _stable_unknown_value(nodes, b, x)
      BY <1>1 DEF Reads
    <2>3. Carried(f, b) \in V
      BY <1>0, CarriedType
    <2>4. others[i][Carried(f, b)] = _stable_unknown_value(other, Carried(f, b), y)
      BY <1>1, <2>3 DEF Reads
    <2> HIDE DEF x, y, steps, others
    <2>5. Agree(D, f, _stable_unknown_value(nodes, b, x), _stable_unknown_value(other, Carried(f, b), y))
      BY <2>1, UnknownCarried
    <2>6. QED
      BY <2>2, <2>4, <2>5
  <1> HIDE DEF steps, others
  <1>4. Agree(D, f, Iterated(steps, a), Iterated(others, Carried(f, a)))
    BY <1>0, <1>1, <1>2, <1>3, IteratedCarried
  <1>5. QED
    BY <1>4 DEF steps, others

LEMMA FailedCarried ==
  ASSUME NEW D, NEW f, Bijective(D, f), NEW v \in VisitOf(D)
  PROVE  Agree(D, f, Failed(v), Failed(Carried(f, v)))
  BY PartsCarried DEF Agree

LEMMA TechniqueCarried ==
  ASSUME NEW D, NEW f, NEW nodes, NEW other, Alike(D, f, nodes, other), MaxEdges \in Nat,
         NEW t, NEW s, SameTechnique(D, f, t, s), NEW v \in VisitOf(D)
  PROVE  /\ Agree(D, f, Technique(nodes, v, t), Technique(other, Carried(f, v), s))
         /\ Technique(nodes, v, t).ok => v.ok /\ Named(t)
  <1> DEFINE l == Carried(f, v)
             xs == Subject(t).unknown
             ys == Subject(s).unknown
             P == Technique(nodes, v, t)
             Q == Technique(other, l, s)
  <1>0. Bijective(D, f) /\ "" \notin D /\ f \in [D -> D]
    BY DEF Alike, GraphOf, Bijective
  <1>1. Visit(nodes) = VisitOf(D) /\ Visit(other) = VisitOf(D)
    BY DEF Alike, GraphOf, Visit, VisitOf
  <1>2. P = IF ~v.ok \/ ~Named(t) THEN Failed(v) ELSE Iterated(Reads(D, nodes, xs), v)
    BY <1>1 DEF Technique, Failed, Reads
  <1>3. Q = IF ~l.ok \/ ~Named(s) THEN Failed(l) ELSE Iterated(Reads(D, other, ys), l)
    BY <1>1 DEF Technique, Failed, Reads
  <1>4. NamedAlike(D, f, t, s)
    BY <1>0, NamedSame
  <1>5. Agree(D, f, Failed(v), Failed(l)) /\ l.ok = v.ok /\ Failed(v).ok = FALSE
    <2>1. Agree(D, f, Failed(v), Failed(l))
      BY <1>0, FailedCarried
    <2>2. IsVisit(v)
      BY VisitParts
    <2>3. Failed(v).ok = FALSE
      BY <2>2, FailedParts
    <2>4. l.ok = v.ok
      BY CarriedParts
    <2>5. QED
      BY <2>1, <2>3, <2>4
  <1> HIDE DEF P, Q, l
  <1>6. CASE ~v.ok \/ ~Named(t)
    <2>1. ~l.ok \/ ~Named(s)
      BY <1>4, <1>5, <1>6, Zenon DEF NamedAlike
    <2>2. P = Failed(v) /\ Q = Failed(l)
      BY <1>2, <1>3, <1>6, <2>1, Zenon
    <2>3. QED
      BY <1>5, <2>2 DEF P, Q, l
  <1>7. CASE v.ok /\ Named(t)
    <2>1. l.ok /\ Named(s) /\ SameSubject(D, f, Subject(t), Subject(s))
      BY <1>4, <1>5, <1>7, Zenon DEF NamedAlike
    <2>2. ys = Labelling(f, xs) /\ xs \in Seq(Triple(D))
      BY <2>1 DEF SameSubject
    <2>3. P = Iterated(Reads(D, nodes, xs), v) /\ Q = Iterated(Reads(D, other, ys), l)
      BY <1>2, <1>3, <1>7, <2>1, Zenon
    <2> HIDE DEF xs, ys
    <2>4. LabelledAs(D, f, xs, ys)
      BY <1>0, <2>2, LabellingType
    <2>5. Agree(D, f, Iterated(Reads(D, nodes, xs), v), Iterated(Reads(D, other, ys), Carried(f, v)))
      BY <2>4, ReadsCarried
    <2>6. QED
      BY <1>7, <2>3, <2>5 DEF P, Q, l
  <1>8. QED
    BY <1>6, <1>7

LEMMA RecordSame ==
  ASSUME NEW D, NEW f, NEW nodes, NEW other, Alike(D, f, nodes, other), IsFiniteSet(D),
         NEW t, NEW s, s.id = t.id, SameSubject(D, f, Subject(t), Subject(s)), NEW snapshot
  PROVE  Record(other, snapshot, s) = Record(nodes, snapshot, t)
  <1> DEFINE u == Subject(t)
             w == Subject(s)
             g == Structures(nodes)
             h == Structures(other)
             Rec(iri, id, labels, definitions, properties) ==
               Psr("d3fend", snapshot, "d3fend-defensive-technique", iri, {<<"d3fend_id", id>>, <<"iri", iri>>},
                   [label |-> CHOOSE l \in labels : TRUE, definitions |-> definitions], properties, iri)
  <1>0. "" \notin D /\ f \in [D -> D]
    BY DEF Alike, GraphOf, Bijective
  <1>1. Record(nodes, snapshot, t) = Rec(u.iri, t.id, u.labels, u.definitions, PropertiesOf(g, u.unknown))
    BY DEF Record
  <1>2. Record(other, snapshot, s) = Rec(w.iri, s.id, w.labels, w.definitions, PropertiesOf(h, w.unknown))
    BY DEF Record
  <1> HIDE DEF u, w, g, h, Rec
  <1>3. /\ w.iri = u.iri /\ w.labels = u.labels /\ w.definitions = u.definitions
        /\ w.unknown = Labelling(f, u.unknown) /\ u.unknown \in Seq(Triple(D))
    BY DEF SameSubject, u, w
  <1>4. SameProperties(g, h, u.unknown, w.unknown)
    <2> DEFINE xs == u.unknown
               ys == w.unknown
    <2>1. ys = Labelling(f, xs) /\ xs \in Seq(Triple(D))
      BY <1>3
    <2> HIDE DEF xs, ys
    <2>2. LabelledAs(D, f, xs, ys)
      BY <1>0, <2>1, LabellingType
    <2>3. Same(D, f, g, h)
      BY StructuresSame DEF g, h
    <2>4. SameProperties(g, h, xs, ys)
      BY <1>0, <2>2, <2>3, PropertiesSame
    <2>5. QED
      BY <2>4 DEF xs, ys
  <1>5. QED
    BY <1>1, <1>2, <1>3, <1>4 DEF SameProperties

\* What every step keeps, none of the steps taken was one to lose it.
LEMMA IteratedSound ==
  ASSUME NEW V, NEW bad, NEW m \in Nat, NEW steps, Len(steps) = m, NEW base \in V,
         \A i \in 1..m : \A b \in V : steps[i][b] \in V /\ (steps[i][b].ok => b.ok /\ i \notin bad),
         Iterated(steps, base).ok
  PROVE  \A i \in 1..m : i \notin bad
  <1>1. PICK s : /\ s[0] = base /\ \A k \in 1..m : s[k] = steps[k][s[k-1]]
                 /\ Iterated(steps, base) = s[m]
    <2>1. Len(steps) = m /\ m \in Nat
      OBVIOUS
    <2>2. QED
      BY ONLY <2>1, IteratedSteps
  <1> DEFINE S == {k \in 0..m : s[k] \in V}
             R == {k \in 0..m : s[m-k].ok}
  <1>2. 0 \in S
    BY <1>1
  <1>3. ASSUME NEW k \in 1..m, k - 1 \in S PROVE k \in S
    BY <1>1, <1>3
  <1>4. ASSUME NEW k \in 1..m, s[k-1] \in V, s[k].ok PROVE s[k-1].ok /\ k \notin bad
    BY <1>1, <1>4
  <1> HIDE DEF S
  <1>5. 0..m \subseteq S
    BY ONLY <1>2, <1>3, IntervalInduction, m \in Nat
  <1>6. \A k \in 1..m : s[k-1] \in V
    BY <1>5 DEF S
  <1>7. 0 \in R
    BY <1>1
  <1>8. ASSUME NEW k \in 1..m, k - 1 \in R PROVE k \in R
    <2> DEFINE j == m - k + 1
    <2>1. j \in 1..m /\ j = m - (k - 1) /\ j - 1 = m - k /\ k \in 0..m
      OBVIOUS
    <2> HIDE DEF j
    <2>2. s[j].ok
      BY <1>8, <2>1
    <2>3. s[j-1].ok
      BY <1>4, <1>6, <2>1, <2>2
    <2>4. QED
      BY <2>1, <2>3
  <1> HIDE DEF R
  <1>9. 0..m \subseteq R
    BY ONLY <1>7, <1>8, IntervalInduction, m \in Nat
  <1>10. ASSUME NEW k \in 1..m PROVE k \notin bad
    <2>1. m - k \in R /\ m - (m - k) = k
      BY <1>9
    <2>2. s[k].ok
      BY <2>1 DEF R
    <2>3. QED
      BY <1>4, <1>6, <2>2
  <1>11. QED
    BY <1>10

\* The reading of the techniques of a document, one after the other.
Scan(D, doc) ==
  [i \in DOMAIN doc.techniques |-> [v \in VisitOf(D) |->
     IF i \in _collect_subject_ids(doc) THEN Technique(doc.nodes, v, doc.techniques[i]) ELSE v]]
Start == [cache |-> {}, stack |-> {}, edges |-> 0, ok |-> TRUE]

LEMMA StartCarried ==
  ASSUME NEW D, NEW f
  PROVE  Start \in VisitOf(D) /\ Carried(f, Start) = Start
  <1>1. Image(f, {}) = {}
    BY DEF Image
  <1>2. Carried(f, Start) = [cache |-> Image(f, {}), stack |-> Image(f, {}), edges |-> 0, ok |-> TRUE]
    BY DEF Carried, Start
  <1>3. QED
    BY <1>1, <1>2 DEF Start, VisitOf

Scanned(D, m, doc, other) ==
  /\ _collect_subject_ids(doc) \subseteq 1..m
  /\ _collect_subject_ids(other) = _collect_subject_ids(doc)
  /\ Iterated(Scan(D, other), Start).ok = Iterated(Scan(D, doc), Start).ok
  /\ Iterated(Scan(D, doc), Start).ok => \A i \in _collect_subject_ids(doc) : Named(doc.techniques[i])

LEMMA ScanCarried ==
  ASSUME NEW D, NEW f, NEW doc, NEW other, Alike(D, f, doc.nodes, other.nodes), MaxEdges \in Nat,
         NEW m \in Nat, DOMAIN doc.techniques = 1..m, DOMAIN other.techniques = 1..m,
         \A i \in 1..m : SameTechnique(D, f, doc.techniques[i], other.techniques[i])
  PROVE  Scanned(D, m, doc, other)
  <1> DEFINE V == VisitOf(D)
             ids == _collect_subject_ids(doc)
             steps == Scan(D, doc)
             others == Scan(D, other)
             bad == {i \in ids : ~Named(doc.techniques[i])}
  <1>0. Bijective(D, f)
    BY DEF Alike
  <1>1. ids \subseteq 1..m
    BY DEF _collect_subject_ids
  <1>2. _collect_subject_ids(other) = ids
    BY DEF _collect_subject_ids, SameTechnique
  <1> HIDE DEF ids
  <1>3. Len(steps) = m /\ Len(others) = m
    <2>1. steps = [i \in 1..m |-> steps[i]] /\ others = [i \in 1..m |-> others[i]]
      BY DEF Scan
    <2> HIDE DEF steps, others
    <2>2. QED
      BY <2>1, LengthOfFunction
  <1>4. ASSUME NEW i \in 1..m, NEW b \in V
        PROVE  /\ Agree(D, f, steps[i][b], others[i][Carried(f, b)])
               /\ steps[i][b].ok => b.ok /\ i \notin bad
    <2> DEFINE t == doc.techniques[i]
               s == other.techniques[i]
               l == Carried(f, b)
               p == Technique(doc.nodes, b, t)
               q == Technique(other.nodes, l, s)
    <2>1. l \in V
      BY <1>0, CarriedType
    <2>2. steps[i][b] = IF i \in ids THEN p ELSE b
      BY DEF Scan, ids
    <2>3. others[i][l] = IF i \in ids THEN q ELSE l
      BY <1>2, <2>1 DEF Scan
    <2>4. Agree(D, f, p, q) /\ (p.ok => b.ok /\ Named(t))
      <3>1. SameTechnique(D, f, t, s)
        OBVIOUS
      <3>2. QED
        BY <3>1, TechniqueCarried
    <2>5. i \in bad <=> i \in ids /\ ~Named(t)
      OBVIOUS
    <2> HIDE DEF t, s, l, p, q, steps, others, bad
    <2>6. CASE i \in ids
      BY <2>2, <2>3, <2>4, <2>5, <2>6 DEF l
    <2>7. CASE i \notin ids
      BY <2>2, <2>3, <2>5, <2>7 DEF l, Agree
    <2>8. QED
      BY <2>6, <2>7
  <1> HIDE DEF steps, others
  <1>5. Start \in V /\ Carried(f, Start) = Start
    BY StartCarried
  <1>6. Agree(D, f, Iterated(steps, Start), Iterated(others, Carried(f, Start)))
    BY <1>0, <1>3, <1>4, <1>5, IteratedCarried
  <1>7. Iterated(others, Start).ok = Iterated(steps, Start).ok
    BY <1>5, <1>6, CarriedParts DEF Agree
  <1>8. Iterated(steps, Start).ok => \A i \in ids : Named(doc.techniques[i])
    <2> SUFFICES ASSUME Iterated(steps, Start).ok PROVE \A i \in ids : Named(doc.techniques[i])
      OBVIOUS
    <2> HIDE DEF V, bad
    <2>1. \A i \in 1..m : \A b \in V : steps[i][b] \in V /\ (steps[i][b].ok => b.ok /\ i \notin bad)
      BY <1>4 DEF Agree, V
    <2>2. \A i \in 1..m : i \notin bad
      BY <1>3, <1>5, <2>1, IteratedSound
    <2>3. QED
      BY <1>1, <2>2 DEF bad
  <1>9. QED
    BY <1>1, <1>2, <1>7, <1>8 DEF ids, steps, others, Scanned

\* Two documents that differ in the labels only, and what is read of both.
AlikeDocuments(D, f, doc, other) ==
  /\ Alike(D, f, doc.nodes, other.nodes)
  /\ \E m \in Nat : /\ DOMAIN doc.techniques = 1..m /\ DOMAIN other.techniques = 1..m
                    /\ \A i \in 1..m : SameTechnique(D, f, doc.techniques[i], other.techniques[i])

SameRecords(doc, other, snapshot) == parse_d3fend(other, snapshot) = parse_d3fend(doc, snapshot)

LEMMA ParseSame ==
  ASSUME NEW D, IsFiniteSet(D), NEW f, NEW doc, NEW other, AlikeDocuments(D, f, doc, other), MaxEdges \in Nat,
         NEW snapshot
  PROVE  SameRecords(doc, other, snapshot)
  <1>1. PICK m \in Nat : /\ DOMAIN doc.techniques = 1..m /\ DOMAIN other.techniques = 1..m
                         /\ \A i \in 1..m : SameTechnique(D, f, doc.techniques[i], other.techniques[i])
    BY DEF AlikeDocuments
  <1>2. Alike(D, f, doc.nodes, other.nodes)
    BY DEF AlikeDocuments
  <1> DEFINE ids == _collect_subject_ids(doc)
             read == Iterated(Scan(D, doc), Start)
             again == Iterated(Scan(D, other), Start)
             r(i) == Record(doc.nodes, snapshot, doc.techniques[i])
             q(i) == Record(other.nodes, snapshot, other.techniques[i])
  <1>3. Visit(doc.nodes) = VisitOf(D) /\ Visit(other.nodes) = VisitOf(D)
    BY <1>2 DEF Alike, GraphOf, Visit, VisitOf
  <1>4. /\ ids \subseteq 1..m /\ _collect_subject_ids(other) = ids
        /\ again.ok = read.ok /\ (read.ok => \A i \in ids : Named(doc.techniques[i]))
    <2>1. Scanned(D, m, doc, other)
      BY <1>1, <1>2, ScanCarried
    <2>2. QED
      BY <2>1 DEF Scanned
  <1>5. parse_d3fend(doc, snapshot) = IF read.ok THEN {r(i) : i \in ids} ELSE {}
    BY <1>3 DEF parse_d3fend, Scan, Start
  <1>6. parse_d3fend(other, snapshot) = IF again.ok THEN {q(i) : i \in ids} ELSE {}
    BY <1>3, <1>4 DEF parse_d3fend, Scan, Start
  <1>7. ASSUME read.ok, NEW i \in ids PROVE q(i) = r(i)
    <2> DEFINE t == doc.techniques[i]
               s == other.techniques[i]
    <2>1. SameTechnique(D, f, t, s) /\ Named(t)
      BY <1>1, <1>4, <1>7
    <2> HIDE DEF t, s
    <2>2. Bijective(D, f) /\ "" \notin D
      BY <1>2 DEF Alike, GraphOf
    <2>3. NamedAlike(D, f, t, s)
      BY <2>1, <2>2, NamedSame
    <2>4. SameSubject(D, f, Subject(t), Subject(s)) /\ s.id = t.id
      BY <2>1, <2>3 DEF NamedAlike, SameTechnique
    <2>5. Record(other.nodes, snapshot, s) = Record(doc.nodes, snapshot, t)
      BY <1>2, <2>4, RecordSame
    <2>6. QED
      BY <2>5 DEF t, s
  <1> HIDE DEF ids, read, again, r, q
  <1>8. again.ok = read.ok
    BY ONLY <1>4
  <1>9. CASE read.ok
    <2>1. {q(i) : i \in ids} = {r(i) : i \in ids}
      BY ONLY <1>7, <1>9
    <2>2. parse_d3fend(other, snapshot) = {q(i) : i \in ids}
      BY ONLY <1>6, <1>8, <1>9
    <2>3. parse_d3fend(doc, snapshot) = {r(i) : i \in ids}
      BY ONLY <1>5, <1>9
    <2>4. QED
      BY ONLY <2>1, <2>2, <2>3 DEF SameRecords
  <1>10. CASE ~read.ok
    BY ONLY <1>5, <1>6, <1>8, <1>10 DEF SameRecords
  <1>11. QED
    BY <1>9, <1>10

IsTechnique(t) == t = [id |-> t.id, subjects |-> t.subjects]

Parts(s, id, S) == s.id = id /\ s.subjects = S

LEMMA TechniqueParts ==
  ASSUME NEW t, IsTechnique(t), NEW S, NEW s, s = [t EXCEPT !.subjects = S]
  PROVE  Parts(s, t.id, S)
  <1>1. s = [id |-> t.id, subjects |-> S]
    BY DEF IsTechnique
  <1>2. QED
    BY <1>1 DEF Parts

LEMMA RenamedAlikeDocuments ==
  ASSUME GraphAssumption, NEW r, "d3fend" \in DOMAIN Docs, r \in DOMAIN Docs["d3fend"],
         NEW doc, doc = Docs["d3fend"][r], NEW D, D = DOMAIN doc.nodes,
         NEW f, f \in [D -> D], Range(f) = D
  PROVE  IsFiniteSet(D) /\ AlikeDocuments(D, f, doc, Renamed(doc, f))
  <1> DEFINE other == Renamed(doc, f)
             ts == doc.techniques
             us == other.techniques
  <1>1. /\ IsFiniteSet(D) /\ "" \notin D /\ doc.nodes \in [D -> Seq(Triple(D))]
        /\ ts \in TechniqueSeq(D) /\ \A t \in Range(ts) : IsFiniteSet(t.subjects)
    BY DEF GraphAssumption, Triples, Triple
  <1>2. Bijective(D, f)
    BY <1>1, SurjectiveIsBijective
  <1>3. us = [i \in DOMAIN ts |-> [ts[i] EXCEPT !.subjects = {Renew(f, u) : u \in @}]]
    BY DEF Renamed, Renew
  <1>4. other.nodes = [n \in D |-> Labelling(f, doc.nodes[CHOOSE k \in D : f[k] = n])]
    <2> DEFINE N(A, B) == [n \in A |-> Labelling(f, doc.nodes[CHOOSE k \in B : f[k] = n])]
    <2>1. other.nodes = N(DOMAIN doc.nodes, DOMAIN f)
      BY DEF Renamed
    <2>2. DOMAIN f = D /\ DOMAIN doc.nodes = D
      OBVIOUS
    <2> HIDE DEF other, N
    <2>3. other.nodes = N(D, D)
      BY <2>1, <2>2
    <2>4. QED
      BY <2>3 DEF N
  <1> HIDE DEF other, ts, us
  <1>5. Alike(D, f, doc.nodes, other.nodes)
    <2> DEFINE nodes == doc.nodes
               renamed == other.nodes
    <2>1. GraphOf(D, nodes)
      BY <1>1 DEF GraphOf
    <2>2. renamed = [n \in D |-> Labelling(f, nodes[CHOOSE k \in D : f[k] = n])]
      BY <1>4
    <2> HIDE DEF nodes, renamed
    <2>3. Alike(D, f, nodes, renamed)
      BY <1>2, <2>1, <2>2, RenamedAlike
    <2>4. QED
      BY <2>3 DEF nodes, renamed
  <1> DEFINE T == [id : STRING, subjects : SUBSET Subjects(D)]
             m == Len(ts)
  <1>6. ts \in Seq(T)
    BY <1>1 DEF TechniqueSeq
  <1> HIDE DEF T
  <1>7. m \in Nat /\ DOMAIN ts = 1..m /\ \A i \in 1..m : ts[i] \in T
    BY <1>6, LenProperties, ZenonT(30)
  <1> HIDE DEF m
  <1>8. DOMAIN us = 1..m /\ \A i \in 1..m : us[i] = [ts[i] EXCEPT !.subjects = {Renew(f, u) : u \in @}]
    BY <1>3, <1>7
  <1>9. ASSUME NEW i \in 1..m PROVE SameTechnique(D, f, ts[i], us[i])
    <2> DEFINE t == ts[i]
               s == us[i]
               S == {Renew(f, u) : u \in t.subjects}
    <2>1. t \in T /\ t \in Range(ts)
      BY <1>7 DEF Range
    <2>2. IsTechnique(t) /\ t.subjects \subseteq Subjects(D)
      BY <2>1 DEF T, IsTechnique
    <2>3. IsFiniteSet(t.subjects)
      BY <1>1, <2>1
    <2>4. s = [t EXCEPT !.subjects = S]
      BY <1>8
    <2> HIDE DEF t, s, S
    <2>5. s.id = t.id /\ s.subjects = S
      <3>1. Parts(s, t.id, S)
        BY <2>2, <2>4, TechniqueParts
      <3>2. QED
        BY <3>1 DEF Parts
    <2>6. QED
      BY <2>2, <2>3, <2>5 DEF SameTechnique, t, s, S
  <1>10. QED
    BY <1>1, <1>5, <1>7, <1>8, <1>9 DEF AlikeDocuments, other, ts, us

-----------------------------------------------------------------------------
(* The properties. *)

LEMMA Invariance == Spec => []IInv
  <1>1. IInv /\ Acquired /\ [Next]_vars => IInv'
    BY ParseKept, NormalizeKept, CompareKept, ReviewKept, ReportKept, ManifestKept, PublishKept, OthersKeep DEF Next
  <1>2. QED
    BY <1>1, Initially, AcquiredAlways, PTL DEF Spec

LEMMA AcceptedNormalizes == IInv => AcceptedIsNormalizable
  <1> SUFFICES ASSUME IInv, source = "sysmon-schema", parsed.records # {}, NEW m \in Profiles[source],
                      ProfileBound(source, m, parsed.snapshot), ScopeOf(m, parsed.records)
               PROVE  normalize_psr(source, ById(parsed.records), m, parsed.snapshot, 1).ok
    BY DEF AcceptedIsNormalizable
  <1>1. ParsedFrom(parsed)
    BY DEF IInv, Parsed
  <1>2. IsFiniteSet(parsed.records)
    BY <1>1, ParserAssumption DEF ParsedFrom
  <1>3. parsed.records = parse_text(Docs[source][parsed.snapshot], parsed.snapshot)
    BY <1>1 DEF ParsedFrom, Parse
  <1>4. Numbered(parsed.records)
    BY <1>3, SchemaNumbers, NormalizeAssumption
  <1>5. QED
    BY <1>2, <1>4, SchemaNormalizes, NormalizeAssumption

LEMMA LabelsAgree == Acquired => LabelsDoNotMatter
  <1> SUFFICES ASSUME Acquired, source = "d3fend",
                      NEW f \in [DOMAIN Docs[source][pinned].nodes -> DOMAIN Docs[source][pinned].nodes],
                      Range(f) = DOMAIN Docs[source][pinned].nodes
               PROVE  Parse(source, Renamed(Docs[source][pinned], f), pinned)
                        = Parse(source, Docs[source][pinned], pinned)
    BY DEF LabelsDoNotMatter
  <1> DEFINE doc == Docs["d3fend"][pinned]
             D   == DOMAIN doc.nodes
  <1>1. "d3fend" \in DOMAIN Docs /\ pinned \in DOMAIN Docs["d3fend"] /\ f \in [D -> D] /\ Range(f) = D
    BY DEF Acquired
  <1>2. doc = Docs["d3fend"][pinned] /\ D = DOMAIN doc.nodes
    OBVIOUS
  <1>3. Docs[source][pinned] = doc
    OBVIOUS
  <1>4. MaxEdges \in Nat
    BY ParseAssumption
  <1> HIDE DEF doc, D
  <1>5. IsFiniteSet(D) /\ AlikeDocuments(D, f, doc, Renamed(doc, f))
    BY ONLY <1>1, <1>2, GraphAssumption, RenamedAlikeDocuments
  <1>6. SameRecords(doc, Renamed(doc, f), pinned)
    <2> DEFINE other == Renamed(doc, f)
    <2>1. IsFiniteSet(D) /\ AlikeDocuments(D, f, doc, other)
      BY ONLY <1>5
    <2> HIDE DEF other
    <2>2. SameRecords(doc, other, pinned)
      BY ONLY <1>4, <2>1, ParseSame
    <2>3. QED
      BY ONLY <2>2 DEF other
  <1>7. \A x : Parse("d3fend", x, pinned) = parse_d3fend(x, pinned)
    BY DEF Parse
  <1>8. QED
    BY <1>3, <1>6, <1>7 DEF SameRecords

\* The last build that was accepted, if one was.
LEMMA LastIsClaimed ==
  IInv /\ LKG # None => ReviewedBuild(LKG) /\ TracedBuild(LKG)
  <1> SUFFICES ASSUME IInv, LKG # None PROVE ReviewedBuild(LKG) /\ TracedBuild(LKG)
    OBVIOUS
  <1>1. LKG = accepted[Len(accepted)] /\ Len(accepted) \in Nat /\ Len(accepted) >= 1 /\ accepted[1] = None
    BY DEF LKG, Last, IInv, History
  <1>2. Len(accepted) \in 2..Len(accepted)
    BY <1>1
  <1>3. QED
    BY <1>1, <1>2 DEF IInv, Claimed

\* Four eyes: the records of an accepted build were approved as they are, in
\* that build, by one actor, and by two when the change is of high risk
\* (make_review, review_and_pack_ready_errors).
THEOREM AcceptedWasReviewed == Spec => []ReadyIsReviewed
  <1>1. IInv => ReadyIsReviewed
    BY LastIsClaimed DEF ReadyIsReviewed, ReviewedBuild
  <1>2. QED
    BY <1>1, Invariance, PTL

\* What was accepted is what the parser and the normalizer make of the
\* snapshot, however the artifacts were mixed, for any parser and normalizer
\* (cross_stage_ri_errors).
THEOREM AcceptedTraces == Spec => []PublishedTraces
  <1>1. IInv => PublishedTraces
    BY LastIsClaimed DEF PublishedTraces, TracedBuild, NormalizedFrom, ParsedFrom, MadeBy, Replay
  <1>2. QED
    BY <1>1, Invariance, PTL

\* The comparison of an accepted build is with the build that it replaces.
LEMMA ReplacesBaseline ==
  ASSUME IInv, Publish
  PROVE  diff.before = Cardinality(Entities(LKG.records))
  <1>1. PICK i \in 1..Len(accepted) : /\ diff.baseline = accepted[i].build
                                      /\ diff.before = Cardinality(Entities(accepted[i].records))
    BY Accepting DEF Compared
  <1>2. /\ LKG = accepted[Len(accepted)] /\ Len(accepted) \in Nat /\ Len(accepted) \in 1..Len(accepted)
        /\ 1 \in 1..Len(accepted) /\ accepted[1].build = 0
        /\ \A k \in 1..Len(accepted) : accepted[k].build \in Nat
        /\ \A k, j \in 1..Len(accepted) : k < j => accepted[k].build < accepted[j].build
    BY DEF LKG, Last, IInv, History, None
  <1>3. i = Len(accepted)
    <2>1. CASE LKG.build # 0
      <3>1. accepted[i].build = accepted[Len(accepted)].build
        BY <1>1, <1>2, <2>1, Accepting
      <3>2. ~(i < Len(accepted))
        BY <1>2, <3>1
      <3>3. QED
        BY <1>2, <3>2
    <2>2. CASE LKG.build = 0
      <3>1. ~(1 < Len(accepted))
        BY <1>2, <2>2
      <3>2. QED
        BY <1>2, <3>1
    <2>3. QED
      BY <2>1, <2>2
  <1>4. QED
    BY <1>1, <1>2, <1>3

\* The inventory never shrinks by more than its guardrail from one accepted
\* build to the next, unless somebody explained it
\* (inventory_guardrail_errors).
THEOREM ShrinkingIsExplained == Spec => NoSilentShrink
  <1>1. ASSUME IInv, Next, accepted' # accepted
        PROVE  Shrinks(LKG.records, LKG'.records) => LKG'.explained
    <2>1. Publish
      BY <1>1 DEF Next, Pin, Acquire, ParseSnapshot, Normalize, Curate, Compare, Review, Report, Manifest
    <2>2. LKG'.records = candidates /\ LKG'.explained = diff.explained
      <3>1. accepted' = Append(accepted, [build |-> build.build, records |-> candidates, norm |-> norm,
                                          review |-> review, explained |-> diff.explained])
        BY <2>1 DEF Publish
      <3>2. accepted \in Seq(Range(accepted))
        BY <1>1 DEF IInv, History
      <3>3. LKG' = [build |-> build.build, records |-> candidates, norm |-> norm,
                    review |-> review, explained |-> diff.explained]
        BY <3>1, <3>2, Grown DEF LKG
      <3>4. QED
        BY <3>3
    <2>3. diff.after = Cardinality(Entities(candidates))
      <3>1. diff.candidate = Corpus(candidates) /\ Compared
        BY <1>1, <2>1, Accepting
      <3>2. QED
        BY <3>1 DEF Compared, Corpus, sha256_digest
    <2>4. ~((diff.before - diff.after) * 100 > MaxShrink * diff.before /\ ~diff.explained)
      BY <2>1 DEF Publish, inventory_guardrail_errors
    <2>5. QED
      BY <1>1, <2>1, <2>2, <2>3, <2>4, ReplacesBaseline DEF Shrinks
  <1>2. QED
    BY <1>1, Invariance, PTL DEF Spec, NoSilentShrink

\* The last build that was accepted is one that no order changes, and every
\* record in scope is accounted for: no winner among two records of one
\* identity is chosen by the accident of their digests, and none disappears,
\* whatever a parser makes of a document (normalize_psr).
THEOREM NormalizationIsFaithful == Spec => []NormalizationFaithful
  <1>1. ASSUME NEW n, NormalizedFrom(n)
        PROVE  /\ IsFiniteSet(n.parsed.records)
               /\ Faithful(source, n.parsed.records, ById(n.parsed.records), n.profile, n.release, n.parsed.at)
    <2>1. source \in Sources /\ IsFiniteSet(n.parsed.records)
      BY <1>1, SourceAssumption, ParserAssumption DEF NormalizedFrom, ParsedFrom, Sources, Normalizers
    <2>2. ById(n.parsed.records) \in SetToSeqs(n.parsed.records)
      BY <2>1, Orders
    <2>3. normalize_psr(source, ById(n.parsed.records), n.profile, n.release, n.parsed.at).ok
      BY <1>1 DEF NormalizedFrom, MadeBy
    <2>4. QED
      BY <2>1, <2>2, <2>3, NormalizingIsFaithful
  <1>2. IInv => NothingDropped
    <2> SUFFICES ASSUME IInv, norm # None PROVE NothingDropped
      BY DEF NothingDropped
    <2>1. NormalizedFrom(norm)
      BY DEF IInv, Normalized
    <2>2. QED
      BY <1>1, <2>1 DEF NothingDropped, NormalizedFrom, MadeBy, Faithful
  <1>3. IInv => NoArbitraryWinner
    <2> SUFFICES ASSUME IInv, LKG # None PROVE NoArbitraryWinner
      BY DEF NoArbitraryWinner
    <2>1. TracedBuild(LKG)
      BY LastIsClaimed
    <2>2. NormalizedFrom(LKG.norm) /\ LKG.records = LKG.norm.records /\ LKG.norm.quarantined = {}
      BY <2>1 DEF TracedBuild
    <2>3. Faithful(source, LKG.norm.parsed.records, ById(LKG.norm.parsed.records), LKG.norm.profile,
                   LKG.norm.release, LKG.norm.parsed.at)
      BY <1>1, <2>2
    <2>4. QED
      BY <2>2, <2>3 DEF NoArbitraryWinner, NormalizedFrom, MadeBy, Faithful, Replay
  <1>4. QED
    BY <1>2, <1>3, Invariance, PTL DEF NormalizationFaithful

\* Two spellings that do not matter, whatever the export: a Sysmon schema that
\* its parser accepts is never refused over how it spells the number of an event,
\* and new labels of the blank nodes of a D3FEND graph, of any size, with or
\* without cycles, leave its records and whether it is accepted as they are
\* (_event_id_numeric_value, _stable_blank_node_value).
THEOREM SpellingsAgree == Spec => []SpellingsDoNotMatter
  <1>1. IInv => AcceptedIsNormalizable
    BY AcceptedNormalizes
  <1>2. Acquired => LabelsDoNotMatter
    BY LabelsAgree
  <1>3. IInv /\ Acquired => SpellingsDoNotMatter
    BY <1>1, <1>2 DEF SpellingsDoNotMatter
  <1>4. QED
    BY <1>3, Invariance, AcquiredAlways, PTL
=============================================================================
