# Cyber Sentinel Atlas: a TLA+ verification project

Atlas ships knowledge packs about security telemetry to a Desktop. The
Desktop's host starts `atlas-core`, a Go process that verifies, installs and
activates packs and answers queries over standard input and output. A Python
reference runtime implements the same pack, search and graph contracts. The
contents of a pack come from sources that are ingested, reviewed and promoted,
and from canonical records that a validator keeps consistent.

This directory holds TLA+ models of the parts with interleavings, crashes,
durable state and non-trivial algorithms, the TLC runs that check them, and
proofs of the central safety properties for every value of the constants.
`PROJECT.json` lists components, runs, mutants, findings, hazards, theorems,
and for every definition the source lines it stands for.

Paths are relative to the repository. `pack/` is
`src/shared-core/go/internal/pack/`, `app/`, `protocol/` and `graph/` are its
siblings, `main.go` is `src/shared-core/go/cmd/atlas-core/main.go`, `main.rs`
and `main.js` are under `src/benchmarks/desktop/phase56/candidates/tauri/`,
`tools/` and `ingestion/` are under `src/`.

## 1. Inventory

### Pack store (`pack/state.go`, `activation.go`, `control.go`, `replace_*.go`)

State, all of it files of the runtime root: `install.lock`;
`runtime-state.json` (active generation, last known good, the highest-seen
version and digest of every pack id); `manual-rollback.json` (the generation a
manual rollback returns to); `trusted-time.json`; the directories under
`generations/`; `inbox/pending.atlaspack`; the TUF cache.

Operations: bootstrap from the bundled pack, update from the inbox, rollback,
status. The first three run under the lock: guard against clock rollback,
verify, stage, advance highest-seen, move the active pointer, health-check,
commit the last known good; on an error, put back what was written before.
Processes interact only through these files. A producer replaces the pending
archive at any time without the lock. An administrator removes a stale lock;
the code never does.

Hard: a kill or a failing write between any two durable steps; a directory
sync that fails after the rename; writing back an in-memory copy of a shared
file; error paths that run further durable writes; two builds of one version.
Correct when: pointers always name complete generations that highest-seen
covers; fallbacks have been healthy; trust is never rewound; the lock excludes,
and outlives its holder only by a fault; operations look atomic when nothing
fails; the clock guard can never lock a store out.

### Core runtime (`app/runtime.go`, `main.go`, `pack/read_model.go`)

State: the read model in memory. Operations: start (load, or bootstrap and
load), reload after a change, a compensating rollback when the reload fails,
queries. It reads the store *without* the lock. Correct when: what it serves
is the durable active generation, and every request is answered.

### Protocol session (`protocol/`)

State: whether the handshake is complete, nothing else. Operations: read a
length-prefixed frame, decode strict JSON, dispatch, write a response. The
session ends at end of input, at a framing fault, or when a write fails.
Hard: cuts at every place of a frame, full and closed pipes, responses above
the bound after the operation has been carried out. Correct when: one handshake
gates everything, answers are whole and in order, and the session ends.

### Desktop host and page (`main.rs`, `main.js`)

State: none between commands in the host; the page keeps the pack panel and a
notice. Operations: a command starts a child, writes two frames, polls for the
child's exit up to 15 s, kills it when late, reads its output; the page runs an
action, then refreshes the panel, then reports success. Hard: buttons stay
enabled, commands queue, answers arrive late, children are killed anywhere.
Correct when: a success shown is a durable change and the panel is right.

### Reference pack runtime (`tools/pack/`)

State: the runtime root again, without rollback control and inbox; the TUF
metadata of python-tuf. Operations: the archive preflight and extraction, the
refresh of the metadata, the check of manifest, inventory and artifacts against
them, the rebuild of the search index, installation with its three durable
writes, and the builder, which packs a signed directory and installs the result
once for itself before it publishes. Hard: kills and failing writes again, a
lost or set-back clock record, a source that changes under the builder, names
that differ in case only. Correct when: what is installed is one signed whole,
trust and time never go back, and what is published installs.

### Search (`tools/search/`), relationship graph (`graph/graph.go`)

State: one index file that builders replace, and the file a reader has open.
Operations: parse a query, resolve it by exact, alias and lexical stages,
browse by facet and by number, expand the matches over the graph. There is a
reference resolver over objects and a production one over SQLite. Hard:
builders and readers of one file, damaged files, two implementations of one
contract, limits. Correct when: a reader serves the bundle it expects, both
resolvers answer the exact stages alike, and an expansion is a breadth-first
search.

### Ingestion (`ingestion/`, `tools/ingestion/`)

State: the artifacts of a source on its way: acquisition run, snapshot, parsed
records, normalization run with lineage, candidate, comparison with the last
known good build, review, report, build manifest. Operations: a parser and a
normalizer for each source, and the control plane that accepts or refuses a
bundle of artifacts. Nothing locks; any stage can be repeated while artifacts
of later stages are still about. Hard: stale approvals, mixed bundles, records
of one identity, spellings. Correct when: what is accepted was reviewed as it
is, can be replayed from its snapshot, and does not shrink silently.

### Canonical records (`tools/validate_phase52.py`) and the preview release

State: the files of the corpus on the main branch; every change is merged only
when the whole corpus is valid. Operations: edits of several files at once.
Correct when, after any sequence of changes: a fact has one identity and an
identifier one fact, a name has one meaning, what was renamed is still found,
and the telemetry spine has no cycle. The engineering preview
(`tools/release/build_engineering_preview_pack.py`,
`tools/content/build_encyclopedia_records.py`) merges approved exemplars with
fixtures, projects them for search and signs the directory that is packed.

### The rest

The Go search core and canonical store, the Go twin of the archive and TUF
checks, validators of documents, canary harnesses, benchmarks, spikes and data
are listed in `PROJECT.json` with the reason why they are left out. For a
component that is a directory the largest files are listed.

## 2. Plan

| order | module | composes / implements | state |
|---|---|---|---|
| 1 | `PackLedger`, `PackRuntime` | the second implements the first | done |
| 2 | `PackRuntimeProofs` | theorems about `PackRuntime`, its refinement of `PackLedger` | all its safety properties |
| 3 | `CoreSession`, `DesktopSession` | the second composes `CoreSession` and `PackLedger` | done |
| 4 | `CoreSessionProofs`, `DesktopSessionProofs` | theorems about the two | all their safety properties |
| 5 | `SemVer`, `GraphExpand` | algorithms against reference definitions | done |
| 6 | `PackContents`, `ReferencePack`, `PackBuild`, `PreviewPack` | the reference runtime, its builder, and the release that feeds it | done |
| 7 | `SearchContract`, `SearchCore` | extend `GraphExpand`; the index against the reference resolver | done |
| 8 | `IngestParse`, `IngestNormalize`, `Ingest` | a source from its document to an accepted build | done |
| 9 | `CanonicalModel`, `ContractsProofs` | a corpus that changes by merges; theorems about it and about `SemVer` | done |
| 10 | `Recursion`, `ReferencePackProofs` | induction for recursive functions; theorems about `ReferencePack`, `PackBuild` and `PreviewPack` | all safety properties but `PreviewNeverRefused` |
| 11 | `SearchProofs`, `IngestProofs` | theorems about `GraphExpand`, `SearchCore` and `Ingest` | all safety properties of both |
| 12 | a Go search core beside `SearchCore` | differences of the two cores in stages and limits | open |
| 13 | the Go verifier beside `PackContents` | `Refresh` before the contract checks (`pack/verifier.go:400`) | open |

A proof that is open: `PreviewNeverRefused` for previews within the limits.

## 3. Modules and code

### `PackRuntime`

The unit of interleaving is one durable file operation. What is read under the
lock is merged with the next such operation, which is sound since only the lock
holder writes those files; what is read without it (`ProbeActive`,
`ResolveModel`, the pending archive) is a step of its own.

| actions | code |
|---|---|
| `Start`, `ProbeActive`, `ResolveModel`, `Request`, `Exit` | `main.go` start-up; `app/runtime.go` operations; two successive reads in `LoadActiveReadModel` |
| `AcquireRuntimeLock`, `LockRefused`, `Release` | the `O_EXCL` creation and the deferred removal, `pack/state.go` |
| `GuardTrustedTime`, `VerifyPack` | clock guard; archive, TUF and contracts as one verdict |
| `MarkRollbackTarget`, `StageGeneration`, `AdvanceHighest`, `ActivateGeneration`, `ConfirmActivation`, `PromoteLKG`, `RevertActivation`, `RestoreControl` | `installVerifiedGenerationLocked` and its error paths |
| `ComparePending`, `TakePending`, `ReportControl` | consumption of the pending archive, final status |
| `SwapRollbackTarget`, `SwitchToTarget`, `SettleRollback`, `RevertSwitch` | `RollbackPrevious` |
| `Kill`, `Deposit`, `AdminRecovery` | environment |

`pc[p]` is the next durable step of process p, `goal[p]` the function whose
result it waits for (`Fail` and `Succeed` are what the caller does next, the
compensating rollback included), `work[p]` the locals of the locked function.
`proven` and `entry` are history variables. A write fault leaves the old file,
or on POSIX also the new one (`LateSync`: `replace_unix.go:19`). A health fault
is an intact generation that cannot be read. A generation id is the hash of the
manifest, so pack, generation and digest are one value; `VersionOf` is the rank
of its version (`SemVer` models the comparison).

### `PackLedger`

The active generation, the rollback target, and who is `starting`: processes
that found nothing active, without the lock, and so will install the bundle
(`openRuntimeWithBundle`). `Begin` needs an empty store; `Bootstrap` is only for
who has begun, only with `Bundle`, and is the one step that changes the active
generation and records nothing; of two processes that start on an empty root the
second still takes it after the first, which is what the code does. `Update`
records what it replaces, `Rollback` exchanges. An operation that fails before
its change is durable is no step; one whose change is durable is the whole step,
also when what follows (the report, the reload) is answered with an error.

`MCPackRuntime` maps `PackRuntime` to it: between operations the abstract state
is what is on disk, during one it is what the lock holder found, so the whole
operation becomes one step at the release; `Starting` is who has a bootstrap as
its goal.

### `CoreSession`

`Open`, `ReadFrame`, `ReadEOF`, the operation and `WriteFrame` are the steps of
`Serve`; `Handle`, `HandleHandshake` and `Dispatch` are its functions. The
client sends any frame, closes either end, reads or not, and may kill. Output
is a sequence of units, so that partial writes and a full pipe exist. The
strict JSON profile is one verdict per payload (`malformed`).

### `DesktopSession`

Instantiates `CoreSession` for the current child and `PackLedger` for the store
its operations change. `Launch`, `WriteRequests`, `Poll`, `Check`, `Collect`
are `run_core_session`; the exit may fall between `Poll` and `Check`, so a
child that has answered can still be given up. Every way out of
`run_core_session` is `Settle`: the command is answered, and the child and its
pipes are disposed of. For a late child this is the kill of main.rs:222, wherever
the child is; that the process dies a moment after `kill` returns is left out.
`install.lock` is a file that is there or not: a child killed inside the locked
section leaves it, a removal may fail, and `AdminRecovery` removes it when no
child is inside. `Click`, `Resolve` are the page, which is its panel and whether
the notice says that an action has succeeded.
Assumed: the host's synchronous commands run one after the other on its main
thread (Tauri, external); one Desktop. The notice the page shows at the click
itself is left out: it only ever replaces a success. Commands that only read
(search, record, graph) are one.

### `SemVer`

`compareSemver` and `compare_versions` with the token comparisons that differ,
and `Precedence`, SemVer 2.0.0 section 11 written as an order and not as an
algorithm. `ObservePack` keeps the highest-seen version with the Go one.

### `PackContents`, `ReferencePack`

`PackContents` has the pure half: `Preflight` and `Extract` (archive.py) over
entries with declared and actual sizes, `Refresh` and `Download` (tuf_runtime.py)
over metadata with a version and a digest for each path, and `VerifiedPack`,
which binds manifest, inventory and artifacts. Two contents have one digest only
if they are equal. Signatures, thresholds and expiry belong to python-tuf and
are one flag.

`ReferencePack` is activation.py. `Enter`, `Guard`, `ExtractArchive`,
`RefreshCache`, `Verify`, `LoadState`, `StageGeneration`, `AdvanceTrust`,
`Activate`, `Confirm`, `Commit`, `Revert`, `Leave` are the code of
`install_atlaspack` between two durable effects; a write may fail before or
after it took effect, and the removal of the lock may fail. `Kill`,
`AdminRecovery`, `Damage` (of a generation) and `LoseTime` (of the trusted-time record) are the environment. `proven` and
`faults` are history variables.

### `PackBuild`, `PreviewPack`

`PackBuild` is builder.py: verify the source, write the archive file by file,
extract and verify it again, publish; `ExchangeSource` may fall anywhere. Its
own bounds on sizes (builder.py:82-94) are left to the extraction, which repeats
them. It
shares nothing with the installations but the archive. `PreviewPack` is pure:
`build_records` (blueprint to entities, claims, sources),
`load_canonical_records` (exemplars over fixtures), `Projection`, and
`make_signed_repository`, whose result `MCReferencePack` gives the builder.

### `GraphExpand`

`Discover` is one turn of the inner loop of the expansion, `NextVisit` and
`Return` of the outer one, `Valid` the checks of the request. The adjacency is a
set of edges, since both constructors accept strictly ascending edges only. The
Go function and the method of catalog_graph.py are the same, line for line; the
Python default for the types is a constant (`Default`).

### `SearchContract`, `SearchCore`

A text is its place in the order of texts; normalization, folding, words and
containment are functions of it, given by the instance. `SearchContract` is
pure: `parse_query` with its filters, scope words and value hints, the
projection of a corpus and its validation, and `ReferenceResolve`.

`SearchCore` adds the tables (`Rows`), the builder (`StartBuild`, `Populate`,
`Publish`, which may be killed or write a file that a later reading finds
damaged), the reader (`Open`, `Close`), and `Resolutions`, the stages of the
SQLite core. Which full-text matches come first is external, any choice.
`ResolveWithGraph` seeds `GraphExpand` with the matches, `GraphStep` runs it.

### `IngestParse`, `IngestNormalize`, `Ingest`

A document is its structure. `IngestParse` has the parsers of the eight sources:
what each refuses, which structures it digests, which spellings it identifies.
`IngestNormalize` has the normalizers with their profile, lineage and
quarantine; `order` is the order of the digests of the records, which says
nothing of the source. `Ingest` is the control plane. `Pin` (the source moves),
`Curate` (a candidate is edited) and `Compare` are the environment; `Acquire`,
`ParseSnapshot`, `Normalize`, `Review`, `Report`, `Manifest` leave artifacts,
and `Publish` accepts a bundle if `cross_stage_ri_errors` and the checks of the
single artifacts find nothing. A digest is what it is computed from. The build
before, an argument of `make_manifest` (phase534_promotion.py:25), is the last
known good when the manifest is made: its callers are trusted to pass it, while
the baseline of the comparison, which acceptance compares with it
(validate_ingestion_foundation.py:749), may be older.

### `CanonicalModel`

`main` is the corpus; `Merge` replaces and deletes files, and its guard is
`Valid`, the checks of validate_phase52.py that relate records to each other, to
the registries and to the migration map. An identifier is type, namespace and
key, and the key of a claim or a relationship is what the code hashes.
`wellFormed` stands for what a record must satisfy by itself (schema, dates,
URLs, coverage counts, extensions).

## 4. Runs

| run | properties | bounds |
|---|---|---|
| `safety` | `TypeOK`, `LockDiscipline`, `PointersSound`, `TrustAnchored`, `HighestMonotone` | 2 processes, 3 packs of one id, two of them builds of one version; 1 write fault, 1 health fault, 1 kill, 2 deposits |
| `ledger` | `ImplementsLedger` | 2 processes, 3 packs of two ids, 2 health faults, 2 deposits; no write fault and no kill |
| `single` | `AgreementAtRest` | 1 process, 3 packs, 2 kills, 2 health faults, 3 deposits, a clock of two readings |
| `answered` | `Answered` | 2 processes, 2 packs, every kind of fault once; no symmetry |
| `restored` | `RestoredIsPrevious`, violated | 2 processes, 1 health fault |
| `session` | `TypeOK`, `AnswersInOrder`, `SessionProtocol`, `CleanOutput`, `SessionCompletes` | 3 frames of any kind, results of 1, 2 and 3 units, of which 3 is above the response bound, a pipe of one unit |
| `desktop` | `ConfirmedPanel`, `SuccessIsDone`, `CommandsAnswered` | 2 commands under way, 2 generations, results of 1 and 2 units, a pipe of two units, which the answer to the handshake and a result of 2 units overfill; no symmetry |
| `large` | `LegalResponsePasses`, violated | 1 command |
| `contracts` | `PrecedenceIsSemVer`; `OneClaimPerFact`, `AliasResolvesOne`, `OldIdsLead`, `NoContainmentCycle`, `ClaimsKeepMeaning` | every pair of versions with up to two identifiers of up to two of the characters `-`, `0`, `1`, `a`, and two core numbers; corpora of up to 5 of 28 files, a change writes at most two and deletes at most one |
| `reference` | `LockDiscipline`, `PointersSound`, `InstalledIsSigned`, `TrustAnchored`, `TrustMonotone`; `PublishedInstalls`, `PreviewNeverRefused` | 2 processes, 3 good packs of one id in four archives, an unlicensed one and one archive for each of six defects, two clock readings, two kinds of fault once each; the builder with 1 exchange and 1 kill, six handmade directories and those of the previews that are not refused |
| `search` | `ServesExpected`, `GoodIndexKept`, `ExactAgreement`, `FiltersHold`, `BrowsingAgrees`, `ExpansionSound` | 2 builders, 1 reader, 5 bundles, 1 fault; every query of up to two terms of twelve and some of three; over four documents, every graph of at most three edges of one type or two edges between two documents, every request |
| `ingest` | `ReadyIsReviewed`, `PublishedTraces`, `NormalizationFaithful`, `SpellingsDoNotMatter`, `NoSilentShrink` | 8 sources with up to four documents; ATT&CK, CAR, DefenseOps and the Windows provider go on to builds; 2 acquisitions, 2 builds, shrinkage of 20 and growth of 100 percent |

In `contracts` and `reference` two models that share nothing are in one
instance; a behaviour leaves the initial state of one of them only.

Why these bounds are enough to be interesting. Three packs give the
equal-version boundary, the toggle of a rollback, and an update of the
generation just left. Two processes give every interleaving of a lock holder
with a reader or a contender; a third could only contend. The error paths of an
operation use one fault, the chain update, reload, compensating rollback needs
a health fault, and a kill inside it leaves the stale lock. In `reference` two
kinds of fault give a failing health check and then a failing repair, or a lost
record after a kill. Three frames give a second handshake after an operation,
and a frame behind a fault. Two commands give the stale refresh that arrives
between an action and its confirmation. Four documents give two paths of
different length to one of them. Two bundles with several or no primary
identifiers are what tells the resolvers apart. Two acquisitions and two builds
give a stale review, a mixed bundle, and a shrinkage in two steps. Five files
are an authoritative relationship with its two ends, its claim and the claim's
source: any smaller corpus cannot hold the chain. A circle of the spine needs
four: two records and an edge each way. A response above the bound is in
`session` and not in `desktop`, where the host treats it as any other child
that ends without an answer.

`MaxWriteFaults`, `MaxHealthFaults`, `MaxKills`, `MaxDeposits`, `MaxFaults`,
`MaxChanges`, `MaxBuildKills`, `MaxFrames`, `MaxQueue`, `MaxChars`, `MaxTokens`,
`MaxInt`, `MaxFiles`, `MaxTerms`, `MaxFilters`, `MaxTrouble`, `MaxAcquisitions`
and `MaxBuilds` are bounds of the models. The limits of graph, archive, search
and parsers are the code's, made small.

Symmetry is used over processes or generations, in runs without liveness only;
`Bundle` is not permuted. Deadlock is checked in every run but `ingest`, where
the two builds are used up and a refused source has nowhere to go.

Fairness. In `PackRuntime`, weak fairness of each process's own steps: the
process runs its call stack to the end, and nothing in it waits, since a lock
that is taken is an error. Starting, asking, killing, depositing and recovery
are nobody's obligation. In `CoreSession`, weak fairness of the process, and of
the client's reading while it has not closed the pipe; without it a full pipe
waits, as it does in the code. In `DesktopSession`, weak fairness of the host's
thread and of the clock that makes a child late, and none of the child: it may
hang, or wait for a pipe that the host does not read, and `CommandsAnswered` must
hold all the same. All other models are checked for safety only: nothing in them
waits for anybody.

Properties that belong together are checked as one conjunction of named parts:
`PointersSound` is `PointersInstalled`, `FallbacksProven` and
`PointersBelowHighest`, and so on; the parts are what the proofs are about.

### What the runs found

- `restored` (`app/runtime.go:326`). The compensating rollback takes the lock
  anew and exchanges whatever is active and target then. If another process
  rolled back in between, the generation that just failed becomes active again,
  and the reply says "previous read model restored".
- `large` (`main.rs:216`). The host reads the output after the child has
  exited. A legal response that does not fit in the pipe is never delivered.

### Departures met while modelling that no run keeps

Pack store and core:

- A child terminated between the write of the active pointer and that of the
  last known good (`pack/activation.go:319`, `358`) leaves a partial activation,
  against ADR-0025:166; `safety` shows what survives. When the second write only
  fails, the operation fails and the new generation stays active, against
  `docs/architecture/atlas-tuf-pouf-v1.md:88`. `SettledAgreement` is restricted
  to successful writes for this reason.
- `pack/control.go:353` renames whatever is at the inbox path; the comparison
  at 348-351 does not make it "the exact pending file that was verified"
  (comment at 345). No pointer is affected. `TakePending` models it so.
- `main.go:92` decides on the bootstrap without the lock; of two processes that
  start on an empty root the second runs it although a generation is active,
  against the comment at 37. In `PackLedger` this is a `Bootstrap` of a process
  that began when nothing was active.
- `protocol/framing.go:41`: a stream that ends right after a header is taken
  for a clean end (`session.go:83`), against the comment at 21. `EndOf`.
- After an update that is durable and a status that fails
  (`pack/control.go:356`), the process keeps serving the generation before.
  `ServedIsActive` excludes failing reads for this reason. Likewise the page
  after an action that failed or timed out (`main.js:401`) shows the panel of
  before until the next refresh.
- `pack/semver.go:79`: `Atoi` reads `-1` as a number, so `1.0.0--1` ranks below
  `1.0.0-0`, and of `-0` and `0` each is above the other. `PrecedenceIsSemVer`
  shows that this is the only difference for numbers that fit, whatever the
  bounds (`ComparisonsArePrecedence`). Numbers beyond `int64` (line 81) are
  compared as text.

Reference runtime and release:

- Two directories, or a file and a directory, that differ in case only pass the preflight
  (`tools/pack/archive.py:176` compares whole paths), although
  `docs/architecture/phase-5.5.2-verified-pack-runtime.md:50` lists
  case-insensitive collisions. `PublishedInstalls` says what is lost.
- A generation directory that is damaged keeps its name, and the same pack is
  refused ever after (`tools/pack/activation.py:346`).
- Without a last known good, a failing activation falls back to what was active
  (line 498); the document knows only the last known good.
- Of two blueprint items with one identifier the later event wins, and the
  description is the claim's whose digest sorts last
  (`build_encyclopedia_records.py:295`); only Windows event numbers are checked
  for uniqueness.

Search:

- The hint `version` never matches in the reference resolver, and does in the
  index; lexical stages differ by design (all terms and substrings, any term
  and words). Two primary identifiers, or none, change the order. More than
  twenty matches turn the answer of `resolve_with_graph` into an error
  (`catalog_graph.py:318`). The exact stages ignore the limit. An index is built
  and opened for a bundle whose edges lead nowhere; only the catalog refuses it.

Ingestion:

- The candidate digests of event normalizers are over records in numeric order
  (`microsoft_sysmon_docs.py:209`), the validator's over identifiers
  (`validate_ingestion_foundation.py:710`): a candidate with events 2 and 10 is
  never accepted. `ByNumber` and `Corpus` model both.
- `publication_eligible` of a run is required by its own check (line 361) and
  read by no check of a build. The release that a record names is only compared
  through the evidence of claims (line 759), so not for sources without claims.
  Versions `1` and `01` of a Windows event tie
  (`microsoft_windows_provider_metadata.py:136`). Whether a D3FEND document near
  the budget of 256 edges is accepted depends on the order of its triples. A
  repeated acquisition changes candidate digests, and so ends approvals.

Canonical records (`tools/validate_phase52.py`):

- An applicability that is empty, an empty list in it, and a repeated version
  constraint give one fact two identities (line 128); an alias whose scope names
  another namespace than its record has is found by no query within a namespace
  (line 640); cycles of `SUPERSEDES` are not looked for; snapshots and
  subjects of claims are only checked for existence.

## 5. Proofs

`PackRuntimeProofs` proves, for any sets of processes and packs, any clock and
any bound on faults, from `PackAssumption`, `ProcAssumption` and
`BoundAssumption`:

| theorem | statement |
|---|---|
| `TypeCorrect` | `Spec => []TypeOK` |
| `LockKept` | `Spec => []LockDiscipline`, from `LockExcludes`, `LockReturned` |
| `PointersAreSound` | `Spec => []PointersSound`, from `NoDanglingPointer`, `PointersTrusted`, `FallbacksWereHealthy` |
| `TrustNeverRewound` | `Spec => HighestMonotone` |
| `TrustHasTime` | `Spec => []TrustAnchored` |

The argument has three layers.

1. `TypeInv` is `TypeOK` with `PackKnown`: between verification and promotion
   the locals name a pack. `TypeStep` has one step per action.
2. `LockInv` is inductive over `TypeInv`. `LockedSection` then says that a step
   that changes a file of the store is one of the process whose lock is on
   disk, so all other processes are outside. This is what makes `Fresh`
   inductive: the in-memory copy of `runtime-state.json` that the lock holder
   will write back is the one on disk, except for what it has itself written
   since. Without `Fresh` neither monotonicity nor coverage is inductive, since
   the copy is written back whole.
3. `PointerSources` says where the values of the pointers after a step come
   from: from the pointers and from what is saved in locals. So each pointer
   invariant is strengthened with the same statement about the saved values:
   `SavedInstalled`, `SavedProven`, `SavedBelow`. `HighestWrites` does the same
   for highest-seen. `TrustAnchored` needs `Guarded`: past the guard, trusted
   time is on disk.

The second half of the module is that operations look atomic, from the same
assumptions:

| theorem | statement |
|---|---|
| `OperationsAreAtomic` | `Spec => ImplementsLedger`, if `MaxWriteFaults = 0` and `MaxKills = 0`: nothing but an update that records what it replaced, an exchange, or the bundle for a start that found nothing active |
| `AtomicUntilDisturbed` | for any bounds, every step before the first failed write or kill is a step of `PackLedger` or none |
| `StoreIsSettled` | `Spec => []SettledAgreement`: between operations, active is last known good |
| `StoreAgrees` | `Spec => []AgreementAtRest` |

Health faults, refused locks, pending archives and any number of processes are
allowed by all four; the hypothesis of the first is that of the `ledger` run,
since an operation that is cut in two does leave a state the ledger does not
have. `entry` is what the holder of the lock found. `EntryFor` says, for every
step of every operation, how far the store has moved from it: nothing yet
(`Same`), the target taken over (`Captured`), the two exchanged (`Exchanged`),
the bundle installed (`Booted`), or the whole of an update or a rollback
(`Moved`). That only a first start is ever `Booted` is `PurposeInv`: who has a
bootstrap as its goal installs `Bundle`, captures no target and applies no
pending archive, until it has succeeded or failed. It needs `Agreeing`, that the
copies of the state which are still to be written back, and the state outside an
activation, have the last known good active. At the release the abstract state
jumps from `entry` to what is on disk, which is `Same`, `Booted` or `Moved`; no
other step changes it but for `starting`. `LedgerStep` has one case per kind of
step. For `StoreAgrees`,
`ServedFor` follows what a lone process serves through its operations: it is
behind the store exactly from the activation to the reopening of the model
(`Ahead`).

`CoreSessionProofs` proves, for any set of operations and any bound on frames,
results, responses and the pipe, from `MethodAssumption` and `SizeAssumption`:

| theorem | statement |
|---|---|
| `SessionTyped` | `Spec => []TypeOK` |
| `AnswersAreInOrder` | `Spec => []AnswersInOrder` |
| `ProtocolIsKept` | `Spec => []SessionProtocol`, from `HandshakeGates`, `HandshakeOnce`, `FaultsEnd` |
| `OutputIsClean` | `Spec => []CleanOutput` |

`Handled` and `Performed` sum up what a payload and an operation lead to;
`StepKinds` reduces the steps of server, client and pipes to five kinds.
`OrderInv` adds to `AnswersInOrder` the numbering of the frames and which
frame is without its response. `GateInv` adds to the two handshake properties
what they hinge on while the acceptance is still being written: an open session
has sent it or is writing it (`Opened`), a session that is not open has not
(`Unopened`), and nothing of the kind was sent before (`Once`). The two are not
inductive without it, because `handshakeComplete` is set before the response
leaves.

`OutputInv` says of what has left the process that every unit follows the one
before it in its response (`Linked`), and that the last response is whole
(`Whole`) unless one is being written or the process was killed or its pipe
closed; an oversized one fails before its first unit.

`DesktopSessionProofs` proves, for any generations, operations and number of
commands under way:

| theorem | statement |
|---|---|
| `PanelIsConfirmed` | `Spec => []ConfirmedPanel` |
| `SuccessMeansDone` | `Spec => SuccessIsDone` |

The invariant follows the exchange with the child in three phases, nothing read
yet (`Silent`), the handshake read (`Shaking`), the command read (`Carrying`). A
success that the child has written or is writing answers the command at the
head of the queue and is `Truthful`: an action has made its one change, a status
shows the store as it is. `Foreseen` carries this on to the answers the page has
not seen: a status among them is current, or an action after it is under way,
which is why the page may show it. The three have to be kept together, since the
child is replaced with every command and what is in the pipes dies with it.

`ReferencePackProofs` proves, for any processes, archives, pack ids and any bound
on faults:

| theorem | statement |
|---|---|
| `LockIsDisciplined` | `Spec => []LockDiscipline` |
| `TrustIsAnchored` | `Spec => []TrustAnchored` |
| `InstalledWasSigned` | `Spec => []InstalledIsSigned` |
| `PointersAreSound` | `Spec => []PointersSound` |
| `TrustIsMonotone` | `Spec => TrustMonotone` |
| `PublishedIsInstallable` | `BuildSpec => []PublishedInstalls` |
| `PreviewsAreFaithful` | `Readable(..) => Faithful(make_signed_repository(..))`, for any fixtures, blueprint, catalog and version |

`DataAssumption` says what files may hold: numbers for versions, one digest for
one content. `Locked` excludes all but one process, so what an
installation has loaded is what the file holds but for its own writes
(`Following`). `Endorsed` follows a pack from the archive to the store: from
`verify` on there is signed metadata in the cache whose version is not above the
cached one and which names the manifest and the search projection (`Backed`);
the cache only gets newer, so what is installed stays endorsed. `Pointed` has for the
pointers on disk and for those in locals that they are installed, on record
and, for the last known good, confirmed. That the extraction yields typed nodes
whatever the entries are is an induction over the components of a path and over
the entries (`MkdirType`, `PlaceType`), for which `MkdirChain` and
`Extract` are recursive functions.

`PublishedIsInstallable` is about any set of sources that are whole signed
directories (`SourceAssumption`, in `MCReferencePack`, where TLC evaluates it on
the sources of the run): the signer signs exactly the files below `targets`,
which are those that the manifest names, no two names of one directory are one
to its file system, the documents agree with the records, and one digest stands
for one content. That the sources are such is what the signer is for; that they
stay such while the builder reads is not assumed, since `ExchangeSource` puts
one source in the place of another after any file. The argument:

- What has been read is a `Mixture`: files of sources, at the paths that one
  source has (`BuildInv`).
- The archive of a tree extracts to that tree, on both kinds of file system
  unless names collide (`ExtractMade`, an induction over the entries and over the
  components of their paths).
- A mixture that verifies holds the metadata of one source; its digests fix the
  manifest, the manifest the artifacts, and nothing else may be there, so the
  mixture is that source (`VerifiedIsSource`). This is why an exchange in the
  middle is found, although the source is never looked at again.
- Where no names collide a file system that folds them finds what the other one
  finds (`ReadsAgree`, `VerifiedAgree`), so what the builder verified installs.

`PreviewsAreFaithful` takes the last part of that assumption, the documents, back to
the release: the projection makes one document of each event, an exemplar replaces
the fixture and the document of the catalog with its identifier, whatever the order of the
items (`EventsOfItems`, `ProjectedOnce`). Folds over sets and sequences have no
induction of their own; `SetRecursion` and `RemovalInduction` unfold them as
the recursive functions they are defined by.

`Recursion` has what this rests on: induction over an interval and the existence of
functions defined by recursion over it, stated for sets and derived from the
well-foundedness of `<` on the naturals, so that no operator is a parameter.

`SearchProofs` proves, for any documents, edges, texts, bundles and builders:

| theorem | statement | from |
|---|---|---|
| `ExpansionIsSound` | `SearchSpec => []ExpansionSound` | |
| `CoreServesExpected` | `SearchSpec => []ServesExpected` | |
| `IndexIsKept` | `SearchSpec => GoodIndexKept` | |
| `FiltersAreKept` | `SearchSpec => []FiltersHold` | every bundle has one filter for each record |
| `ExactStagesAgree` | `SearchSpec => []ExactAgreement` | every bundle is `WellMade` |
| `BrowsingIsConsistent` | `SearchSpec => []BrowsingAgrees` | every bundle is `WellMade` |

The assumptions are that documents and edge types are numbers and finitely many
documents exist (`GraphAssumption`), that limits are natural numbers
(`LimitAssumption`), that normalization maps texts to texts
(`TextAssumption`), that a bundle's targets are documents, its edges edges, its
identifiers finitely many and its values texts (`BundleAssumption`), and that a
hint has the name of a filter (`QueryAssumption`). The hypotheses are what
`build_phase544_bundle` makes and the validator does not check: one filter of
each record (`OneFilter`) and, for `WellMade`, the record's facets in it and
decimal values where an identifier is numeric. `BuiltIsWellMade` shows it of
what is built from any corpus, and the `search` run evaluates it on its bundles
(`InstanceAssumption`); a bundle made by hand with two filters for one record is
the case excluded.

`GraphInv` is the invariant of a breadth-first search. The queue holds at most
two layers, in their order (`Layered`); who waits is at the distance from the
seeds that it was reported with (`Waiting`); whoever was reached and does not wait has all
its neighbours reached, unless it is on the last layer (`Explored`). `Ball` is a recursive
function of the distance, so its unfolding comes from `Recursion`. The order of
seeds and neighbours is ascending; that a finite set of numbers has exactly one
ascending sequence is `AscendingExists`. `CoreInv` and `IndexInv` say that a sealed file tells
truly which tables it was sealed with (`Genuine`), so what `open` compares is
enough. For `FiltersAreKept`, each stage of `Resolutions` is shown to select
from rows in scope (`FoundInScope`), for any ranking of the full-text matches.

`ExactStagesAgree` compares two orders. The index sorts the join of the documents
found with their primary identifiers, the reference sorts documents. Both enumerate
a finite set by rank (`Ranked`), so it is enough that they select the same
documents (`ScopeAgrees`: the scope that the index reads off the filters is the
one the reference reads off the documents) and compare them alike. They do where
a document has one primary identifier: the join is then one row for each document
(`OnePrimaryRow`), and its key is that of the document with one more number at
the end, which decides nothing (`PlainKeys`, `MoreKeepsOrder`, `SameOrder`). `BrowsingIsConsistent` adds counts up over the spellings of a
value: a document has one row of each facet (`OneFacetRow`), so the sets that are
counted are disjoint (`FacetTotals`) and their union is what is browsed
(`BrowsedTogether`).

The theorems are about `SearchSpec`; the run checks `MCSpec`, which interleaves
less and adds initial states with larger graphs.

`ContractsProofs` proves about the canonical records, for any files, registries, migrations and
resolution cases:

| theorem | statement | from |
|---|---|---|
| `OneFactOneClaim` | `Spec => []OneClaimPerFact` | claims share a namespace, and their applicability repeats nothing |
| `MeaningIsKept` | `Spec => ClaimsKeepMeaning`: an identifier never changes what it claims | |
| `AliasesResolve` | `Spec => []AliasResolvesOne` | |
| `OldIdentifiersLead` | `Spec => []OldIdsLead` | the namespaces of migrated identifiers are no longer registered |
| `SpineHasNoCycle` | `Spec => []NoContainmentCycle`: the telemetry spine has no cycle | |

`CorpusValid`, `Spec => []Valid(main)`, is the inductive invariant: `Merge` is
guarded by it. The rest is that `Valid` implies what nobody checks directly. A
key is the hashed payload and an identifier contains its key, so equal
identifiers give equal facts (`IdentifierIsFact`), and equal facts equal
payloads when sorting forgets the order only (`FactIsPayload`). Every edge of
the spine goes one layer down (`EdgeGoesDown`), so five steps would lead below
the last. The hypotheses are needed: the first is what the schema lets through
(see the departures), the second is the repository's own registry.

About `SemVer` it proves, for any characters, lengths and core numbers:

| theorem | statement | from |
|---|---|---|
| `ComparisonsArePrecedence` | `VersionSpec => []PrecedenceIsSemVer` | `WithinWidth`: no identifier of digits exceeds `MaxInt` |

The state is only a version (`SeenIsVersion`); the work is the agreement of the
two comparisons with the order, which says "at the first difference" with a
quantifier and not with a search. `LowerAtFirst` is that step for any items and
any irreflexive order of them, and it is used three times: for characters
(`TextIsNumbers`), core numbers (`NumbersOrdered`) and identifiers
(`IdentifiersOrdered`). What is left is that of two different identifiers exactly
one is lower (`IdentifiersTotal`), and that needs leading zeros to be refused:
digits without them are determined by their value, from the last one to the
first (`NumbersDiffer`). `WithinWidth` is needed, since `Atoi` fails on larger
numbers (see the departures), in `parseSemver` too, which then admits their leading
zeros; the `contracts` run evaluates it on its instance.

`IngestProofs` proves, for any documents, profiles, panels and bounds, from the
assumptions that the sources are the eight that have a parser
(`SourceAssumption`), that a parser returns a list (`ParserAssumption`: what it
makes of a document is finite), that every number a text stands for has one
decimal spelling (`NormalizeAssumption`), that a document of D3FEND is a finite
graph whose triples point to nodes of it (`GraphAssumption`), that the bound on
edges is a number (`ParseAssumption`) and that a review lists its actors
(`IngestAssumption`):

| theorem | statement |
|---|---|
| `AcceptedWasReviewed` | `Spec => []ReadyIsReviewed` |
| `AcceptedTraces` | `Spec => []PublishedTraces` |
| `ShrinkingIsExplained` | `Spec => NoSilentShrink` |
| `NormalizationIsFaithful` | `Spec => []NormalizationFaithful` |
| `SpellingsAgree` | `Spec => []SpellingsDoNotMatter` |

The first three expand neither a parser nor a normalizer. The fourth expands the
normalizers. `EachWalks` turns the loop of `normalize_psr` into a sequence of
results (`Walk`), with `Recursion`. Along it two invariants hold. `Sound` says
what the result tells of the records visited: as long as none is refused, each
was skipped, set aside or is in a lineage; if none was set aside, the
identities made are different. `Complete` goes the other way: where the
identities are different and nothing is refused or set aside, nothing is ever
taken (an entity is identified by three texts and a claim by five, so a claim
takes no identity of an entity), and the result holds the outputs of all records visited.
A build is accepted only if nothing was set aside, so `Sound` at the end of the
order that was used gives what `Complete` needs, about the set of records, for every
other order (`EachIsFaithful`). The Windows provider groups its records as a
set and needs no induction (`ProviderIsFaithful`).

The last is about two spellings only, of the numbers of Sysmon events and of
the labels of D3FEND's blank nodes; others may matter (the tie of the versions `1`
and `01` in the departures). It expands two parsers, because it is about what
they compute. What the
parser of the Sysmon schema accepts has one event for each number of a schema
(`SchemaNumbers`), and different numbers have different decimal spellings, so
the normalizer meets no identifier twice (`SchemaNormalizes`); a profile of
another provider or channel is refused, so `ScopeOf` excludes it. For D3FEND, two
documents that differ by a permutation of their labels are read in step. A visit
has a cache, a stack and a count of edges, and `Agree` says that one visit is the
other under the labels. `Follow`, `Enter` and each level of `Blank` keep that
(`FollowCarried`, `EnterCarried`, `LevelsCarried`), by induction on the levels
and, in each, on the triples of a node (`IteratedCarried`), so cycles and the
bound on edges are met by both or by neither. The structures are the same at each
level (`StructuresSame`) without a word on acyclicity, hence so are the records
(`RecordSame`) and the document (`ParseSame`). `Blank` has as many levels as the
bound on edges allows, and `Structures` as many as there are nodes: a longer way
would have exceeded the bound, or have met a node twice and been refused.

Any stage can be done again while the artifacts of later stages are about, so
no invariant can say that two artifacts belong together. The invariant only says
what each is by itself: what its own stage makes of what it names
(`ParsedFrom`, `NormalizedFrom`, `Reviewed`, `Compared`), and that it exists
because a later one does (`Ordered`). That they belong together is what `Publish`
compares, and digests are injective (`DigestsDiffer`, `CorpusDiffers`). For
`ShrinkingIsExplained` the accepted builds have ascending numbers (`History`), so
the baseline with the number of the last known good build is that build, and a
manifest that names no predecessor was made when there was none
(`ReplacesBaseline`).

Only model-checked, and why:

- Liveness (`Answered`, `SessionCompletes`, `CommandsAnswered`): fairness and ENABLED are out of the
  prover's reach.
- `PreviewNeverRefused`: of a preview only its faithfulness is proved. That no limit
  refuses it depends on what the limits are (entries, bytes, ratio) and on the
  names in use, of which the theorems assume nothing.

## 6. Not modelled

- Cryptography and TUF role signatures; the SQL engine and its ranking; file
  permissions and symbolic links; the strict JSON profile and the source formats
  character by character; schemas, dates and URLs of single records.
- Times in ingestion: every check of a time only refuses more.
- Ingestion: runs are named by their content; a comparison starts a new build
  and drops review, report and manifest, a review or a report drops the
  manifest; the counts of a comparison are honest; one lineage of a bundle is
  checked; a second acquisition of a pinned content within a run is left out;
  the canaries' pinned inventories are left out, they refuse more.
- Installation at the test boundary (`install_verified_generation`), which
  skips the clock guard.
- The Go search core and canonical store, and the Go twin of archive and TUF
  checks: PackRuntime takes their verdict as an input.
- Command-line harnesses, validators of documents, unselected Desktop
  candidates, benchmarks and spikes: nothing in them keeps state between runs,
  or they are not part of the product.

Disk and memory exhaustion appear as write faults, a kill or a failed open.
