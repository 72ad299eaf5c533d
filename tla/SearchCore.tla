----------------------------- MODULE SearchCore -----------------------------
(***************************************************************************)
(* The production search core: build_index and SQLiteSearchCore            *)
(* (tools/search/sqlite_search.py), and on top of it the catalog and the   *)
(* composition with the graph (tools/search/catalog_graph.py).             *)
(*                                                                         *)
(* Builders publish one index file by replacement; a reader opens it for   *)
(* the bundle it expects and keeps the file it opened.  The edges of       *)
(* GraphExpand are those of the open core.                                 *)
(***************************************************************************)
EXTENDS GraphExpand, SearchContract

CONSTANTS
  Builder,
  Bundle,       \* what builders are given and readers expect
  Query,
  MaxLimit,     \* MAX_TOP_K
  MaxTrouble    \* bound on the number of faults

ASSUME LimitAssumption == MaxLimit \in Nat

ASSUME BundleAssumption == \A b \in Bundle :
  /\ Targets(b.body) \subseteq Document /\ b.body.edges \subseteq Edge
  /\ IsFiniteSet(b.body.identifiers)
  /\ \A i \in b.body.identifiers : {i.type, i.value, i.namespace} \subseteq Text
  /\ \A d \in b.body.documents :
       {d.facets[k] : k \in {"platform", "product", "provider", "channel", "lifecycle"}} \subseteq Text

\* Only a facet can be asked for.
ASSUME QueryAssumption == \A q \in Query : DOMAIN ScopeHints(q) \subseteq FilterKey

NoAnswer == [query |-> <<>>, depth |-> 0, limit |-> 0, stage |-> "", matches |-> <<>>]
NoCore   == [bundle |-> <<>>, rows |-> <<>>]

VARIABLES
  index,     \* the published file: <<>> or its one content
  build,     \* of each builder: [step, bundle, temp]
  litter,    \* temporary files that nobody will remove
  core,      \* the open core
  answer,    \* of resolve_with_graph, until its pivots are complete
  trouble    \* number of faults

graph  == <<edges, request, pc, queue, visited, out>>
store  == <<index, build, litter, trouble>>
search == <<graph, store, core, answer>>

Resting == [step |-> "idle", bundle |-> <<>>, temp |-> <<>>]

\* The request a graph rests with between two answers.
Quiet ==
  /\ seeds = {} /\ depth = 0 /\ allowed = {} /\ direction = "both" /\ limit = 1
  /\ pc = "idle" /\ queue = <<>> /\ visited = {} /\ out = <<>>

SearchInit ==
  /\ Init /\ edges = {}
  /\ index = <<>> /\ build = [b \in Builder |-> Resting] /\ litter = 0
  /\ core = NoCore /\ answer = NoAnswer /\ trouble = 0

Fault == trouble < MaxTrouble /\ trouble' = trouble + 1

-----------------------------------------------------------------------------
(* build_index *)

\* The tables: SQLite keeps one row for each primary key, and the facets
\* that have a value.
Identity(i) == <<i.target, i.type, i.value, i.namespace>>
AliasKey(a) == <<a.target, a.value, a.kind>>

Storable(body) ==
  /\ \A i, j \in body.identifiers : Identity(i) = Identity(j) => i = j
  /\ \A a, b \in body.aliases : AliasKey(a) = AliasKey(b) => a = b

FacetRows(body) ==
  UNION {{[target |-> f.target, key |-> k, value |-> f.facets[k]] :
            k \in {k \in FilterKey : f.facets[k] # 0}} : f \in body.filters}

Rows(body) ==
  [documents |-> body.documents, identifiers |-> body.identifiers,
   aliases |-> body.aliases, facets |-> FacetRows(body)]

\* The file that is committed: tables, and metadata bound to them and to the
\* bundle by its own digest.
Committed(bundle) ==
  [readable |-> TRUE, sealed |-> TRUE, bundle |-> bundle.digest,
   logical |-> Rows(bundle.body), rows |-> Rows(bundle.body)]

Unfinished == [readable |-> TRUE, sealed |-> FALSE, bundle |-> <<>>, logical |-> <<>>, rows |-> <<>>]

\* The temporary file is removed and build_index raises.
FailBuild(b) == build' = [build EXCEPT ![b] = Resting] /\ UNCHANGED <<index, litter>>

StartBuild(b) ==
  /\ build[b].step = "idle"
  /\ \E bundle \in Bundle :
       /\ validate_projection_bundle(bundle)
       /\ build' = [build EXCEPT ![b] = [step |-> "populate", bundle |-> <<bundle>>, temp |-> <<Unfinished>>]]
  /\ UNCHANGED <<graph, index, litter, core, answer, trouble>>

Populate(b) ==
  /\ build[b].step = "populate"
  /\ LET bundle == build[b].bundle[1]
     IN \/ /\ Storable(bundle.body) /\ UNCHANGED <<index, litter, trouble>>
           /\ build' = [build EXCEPT ![b] = [@ EXCEPT !.step = "publish", !.temp = <<Committed(bundle)>>]]
        \/ ~Storable(bundle.body) /\ FailBuild(b) /\ UNCHANGED trouble
        \/ Storable(bundle.body) /\ FailBuild(b) /\ Fault
  /\ UNCHANGED <<graph, core, answer>>

\* A spoiled temporary file is found out before the replacement.
Sound_NotRead(file) == file.readable
Sound(file) == file.readable /\ file.rows = file.logical

Spoil(b) ==
  /\ build[b].step = "publish" /\ Fault
  /\ \E r \in BOOLEAN :
       build' = [build EXCEPT ![b].temp = <<[@[1] EXCEPT !.readable = r, !.rows.identifiers = {}]>>]
  /\ UNCHANGED <<graph, index, litter, core, answer>>

Publish(b) ==
  /\ build[b].step = "publish"
  /\ \/ /\ Sound(build[b].temp[1])
        /\ index' = build[b].temp /\ build' = [build EXCEPT ![b] = Resting]
        /\ UNCHANGED <<litter, trouble>>
     \/ ~Sound(build[b].temp[1]) /\ FailBuild(b) /\ UNCHANGED trouble
     \/ Fault /\ FailBuild(b)
  /\ UNCHANGED <<graph, core, answer>>

\* A builder that is killed leaves its temporary file.
KillBuild(b) ==
  /\ build[b].step # "idle" /\ Fault
  /\ build' = [build EXCEPT ![b] = Resting] /\ litter' = litter + 1
  /\ UNCHANGED <<graph, index, core, answer>>

\* The published file is damaged: a page, its rows, its metadata.
DamageIndex ==
  /\ index # <<>> /\ index[1].sealed /\ index[1].readable /\ Fault
  /\ \/ index' = <<[index[1] EXCEPT !.readable = FALSE]>>
     \/ index' = <<[index[1] EXCEPT !.rows.identifiers = {}]>>
     \/ index' = <<[index[1] EXCEPT !.sealed = FALSE]>>
  /\ UNCHANGED <<graph, build, litter, core, answer>>

-----------------------------------------------------------------------------
(* SQLiteSearchCore.open, and CatalogGraphRuntime over what it returns *)

Opens_NotRead(file, expected) ==
  validate_projection_bundle(expected) /\ file.readable /\ file.sealed /\ file.bundle = expected.digest
Opens(file, expected) ==
  /\ validate_projection_bundle(expected) /\ file.readable
  /\ file.sealed /\ file.bundle = expected.digest
  /\ file.rows = file.logical

Open ==
  /\ core = NoCore /\ index # <<>>
  /\ \E expected \in Bundle :
       /\ Opens(index[1], expected) /\ validate_phase544_bundle(expected)
       /\ core' = [bundle |-> <<expected>>, rows |-> <<index[1].rows>>]
       /\ edges' = expected.body.edges
  /\ UNCHANGED <<request, pc, queue, visited, out, store, answer>>

Close ==
  /\ core # NoCore /\ Quiet
  /\ core' = NoCore /\ edges' = {}
  /\ UNCHANGED <<request, pc, queue, visited, out, store, answer>>

-----------------------------------------------------------------------------
(* SQLiteSearchCore.resolve *)

Tables == core.rows[1]

HasFacet(rows, id, k, v) ==
  \E f \in rows.facets : f.target = id /\ f.key = k /\ Fold[f.value] = Fold[v]

\* _scope_clause
Scoped(rows, id, hints) == \A k \in DOMAIN hints : HasFacet(rows, id, k, hints[k])

MatchingIdentifiers(rows, p) ==
  {i.target : i \in
    {i \in rows.identifiers :
       /\ p.value # <<>> /\ Same(p.value[1], i.value, i.case)
       /\ p.type # <<>> => i.type = p.type[1]
       /\ Scoped(rows, i.target, p.hints)}}

MatchingAliases(rows, q, p) ==
  {a.target : a \in
    {a \in rows.aliases : SamePhrase(Whole(q), a.value, a.case) /\ Scoped(rows, a.target, p.hints)}}

\* _select_documents_for_targets: a row for each primary identifier of a
\* document, one row for a document without any.
PrimaryRows(rows, id) ==
  LET primary == {i \in rows.identifiers : i.target = id /\ i.primary}
  IN IF primary = {} THEN {<<0, 0, 0>>} ELSE {<<Fold[i.type], Fold[i.value], i.value>> : i \in primary}

SelectDocuments_ById(rows, targets) == Ordered(targets, <)
SelectDocuments(rows, targets) ==
  LET joined == UNION {{<<x, p>> : p \in PrimaryRows(rows, x)} : x \in targets}
      key(j) == SortKey((CHOOSE d \in rows.documents : d.id = j[1]).facets, j[2], j[1]) \o <<j[2][3]>>
      sorted == Ordered(joined, LAMBDA x, y : TupleLess(key(x), key(y)))
  IN [i \in DOMAIN sorted |-> sorted[i][1]]

\* _fts_tokens: the words of all terms, which may be more than the terms.
Tokens(p) == FoldLeft(LAMBDA s, t : s \o Words[t], <<>>, p.terms)

\* Any one of the words is enough for a match.
LexicalHits(rows, p) ==
  {d.id : d \in {d \in rows.documents :
     (\E t \in d.texts : ToSet(Words[t]) \intersect ToSet(Tokens(p)) # {}) /\ Scoped(rows, d.id, p.hints)}}

\* The best of them in the order of a score that is not modelled.
BestOf(hits, n) ==
  {s \in [1..(IF Cardinality(hits) < n THEN Cardinality(hits) ELSE n) -> hits] :
     \A i, j \in DOMAIN s : s[i] = s[j] => i = j}

\* The exact stages ignore the limit; the first one with a match answers.
\* Too many words are an error, but only where they are counted.
Resolutions(rows, q, n) ==
  LET p == parse_query(q)
      canonical == {d.id : d \in {d \in rows.documents : Whole(q) = <<d.id>>}}
      exact == MatchingIdentifiers(rows, p)
      alias == MatchingAliases(rows, q, p)
      found(stage, targets) == {Answered(stage, SelectDocuments(rows, targets))}
  IN IF canonical # {} THEN found("canonical_identifier", canonical)
     ELSE IF exact # {}
     THEN found(IF DOMAIN p.hints # {} THEN "scoped_identifier" ELSE "native_identifier", exact)
     ELSE IF alias # {} THEN found("alias", alias)
     ELSE {Answered("lexical", s) : s \in {s \in BestOf(LexicalHits(rows, p), n) : Len(Tokens(p)) <= MaxTerms}}

\* resolve_with_graph: the matches, repetitions included, are the seeds of an
\* expansion; more than MaxSeeds of them are an error, and nothing is answered.
ResolveWithGraph ==
  /\ core # NoCore /\ pc = "idle" /\ answer = NoAnswer
  /\ \E q \in Query, d \in 0..MaxDepth, n \in 1..MaxLimit :
       /\ parse_query(q).ok
       /\ \E r \in Resolutions(Tables, q, n) :
            LET found == {r.matches[i] : i \in DOMAIN r.matches}
            IN /\ answer' = [query |-> q, depth |-> d, limit |-> n, stage |-> r.stage, matches |-> r.matches]
               /\ IF found = {} \/ d = 0
                  THEN pc' = "done" /\ UNCHANGED <<request, queue, visited, out>>
                  ELSE Len(r.matches) <= MaxSeeds /\ Begin(found, d, <<>>, "both", n)
  /\ UNCHANGED <<edges, store, core>>

\* graph_expand, asked for by itself or for the matches of a query.
GraphStep ==
  /\ core # NoCore
  /\ Expand \/ Discover \/ NextVisit \/ Return \/ Answer
  /\ answer' = IF pc = "done" THEN NoAnswer ELSE answer
  /\ UNCHANGED <<store, core>>

SearchNext ==
  \/ \E b \in Builder : StartBuild(b) \/ Populate(b) \/ Spoil(b) \/ Publish(b) \/ KillBuild(b)
  \/ DamageIndex \/ Open \/ Close \/ ResolveWithGraph \/ GraphStep

SearchSpec == SearchInit /\ [][SearchNext]_search

-----------------------------------------------------------------------------
(* catalog *)

\* browse and facet_values without their limit and their order.
Browse(rows, filters) == {d.id : d \in {d \in rows.documents : Scoped(rows, d.id, filters)}}

FacetCount(rows, key, value, filters) ==
  Cardinality({f.target : f \in
    {f \in rows.facets : f.key = key /\ f.value = value /\ Scoped(rows, f.target, filters)}})

\* numeric_browse
FirstOf(all, n) == [i \in 1..(IF Len(all) < n THEN Len(all) ELSE n) |-> all[i]]

NumericBrowse_AsText(rows, namespace, type, n) ==
  FirstOf(Ordered(NumericRows(rows.identifiers, namespace, type),
                  LAMBDA x, y : TupleLess(<<x[3], x[2]>>, <<y[3], y[2]>>)), n)
NumericBrowse(rows, namespace, type, n) ==
  FirstOf(Ordered(NumericRows(rows.identifiers, namespace, type), TupleLess), n)

-----------------------------------------------------------------------------
\* What build_phase544_bundle makes of any corpus: one filter of each record,
\* with the facets of the record's document but for the version, and decimal
\* values where an identifier is numeric.  No validation asks for it again.
OneFilter(body) == \A f, g \in body.filters : f.target = g.target => f = g

WellMade(body) ==
  /\ OneFilter(body)
  /\ \A d \in body.documents : \E f \in body.filters :
       f.target = d.id /\ \A k \in FilterKey \ {"version"} : f.facets[k] = d.facets[k]
  /\ \A i \in body.identifiers : i.numeric => i.value \in DOMAIN Decimal

\* An open core serves exactly the tables of the bundle that its caller
\* expects, whatever builders publish and whatever is damaged meanwhile, and
\* its graph has no edge that leads out of its documents.
ServesExpected ==
  core # NoCore =>
    /\ core.bundle[1].digest = core.bundle[1].body
    /\ Tables = Rows(core.bundle[1].body)
    /\ edges = core.bundle[1].body.edges
    /\ UNION {{e.source, e.target} : e \in edges} \subseteq Targets(core.bundle[1].body)

\* A build that fails or is killed leaves the published index as it is, and
\* what replaces it can be opened for the bundle it was built from.
GoodIndexKept ==
  [][index' # index => trouble' # trouble \/ \E b \in Builder :
       build[b].bundle # <<>> /\ build'[b] = Resting /\ Opens(index'[1], build[b].bundle[1])]_search

\* The query in progress has its answer and no fault can reach it any more.
Answering == answer # NoAnswer /\ pc = "done"

Body == core.bundle[1].body

OnePrimary == \A d \in Body.documents :
  Cardinality({i \in Body.identifiers : i.target = d.id /\ i.primary}) = 1

\* Where every document has one primary identifier and the query names no
\* version, the index answers the exact stages as the reference does: the
\* same stage, the same documents, each once, in the same order.
ExactAgreement ==
  Answering /\ OnePrimary /\ "version" \notin DOMAIN ScopeHints(answer.query) =>
    LET reference == ReferenceResolve(Body, answer.query)
        exact == {"canonical_identifier", "scoped_identifier", "native_identifier", "alias"}
    IN /\ answer.stage \in exact <=> reference.stage \in exact
       /\ answer.stage \in exact =>
            reference = [stage |-> answer.stage, matches |-> answer.matches]

\* Whatever the stage, but for a canonical identifier, every match has the
\* value of the last filter of each key, unless a scope word speaks for it.
FiltersHold ==
  Answering /\ answer.stage # "canonical_identifier" =>
    \A k \in DOMAIN FilterHints(answer.query), i \in DOMAIN answer.matches :
      LET w == WordsOf(answer.query)
          named == IF Names(w) THEN DOMAIN ScopeWords[Fold[w[1]]] ELSE {}
          f == CHOOSE f \in Body.filters : f.target = answer.matches[i]
      IN k \in named \/ Fold[f.facets[k]] = Fold[FilterHints(answer.query)[k]]

JustOpened == core # NoCore /\ Quiet /\ answer = NoAnswer

FacetTotal(rows, key, values, filters) ==
  MapThenSumSet(LAMBDA v : FacetCount(rows, key, v, filters), values)

\* The counts of a facet add up to what browsing returns: under any other
\* filter, the counts of all spellings of a value are the number of documents
\* that browsing with one of them returns.
FacetsCountDocuments ==
  JustOpened =>
    \A f, g \in Tables.facets :
      LET hints == [k \in {g.key} |-> g.value]
          both == [k \in {f.key, g.key} |-> IF k = f.key THEN f.value ELSE g.value]
          spellings == {h.value : h \in {h \in Tables.facets : h.key = f.key /\ Fold[h.value] = Fold[f.value]}}
      IN g.key # f.key \/ g = f =>
           FacetTotal(Tables, f.key, spellings, hints) = Cardinality(Browse(Tables, both))

\* Numeric browsing goes by the number, not by the text, and returns the
\* first of what the reference returns.
NumericOrder ==
  JustOpened =>
    \A i \in Tables.identifiers, n \in 1..MaxLimit :
      LET shown == NumericBrowse(Tables, i.namespace, i.type, n)
      IN /\ shown = FirstOf(ReferenceNumeric(Body, i.namespace, i.type), n)
         /\ \A j, k \in DOMAIN shown : j < k => shown[j][1] <= shown[k][1]

\* The catalog that is offered and the lists it leads to agree with each other
\* and with the documents (facet_values, browse, numeric_browse).
BrowsingAgrees == FacetsCountDocuments /\ NumericOrder
=============================================================================
