--------------------------- MODULE SearchContract ---------------------------
(***************************************************************************)
(* The search contract and its reference (tools/search/reference_search.py *)
(* and the projection half of catalog_graph.py): parsing of a query, the   *)
(* projection of a corpus, and the resolver that the production index is   *)
(* measured against.                                                       *)
(*                                                                         *)
(* A text is a number, its place in the order of texts; 0 is no text.  A   *)
(* term of a query is a word, or a filter with a key.  An alias is the     *)
(* sequence of its words.  A digest is what it is computed from.           *)
(***************************************************************************)
EXTENDS Naturals, FiniteSets, SequencesExt

CONSTANTS
  Text,
  Nfkc, Fold,      \* unicode normalization, without and with case folding
  Words,           \* the lexical words of a text, folded, in a sequence
  Part,            \* <<s, t>> if folded s occurs in folded t
  Decimal,         \* the values of the texts that are decimal integers
  FilterKey,
  ScopeWords,      \* folded word -> the hints it stands for
  EventPhrase, EventType,   \* "event id" and the identifier type it names
  MaxTerms, MaxFilters

ASSUME TextAssumption ==
  /\ Text \subseteq Nat /\ 0 \in Text
  /\ {Nfkc, Fold} \subseteq [Text -> Text]
  /\ \A t \in Text : Fold[Nfkc[t]] = Fold[t]
  /\ DOMAIN Decimal \subseteq Text \ {0} /\ Decimal \in [DOMAIN Decimal -> Nat]

IsFilter(t) == t.key # ""

\* Every element of S once, in the order less.
Ordered(S, less(_, _)) ==
  [i \in 1..Cardinality(S) |-> CHOOSE x \in S : Cardinality({y \in S : less(y, x)}) = i - 1]

\* The order of tuples of one length.
TupleLess(x, y) ==
  \E i \in DOMAIN x : x[i] < y[i] /\ \A j \in 1..(i-1) : x[j] = y[j]

-----------------------------------------------------------------------------
(* parse_query *)

WordsOf(q) == [i \in DOMAIN SelectSeq(q, LAMBDA t : ~IsFilter(t)) |->
                 SelectSeq(q, LAMBDA t : ~IsFilter(t))[i].value]

\* A later filter replaces an earlier one of the same key.
FilterHints(q) ==
  LET given == SelectSeq(q, IsFilter)
      At(k) == {i \in DOMAIN given : given[i].key = k}
  IN [k \in {given[i].key : i \in DOMAIN given} |->
        given[CHOOSE i \in At(k) : \A j \in At(k) : j <= i].value]

Names(terms) == Len(terms) >= 2 /\ Fold[terms[1]] \in DOMAIN ScopeWords

\* A leading scope word replaces the filters of its own keys and no others.
ScopeHints_WordsOnly(q) ==
  IF Names(WordsOf(q)) THEN ScopeWords[Fold[WordsOf(q)[1]]] ELSE FilterHints(q)
ScopeHints(q) ==
  LET own   == FilterHints(q)
      scope == ScopeWords[Fold[WordsOf(q)[1]]]
  IN IF Names(WordsOf(q))
     THEN [k \in (DOMAIN scope) \union (DOMAIN own) |-> IF k \in DOMAIN scope THEN scope[k] ELSE own[k]]
     ELSE own

IsEvent(terms) ==
  ~Names(terms) /\ Len(terms) = 3 /\ <<Fold[terms[1]], Fold[terms[2]]>> = EventPhrase

ValueHint(terms) ==
  IF Names(terms) THEN IF Len(terms) = 2 THEN <<terms[2]>> ELSE <<>>
  ELSE IF IsEvent(terms) THEN <<terms[3]>>
  ELSE IF Len(terms) = 1 THEN <<terms[1]>> ELSE <<>>

parse_query(q) ==
  [ok    |-> Len(WordsOf(q)) <= MaxTerms /\ Len(SelectSeq(q, IsFilter)) <= MaxFilters,
   terms |-> WordsOf(q),
   hints |-> ScopeHints(q),
   type  |-> IF IsEvent(WordsOf(q)) THEN <<EventType>> ELSE <<>>,
   value |-> ValueHint(WordsOf(q))]

-----------------------------------------------------------------------------
(* the projection of a corpus *)

\* The identifiers of a record, with the record's namespace for want of one.
IdentifiersOf(r) ==
  {[target |-> r.id, type |-> i.type, value |-> i.value,
    namespace |-> IF i.namespace = 0 THEN r.facets["namespace"] ELSE i.namespace,
    case |-> i.case, primary |-> i.primary, numeric |-> i.numeric] : i \in r.ids}

AliasesOf(r) == {[target |-> r.id, value |-> a.value, kind |-> a.kind, case |-> a.case] : a \in r.aliases}

\* A search document; the reference knows nothing of its version.
DocumentOf(r) ==
  [id |-> r.id, facets |-> [r.facets EXCEPT !["version"] = 0],
   texts |-> {r.title, r.description} \union {i.value : i \in r.ids}
             \union UNION {{a.value[n] : n \in DOMAIN a.value} : a \in r.aliases}]

Projectable(c) ==
  /\ c.records # {}
  /\ \A r, s \in c.records : r.id = s.id => r = s
  /\ \A r \in c.records : \A i \in r.ids : i.numeric => i.value \in DOMAIN Decimal

build_projection_bundle(c) ==
  [documents   |-> {DocumentOf(r) : r \in c.records},
   identifiers |-> UNION {IdentifiersOf(r) : r \in c.records},
   aliases     |-> UNION {AliasesOf(r) : r \in c.records},
   filters     |-> {[target |-> r.id, facets |-> [r.facets EXCEPT !["version"] = 0]] : r \in c.records}]

Targets(body) == {d.id : d \in body.documents}

\* build_phase544_bundle: the version facets, and the edges of the corpus.
EdgesOf(c) == {e \in c.edges : {e.source, e.target} \subseteq {r.id : r \in c.records}}

build_phase544_bundle(c) ==
  LET base == build_projection_bundle(c)
      body == [documents |-> base.documents, identifiers |-> base.identifiers,
               aliases |-> base.aliases, edges |-> c.edges,
               filters |-> {[target |-> r.id, facets |-> r.facets] : r \in c.records}]
  IN [ok |-> Projectable(c) /\ EdgesOf(c) = c.edges, body |-> body, digest |-> body]

validate_projection_bundle(b) ==
  /\ b.digest = b.body
  /\ b.body.documents # {}
  /\ \A d, e \in b.body.documents : d.id = e.id => d = e
  /\ {i.target : i \in b.body.identifiers} \union {a.target : a \in b.body.aliases}
       \union {f.target : f \in b.body.filters} \subseteq Targets(b.body)

\* What the graph demands beyond what the index does.
validate_phase544_bundle(b) ==
  /\ validate_projection_bundle(b)
  /\ UNION {{e.source, e.target} : e \in b.body.edges} \subseteq Targets(b.body)

-----------------------------------------------------------------------------
(* ReferenceResolver *)

Same(s, t, case) == IF case THEN Nfkc[s] = Nfkc[t] ELSE Fold[s] = Fold[t]

SamePhrase(s, t, case) == Len(s) = Len(t) /\ \A i \in DOMAIN s : Same(s[i], t[i], case)

The(body, id) == CHOOSE d \in body.documents : d.id = id

InScope(body, id, hints) ==
  \A k \in DOMAIN hints :
    LET actual == The(body, id).facets[k] IN actual # 0 /\ Fold[actual] = Fold[hints[k]]

\* _stable_record_key; the first identifier stands in for a primary one.
PrimaryOf(body, id) ==
  LET own     == {i \in body.identifiers : i.target = id}
      primary == {i \in own : i.primary}
      from    == IF primary = {} THEN own ELSE primary
      rank(i) == <<i.namespace, i.type, i.value>>
  IN IF own = {} THEN <<0, 0>>
     ELSE LET i == CHOOSE i \in from : \A j \in from : ~TupleLess(rank(j), rank(i))
          IN <<Fold[i.type], Fold[i.value]>>

SortKey(facets, primary, id) ==
  <<Fold[facets["platform"]], Fold[facets["product"]], Fold[facets["provider"]],
    Fold[facets["channel"]], primary[1], primary[2], Fold[facets["lifecycle"]], id>>

Answered(stage, matches) == [stage |-> IF matches = <<>> THEN "none" ELSE stage, matches |-> matches]

_envelope(body, stage, targets) ==
  Answered(stage, Ordered(targets, LAMBDA x, y :
    TupleLess(SortKey(The(body, x).facets, PrimaryOf(body, x), x),
              SortKey(The(body, y).facets, PrimaryOf(body, y), y))))

ExactIdentifiers(body, p) ==
  {i.target : i \in
    {i \in body.identifiers :
       /\ p.value # <<>> /\ Same(p.value[1], i.value, i.case)
       /\ p.type # <<>> => i.type = p.type[1]
       /\ InScope(body, i.target, p.hints)}}

\* The whole query, filters included, is compared with the alias.
Whole(q) == IF \E i \in DOMAIN q : IsFilter(q[i]) THEN <<>> ELSE WordsOf(q)

ExactAliases(body, q, p) ==
  {a.target : a \in
    {a \in body.aliases : SamePhrase(Whole(q), a.value, a.case) /\ InScope(body, a.target, p.hints)}}

Contained(body, p) ==
  {d.id : d \in
    {d \in body.documents :
       /\ p.terms # <<>>
       /\ \A i \in DOMAIN p.terms : \E t \in d.texts : <<p.terms[i], t>> \in Part
       /\ InScope(body, d.id, p.hints)}}

\* ReferenceResolver.resolve of a query that parses; the lexical matches
\* have all one score and are ordered by title, which is left out.
ReferenceResolve(body, q) ==
  LET p == parse_query(q)
      canonical == {d.id : d \in {d \in body.documents : Whole(q) = <<d.id>>}}
      exact == ExactIdentifiers(body, p)
      alias == ExactAliases(body, q, p)
  IN IF canonical # {} THEN _envelope(body, "canonical_identifier", canonical)
     ELSE IF exact # {}
     THEN _envelope(body, IF DOMAIN p.hints # {} THEN "scoped_identifier" ELSE "native_identifier", exact)
     ELSE IF alias # {} THEN _envelope(body, "alias", alias)
     ELSE Answered("lexical_reference", Ordered(Contained(body, p), <))

\* The numeric identifiers of one namespace and type: number, target, text.
NumericRows(identifiers, namespace, type) ==
  {<<Decimal[i.value], i.target, i.value>> : i \in
    {i \in identifiers : i.namespace = namespace /\ i.type = type /\ i.numeric}}

\* ReferenceResolver.numeric_browse
ReferenceNumeric(body, namespace, type) ==
  Ordered(NumericRows(body.identifiers, namespace, type), TupleLess)
=============================================================================
