----------------------------- MODULE IngestParse -----------------------------
(***************************************************************************)
(* The parsers of ingestion/parsers: each turns one source document into   *)
(* parsed source records (PSR), or refuses it: {} is a refusal, for a      *)
(* document that is accepted has a record.                                 *)
(*                                                                         *)
(* A document is its structure; "" stands for a text that is missing.  A   *)
(* digest is what it is computed from, so a record stands for its          *)
(* record_digest and, with its snapshot, for its parsed_record_id.         *)
(***************************************************************************)
EXTENDS Naturals, FiniteSets, SequencesExt

CONSTANTS
  Number,       \* the value of each spelling of a number
  Digits,       \* the spellings that are decimal digits, and no hexadecimal ones
  Shaped,       \* of each kind of identifier, the well-formed ones
  MaxManifests, MaxEvents, MaxFields, MaxEdges

ASSUME ParseAssumption ==
  /\ Digits \subseteq DOMAIN Number
  /\ {MaxManifests, MaxEvents, MaxFields, MaxEdges} \subseteq Nat

Psr(source, snapshot, type, key, ids, native, unknown, locator) ==
  [source |-> source, snapshot |-> snapshot, type |-> type, key |-> key, ids |-> ids,
   native |-> native, unknown |-> unknown, locator |-> locator]

Distinct(s, Key(_)) == \A i, j \in DOMAIN s : Key(s[i]) = Key(s[j]) => i = j

\* What a sequence of functions makes of base, one after the other.
Iterated(steps, base) ==
  LET after[k \in 0..Len(steps)] == IF k = 0 THEN base ELSE steps[k][after[k-1]]
  IN after[Len(steps)]

-----------------------------------------------------------------------------
(* mitre_attack_stix.py *)

\* More than one ATT&CK identifier on one object is refused.
attack_external_id(o) == Cardinality(o.refs) <= 1

\* The place of an object in the bundle is part of its record.
parse_bundle(doc, snapshot) ==
  IF /\ doc.type = "bundle" /\ doc.objects # <<>>
     /\ \A o \in ToSet(doc.objects) : o.type # "" /\ o.id # "" /\ attack_external_id(o)
     /\ Distinct(doc.objects, LAMBDA o : o.id)
  THEN {LET o == doc.objects[i]
        IN Psr("attack", snapshot, o.type, o.id,
               {<<"stix_id", o.id>>} \union {<<"attack_id", r>> : r \in o.refs}, o.native, o.extra, i)
        : i \in DOMAIN doc.objects}
  ELSE {}

-----------------------------------------------------------------------------
(* mitre_car_yaml.py *)

parse_car(doc, snapshot) ==
  IF doc.id \in Shaped["car_id"] /\ doc.title # ""
  THEN {Psr("car", snapshot, "mitre-car-analytic", doc.id, {<<"car_id", doc.id>>},
            [title |-> doc.title, description |-> doc.description], doc.extra, doc.id)}
  ELSE {}

-----------------------------------------------------------------------------
(* mitre_d3fend_turtle.py.  The triples of a subject and of a blank node   *)
(* are sequences, in the order in which the parser visits them, and the    *)
(* techniques are in the order of their identifiers, the well-formed ones  *)
(* and others.                                                             *)

_collect_subject_ids(doc) == {i \in DOMAIN doc.techniques : doc.techniques[i].id \in Shaped["d3fend_id"]}

\* The value of a triple: a copy of the structure it points to, or a text.
ValueOf_Label(structures, x) == IF x.node = "" THEN [text |-> x.text] ELSE [text |-> x.node]
ValueOf(structures, x) ==
  IF x.node = "" THEN [text |-> x.text] ELSE [text |-> "", structure |-> structures[x.node]]
PropertiesOf(structures, triples) ==
  {[predicate |-> x.predicate, value |-> ValueOf(structures, x)] : x \in ToSet(triples)}

\* The structure of each node from which no cycle is reached: a way that passes
\* no node twice is no longer than there are nodes.
Structures(nodes) ==
  LET size == Cardinality(DOMAIN nodes)
      structure[k \in 0..size] ==
        IF k = 0 THEN [n \in DOMAIN nodes |-> {}]
        ELSE [n \in DOMAIN nodes |-> PropertiesOf(structure[k-1], nodes[n])]
  IN structure[size]

\* A visit of a node: the structures in the cache, the nodes on the way to it,
\* the edges so far.
Visit(nodes) ==
  [cache : SUBSET DOMAIN nodes, stack : SUBSET DOMAIN nodes, edges : Nat, ok : BOOLEAN]

\* A structure that is known costs none of the edges that this root may have.
Follow(deeper, b, x) ==
  LET c == [b EXCEPT !.edges = @ + 1, !.ok = @ /\ b.edges < MaxEdges]
  IN IF c.ok /\ x.node # "" THEN deeper[x.node][c] ELSE c

Enter(nodes, deeper, n, v) ==
  LET done == Iterated([i \in DOMAIN nodes[n] |-> [b \in Visit(nodes) |-> Follow(deeper, b, nodes[n][i])]],
                       [v EXCEPT !.stack = @ \union {n}])
  IN IF n \in v.cache \/ ~v.ok THEN v
     ELSE IF n \in v.stack THEN [v EXCEPT !.ok = FALSE]
     ELSE IF ~done.ok THEN done
     ELSE [done EXCEPT !.stack = @ \ {n}, !.cache = @ \union {n}]

\* Every level below the root costs an edge, so a visit never is at level 0.
Blank(nodes) ==
  LET blank[k \in 0..MaxEdges + 1] ==
        IF k = 0 THEN [n \in DOMAIN nodes |-> [v \in Visit(nodes) |-> v]]
        ELSE [n \in DOMAIN nodes |-> [v \in Visit(nodes) |-> Enter(nodes, blank[k-1], n, v)]]
  IN blank[MaxEdges + 1]

_stable_unknown_value(nodes, v, x) ==
  IF x.node = "" THEN v ELSE Blank(nodes)[x.node][[v EXCEPT !.stack = {}, !.edges = 0]]

Subject(t) == CHOOSE u \in t.subjects : TRUE

Named(t) ==
  /\ Cardinality(t.subjects) = 1 /\ Subject(t).named
  /\ Cardinality(Subject(t).labels) = 1 /\ Cardinality(Subject(t).definitions) <= 1

\* The cache is kept from one technique to the next.
Technique(nodes, v, t) ==
  IF ~v.ok \/ ~Named(t) THEN [v EXCEPT !.ok = FALSE]
  ELSE LET unknown == Subject(t).unknown
       IN Iterated([i \in DOMAIN unknown |-> [b \in Visit(nodes) |-> _stable_unknown_value(nodes, b, unknown[i])]], v)

Record(nodes, snapshot, t) ==
  LET u == Subject(t)
  IN Psr("d3fend", snapshot, "d3fend-defensive-technique", u.iri, {<<"d3fend_id", t.id>>, <<"iri", u.iri>>},
         [label |-> CHOOSE l \in u.labels : TRUE, definitions |-> u.definitions],
         PropertiesOf(Structures(nodes), u.unknown), u.iri)

parse_d3fend(doc, snapshot) ==
  LET ids  == _collect_subject_ids(doc)
      read == Iterated([i \in DOMAIN doc.techniques |-> [v \in Visit(doc.nodes) |->
                          IF i \in ids THEN Technique(doc.nodes, v, doc.techniques[i]) ELSE v]],
                       [cache |-> {}, stack |-> {}, edges |-> 0, ok |-> TRUE])
  IN IF read.ok THEN {Record(doc.nodes, snapshot, doc.techniques[i]) : i \in ids} ELSE {}

-----------------------------------------------------------------------------
(* defenseops_export.py *)

export_digest(doc) == doc.records

Export(r) ==
  /\ r.id # ""
  /\ r.type \in {"detection", "hunt", "engineering", "response"}
  /\ r.review \in {"unreviewed", "reviewed", "validated", "rejected"}
  /\ r.license \in {"verified", "restricted", "unknown"}
  /\ r.refs # {} /\ r.telemetry # {}

parse_export(doc, snapshot) ==
  IF /\ doc.digest = export_digest(doc) /\ doc.records # <<>>
     /\ \A r \in ToSet(doc.records) : Export(r)
     /\ Distinct(doc.records, LAMBDA r : r.id)
  THEN {LET r == doc.records[i]
        IN Psr("defenseops", snapshot, "defenseops-" \o r.type, r.id, {<<"defenseops_content_id", r.id>>},
               r, {}, i)
        : i \in DOMAIN doc.records}
  ELSE {}

-----------------------------------------------------------------------------
(* microsoft_sysmon_markdown.py *)

parse_markdown(doc, snapshot) ==
  IF /\ Cardinality(doc.releases) = 1 /\ Cardinality(doc.dates) = 1 /\ doc.headings # <<>>
     /\ Distinct(doc.headings, LAMBDA h : h.event)
  THEN {LET h == doc.headings[i]
        IN Psr("sysmon-docs", snapshot, "sysmon-event-heading", h.event, {<<"event_id", h.event>>},
               [title |-> h.title, release |-> CHOOSE r \in doc.releases : TRUE], {}, h.line)
        : i \in DOMAIN doc.headings}
  ELSE {}

-----------------------------------------------------------------------------
(* microsoft_sysmon_schema.py: a document is a sequence of manifests *)

_event_id_numeric_value(text) == Number[text]

\* Two spellings of one number are one event.
SameEvent(d, e) == _event_id_numeric_value(d.event) = _event_id_numeric_value(e.event)

SchemaEvents(events) ==
  /\ events # <<>> /\ Len(events) <= MaxEvents
  /\ \A e \in ToSet(events) :
       /\ "" \notin {e.event, e.name, e.level, e.template}
       /\ e.event \in DOMAIN Number /\ e.version \in Digits
       /\ Len(e.fields) <= MaxFields /\ "" \notin ToSet(e.fields) /\ IsInjective(e.fields)
  /\ \A i, j \in DOMAIN events : SameEvent(events[i], events[j]) => i = j

SchemaManifests(doc) ==
  /\ doc # <<>> /\ Len(doc) <= MaxManifests
  /\ \A m \in ToSet(doc) : m.schema \in Shaped["schema_version"] /\ m.binary \in Shaped["binary_version"]
  /\ Distinct(doc, LAMBDA m : m.schema)

parse_text(doc, snapshot) ==
  IF SchemaManifests(doc) /\ \A m \in ToSet(doc) : SchemaEvents(m.events)
  THEN UNION {
    {Psr("sysmon-schema", snapshot, "sysmon-schema-event", <<m.schema, e.event>>,
         {<<"event_id", e.event>>, <<"schema_version", m.schema>>},
         [provider |-> "Microsoft-Windows-Sysmon", channel |-> "Microsoft-Windows-Sysmon/Operational",
          schema |-> m.schema, event |-> e.event, number |-> _event_id_numeric_value(e.event),
          version |-> e.version, title |-> e.template, fields |-> e.fields],
         m.extra \union e.extra, <<m.schema, e.event>>)
     : e \in ToSet(m.events)} : m \in ToSet(doc)}
  ELSE {}

-----------------------------------------------------------------------------
(* microsoft_windows_provider_metadata.py *)

\* The names of the data elements, each once.
_template_fields(template) ==
  FoldLeft(LAMBDA s, name : IF name = "" \/ name \in ToSet(s) THEN s ELSE Append(s, name), <<>>, template)

parse_document(doc, snapshot) ==
  IF /\ doc.provider # "" /\ doc.guid # "" /\ doc.structural /\ ~doc.descriptions /\ doc.events # <<>>
     /\ \A e \in ToSet(doc.events) : {e.event, e.version} \subseteq Digits /\ e.channel # ""
     /\ Distinct(doc.events, LAMBDA e : <<e.event, e.version, e.channel>>)
  THEN {LET e == doc.events[i]
        IN Psr("provider", snapshot, "windows-event-provider-definition", <<e.event, e.version, e.channel>>,
               {<<"event_id", e.event>>},
               [event |-> e.event, version |-> e.version, channel |-> e.channel, provider |-> doc.provider,
                guid |-> doc.guid, fields |-> _template_fields(e.template)],
               doc.extra \union e.extra, i)
        : i \in DOMAIN doc.events}
  ELSE {}

-----------------------------------------------------------------------------
(* microsoft_windows_security_event_html.py: a page is a sequence of       *)
(* opening and closing tags of a script, and of labelled texts             *)

VisibleTextParser(page) ==
  FoldLeft(LAMBDA s, t :
             IF t.tag = "open" THEN [s EXCEPT !.skip_depth = @ + 1]
             ELSE IF t.tag = "close" THEN [s EXCEPT !.skip_depth = IF @ > 0 THEN @ - 1 ELSE 0]
             ELSE IF s.skip_depth = 0 THEN [s EXCEPT !.parts = Append(@, t)] ELSE s,
           [skip_depth |-> 0, parts |-> <<>>], page)

_visible_text(page) == VisibleTextParser(page).parts

Labelled(text, label) == {t.value : t \in {t \in ToSet(text) : t.tag = "text" /\ t.label = label}}

_single(text, label) == Cardinality(Labelled(text, label)) = 1

_event_versions(visible) == Labelled(visible, "version")

_event_heading(visible) ==
  {<<t.value, t.title>> : t \in {t \in ToSet(visible) : t.label = "heading"}}

\* What is looked for in the whole page, and in its visible text.
InPage    == {"EventID", "Provider", "Channel", "Version", "Task", "Opcode", "Keywords"}
InVisible == {"Subcategory", "MinimumOS", "Updated"}

parse_html(page, snapshot) ==
  LET visible  == _visible_text(page)
      headings == _event_heading(visible)
      heading  == CHOOSE h \in headings : TRUE
      Only(label) == CHOOSE v \in Labelled(page, label) : TRUE
  IN IF /\ Cardinality(headings) = 1 /\ heading[1] \in Digits
        /\ \A l \in InPage : _single(page, l)
        /\ \A l \in InVisible : _single(visible, l)
        /\ Only("EventID") = heading[1]
        /\ Labelled(page, "Data") # {} /\ _event_versions(visible) # {}
     THEN {Psr("security-doc", snapshot, "windows-security-event-documentation", heading[1],
               {<<"event_id", heading[1]>>},
               [event |-> heading[1], title |-> heading[2], provider |-> Only("Provider"),
                channel |-> Only("Channel"), versions |-> _event_versions(visible)],
               {}, heading[1])}
     ELSE {}

-----------------------------------------------------------------------------

Parse(source, doc, snapshot) ==
  CASE source = "attack"        -> parse_bundle(doc, snapshot)
    [] source = "car"           -> parse_car(doc, snapshot)
    [] source = "d3fend"        -> parse_d3fend(doc, snapshot)
    [] source = "defenseops"    -> parse_export(doc, snapshot)
    [] source = "sysmon-docs"   -> parse_markdown(doc, snapshot)
    [] source = "sysmon-schema" -> parse_text(doc, snapshot)
    [] source = "provider"      -> parse_document(doc, snapshot)
    [] source = "security-doc"  -> parse_html(doc, snapshot)
=============================================================================
