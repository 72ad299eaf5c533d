------------------------------ MODULE MCIngest ------------------------------
(* An instance of Ingest for TLC: a few documents of each source, chosen to  *)
(* be accepted, to be refused, to have two records of one identity or two    *)
(* spellings of one number, and to shrink from a release to the next.  ATT&CK, *)
(* CAR, DefenseOps and the Windows provider go on to a build.                *)
EXTENDS Ingest

Numbers == ("1" :> 1) @@ ("2" :> 2) @@ ("10" :> 10) @@ ("02" :> 2) @@ ("0x2" :> 2)
Decs == {"1", "2", "10", "02"}
Spelt == (1 :> "1") @@ (2 :> "2") @@ (10 :> "10")
InText == <<"02", "1", "10", "2">>
Shapes == [attack_id |-> {"T1", "T2"}, car_id |-> {"CAR-1"}, d3fend_id |-> {"D3-A", "D3-B"},
           event_id |-> Decs, key |-> {"det-1", "hunt-1"},
           schema_version |-> {"4.8", "4.9"}, binary_version |-> {"15"}]
Lowers == ("T1" :> "t1") @@ ("T2" :> "t2") @@ ("CAR-1" :> "car-1") @@ ("D3-A" :> "d3-a")
          @@ ("D3-B" :> "d3-b") @@ ("DET-1" :> "det-1")

(* ATT&CK *)
Stix(type, id, refs, name, revoked, deprecated, description) ==
  [type |-> type, id |-> id, refs |-> refs, extra |-> {},
   native |-> [name |-> name, revoked |-> revoked, deprecated |-> deprecated, created |-> "",
               description |-> description]]
Technique1 == Stix("attack-pattern", "s1", {"T1"}, "one", "false", "false", "text")
Technique2 == Stix("attack-pattern", "s2", {"T2"}, "two", "", "false", "")
Malware    == Stix("malware", "s3", {}, "three", "", "", "")
Bundle(objects) == [type |-> "bundle", objects |-> objects]
Attack ==
  [r1 |-> Bundle(<<Technique1, Technique2, Malware>>),
   r2 |-> Bundle(<<Technique1>>)]

(* CAR *)
Car == [r1 |-> [id |-> "CAR-1", title |-> "a", description |-> "text", extra |-> {"author"}],
        r2 |-> [id |-> "CAR", title |-> "a", description |-> "", extra |-> {}]]

(* D3FEND: triples to blank nodes that share one, and that form a cycle *)
Lit(predicate, text) == [predicate |-> predicate, node |-> "", text |-> text]
Ref(predicate, node) == [predicate |-> predicate, node |-> node, text |-> ""]
Tech(id, unknown) ==
  [id |-> id, subjects |-> {[iri |-> id, named |-> TRUE, labels |-> {id}, definitions |-> {"text"}, unknown |-> unknown]}]
D3fend ==
  [r1 |-> [techniques |-> <<Tech("D3-A", <<Ref("p", "b1"), Lit("q", "x")>>), Tech("D3-B", <<Ref("p", "b2"), Ref("q", "b1")>>)>>,
           nodes |-> ("b1" :> <<Lit("r", "y")>>) @@ ("b2" :> <<Ref("r", "b1"), Ref("s", "b3")>>) @@ ("b3" :> <<Lit("r", "z")>>)],
   r2 |-> [techniques |-> <<Tech("D3-A", <<Ref("p", "b1")>>)>>,
           nodes |-> ("b1" :> <<Ref("r", "b2")>>) @@ ("b2" :> <<Ref("r", "b1")>>)],
   r3 |-> [techniques |-> <<[Tech("D3-A", <<>>) EXCEPT !.subjects = {[u EXCEPT !.definitions = {"s", "t"}] : u \in @}]>>,
           nodes |-> ("b1" :> <<>>)],
   r4 |-> [techniques |-> <<Tech("D3-A", <<Ref("p", "b1")>>)>>,
           nodes |-> ("b1" :> [i \in 1..4 |-> Lit("r", "x")])]]

(* DefenseOps *)
Item(id, type, reviewed, license) ==
  [id |-> id, type |-> type, review |-> reviewed, license |-> license, refs |-> {"T1"}, telemetry |-> {"1"}]
Exported(records) == [digest |-> records, records |-> records]
Defenseops ==
  [r1 |-> Exported(<<Item("DET-1", "detection", "validated", "verified"), Item("hunt-1", "hunt", "reviewed", "unknown")>>),
   r2 |-> Exported(<<Item("DET-1", "detection", "validated", "verified"), Item("det-1", "detection", "rejected", "verified")>>),
   r3 |-> [digest |-> <<>>, records |-> <<Item("DET-1", "detection", "validated", "verified")>>]]

(* Sysmon: documentation and schema *)
Heading(event, title) == [event |-> event, title |-> title, line |-> 1]
Markdown(release, headings) == [releases |-> {release}, dates |-> {"d"}, headings |-> headings]
SysmonDocs ==
  [r1 |-> Markdown("r1", <<Heading("2", "b"), Heading("10", "c")>>),
   r2 |-> Markdown("r9", <<Heading("2", "b")>>),
   r3 |-> Markdown("r3", <<Heading("2", "b"), Heading("02", "b")>>)]

Event(event) == [event |-> event, version |-> "1", name |-> "n", level |-> "4", template |-> "t", fields |-> <<"f", "g">>, extra |-> {}]
Schema(version, events) == [schema |-> version, binary |-> "15", extra |-> {}, events |-> events]
SysmonSchema ==
  [r1 |-> <<Schema("4.9", <<Event("1"), Event("0x2")>>), Schema("4.8", <<Event("2")>>)>>,
   r2 |-> <<Schema("4.9", <<Event("2"), Event("0x2")>>)>>]

(* Windows: provider metadata and documentation *)
Definition(event, version) ==
  [event |-> event, version |-> version, channel |-> "Security", template |-> <<"f", "", "f">>, extra |-> {}]
Metadata(events) == [provider |-> "Auditing", guid |-> "g", structural |-> TRUE, descriptions |-> FALSE, extra |-> {}, events |-> events]
Provider ==
  [r1 |-> Metadata(<<Definition("1", "1"), Definition("1", "2"), Definition("2", "1")>>),
   r2 |-> [Metadata(<<Definition("1", "1")>>) EXCEPT !.descriptions = TRUE]]

Text(label, value, title) == [tag |-> "text", label |-> label, value |-> value, title |-> title]
Tag(tag) == [tag |-> tag, label |-> "", value |-> "", title |-> ""]
Page(id) ==
  <<Text("heading", "2", "t"), Text("EventID", id, ""), Text("Provider", "Auditing", ""), Text("Channel", "Security", ""),
    Text("Version", "0", ""), Text("Task", "1", ""), Text("Opcode", "0", ""), Text("Keywords", "k", ""),
    Text("Subcategory", "s", ""), Text("MinimumOS", "o", ""), Text("Updated", "d", ""), Text("Data", "f", ""),
    Tag("open"), Text("heading", "1", "hidden"), Tag("close"), Text("version", "0", "")>>
SecurityDoc == [r1 |-> Page("2"), r2 |-> Page("1"), r3 |-> Tail(Page("2"))]

Documents ==
  ("attack" :> Attack) @@ ("car" :> Car) @@ ("d3fend" :> D3fend) @@ ("defenseops" :> Defenseops)
  @@ ("sysmon-docs" :> SysmonDocs) @@ ("sysmon-schema" :> SysmonSchema)
  @@ ("provider" :> Provider) @@ ("security-doc" :> SecurityDoc)

Scope(s) == IF s \in {"sysmon-docs", "sysmon-schema"}
                 THEN <<"Microsoft-Windows-Sysmon", "Microsoft-Windows-Sysmon/Operational">> ELSE <<"Auditing", "Security">>
Profile(s, release) ==
  LET body == [source |-> s, normalizer |-> s, release |-> release, schema |-> "1.0.0",
               domain |-> "enterprise-attack", current |-> "4.9",
               namespace |-> IF s \in DOMAIN Namespace THEN Namespace[s] ELSE "",
               lifecycle_rule |-> IF s \in DOMAIN LifecycleRule THEN LifecycleRule[s] ELSE "",
               provider |-> Scope(s)[1], channel |-> Scope(s)[2]]
  IN [digest |-> body, body |-> body]
Pinnings == [s \in DOMAIN Documents |-> {Profile(s, r) : r \in DOMAIN Documents[s]}]

Releases == ("r1" :> "r2") @@ ("r2" :> "r3")
Sources == {"attack", "car", "defenseops", "provider"}
Actors == {<<"a", "a">>, <<"a", "b">>}
=============================================================================
