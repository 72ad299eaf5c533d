---------------------------- MODULE MCSearchCore ----------------------------
(* An instance of SearchCore for TLC, of two families.  In one, two builders  *)
(* and a reader work with five bundles: a plain one, one with two and with no *)
(* primary identifiers, one that cannot be stored, one that was altered, and  *)
(* one with an edge that leads out of it;                                     *)
(* queries are asked of the first two.  In the other a core is open over four *)
(* documents and any small graph, and expansions are asked for.  What is open *)
(* does not depend on what is stored afterwards, so requests are made while   *)
(* no build is under way and after no fault.                                  *)
EXTENDS SearchCore

(* the texts in their order *)
SysmonSpace == 5    SecuritySpace == 6
Ten == 7            Two == 8          \* "10" comes before "2"
Sysmon == 9         sysmon == 10      WideSysmon == 20
windows == 11       event == 12       event_id == 13
Id == 14            process == 15     current == 16
legacy == 17        v1 == 18          Process_10 == 19

Texts == 0..20
Normal(t) == IF t = WideSysmon THEN Sysmon ELSE t
Nfkcs == [t \in Texts |-> Normal(t)]
Folds == [t \in Texts |-> IF Normal(t) = Sysmon THEN sysmon ELSE Normal(t)]
WordSeqs == [t \in Texts |-> IF t = Process_10 THEN <<process, Ten>> ELSE <<Folds[t]>>]
Parts == {<<s, t>> \in (1..20) \X (1..20) : Folds[s] \in {WordSeqs[t][i] : i \in DOMAIN WordSeqs[t]}}
Decimals == (Ten :> 10) @@ (Two :> 2)

Keys == {"platform", "product", "provider", "channel", "namespace", "type", "lifecycle", "version"}
Scopes == (sysmon :> (("namespace" :> SysmonSpace) @@ ("product" :> sysmon)))
          @@ (windows :> (("namespace" :> SecuritySpace) @@ ("platform" :> windows)))
EventWords == <<event, Id>>

Facets(ns, platform, product, lifecycle, version) ==
  [k \in Keys |-> CASE k = "namespace" -> ns [] k = "platform" -> platform [] k = "product" -> product
                    [] k = "type" -> event [] k = "lifecycle" -> lifecycle [] k = "version" -> version
                    [] OTHER -> 0]

Ident(type, value, primary) ==
  [type |-> type, value |-> value, namespace |-> 0, case |-> FALSE, primary |-> primary,
   numeric |-> type = event_id]
Exact(value) == [Ident(Id, value, FALSE) EXCEPT !.case = TRUE, !.namespace = SysmonSpace]
Alias(words) == [value |-> words, kind |-> "alias", case |-> FALSE]

Record(id, facets, title, ids, aliases) ==
  [id |-> id, facets |-> facets, title |-> title, description |-> process, ids |-> ids, aliases |-> aliases]

R1 == Record(1, Facets(SysmonSpace, windows, sysmon, current, v1), Process_10,
             {Ident(event_id, Ten, TRUE), Exact(Sysmon)}, {Alias(<<Sysmon, Two>>)})
R2 == Record(2, Facets(SecuritySpace, windows, 0, legacy, 0), windows,
             {Ident(event_id, Two, TRUE), Ident(Id, Ten, FALSE)}, {Alias(<<process>>)})
R3 == Record(3, Facets(SysmonSpace, 0, Sysmon, legacy, 0), process,
             {Ident(event_id, Two, FALSE), Ident(Id, Ten, TRUE), Ident(event_id, Ten, FALSE)}, {})
Bare   == Record(3, Facets(SysmonSpace, 0, Sysmon, legacy, 0), process, {}, {Alias(<<process>>)})
Double == [R2 EXCEPT !.ids = {Ident(event_id, Two, TRUE), Ident(Id, Ten, TRUE)}]
Twice  == [R2 EXCEPT !.ids = {Ident(event_id, Two, TRUE), Ident(event_id, Two, FALSE)}]

Path == {[source |-> 1, type |-> 2, target |-> 2], [source |-> 3, type |-> 2, target |-> 2],
         [source |-> 2, type |-> 1, target |-> 3]}
Plain    == build_phase544_bundle([records |-> {R1, R2, R3}, edges |-> Path])
Uneven   == build_phase544_bundle([records |-> {R1, Double, Bare}, edges |-> {}])
Unstored == build_phase544_bundle([records |-> {R1, Twice}, edges |-> {}])
Altered  == [Plain EXCEPT !.body.edges = {}]
Loose    == LET body == [Uneven.body EXCEPT !.edges = {[source |-> 1, type |-> 2, target |-> 4]}]
            IN [ok |-> FALSE, body |-> body, digest |-> body]
Bundles  == {Plain, Uneven, Unstored, Altered, Loose}

ASSUME InstanceAssumption == \A b \in Bundle : WellMade(b.body)

W(t) == [key |-> "", value |-> t]
F(k, t) == [key |-> k, value |-> t]
Terms == {W(1), W(Ten), W(Two), W(Sysmon), W(WideSysmon), W(windows), W(process), W(Process_10),
          F("product", sysmon), F("lifecycle", legacy), F("version", v1), F("platform", windows)}
Queries ==
  UNION {[1..n -> Terms] : n \in 1..2}
  \union {<<W(event), W(Id), W(Ten)>>, <<>>}
  \union {<<W(Sysmon), W(Ten), t>> : t \in {t \in Terms : t.key # ""}}
  \union {<<F("lifecycle", current), W(Ten), F("lifecycle", legacy)>>}

Documents == 1..4
Types     == 1..2
Followed  == {2}
Deep  == {e \in Edge : e.type = 2 /\ e.source # e.target}
Mixed == {e \in Edge : {e.source, e.target} \subseteq 1..2}
SmallGraphs ==
  {G \in SUBSET Deep : Cardinality(G) <= 3} \union {{e, f} : e, f \in Mixed} \union {Path}

Four == {Record(i, Facets(SysmonSpace, 0, 0, 0, 0), process, {}, {}) : i \in Documents}
Wide(G) == build_phase544_bundle([records |-> Four, edges |-> G])

MCInit ==
  \/ SearchInit
  \/ /\ Init /\ answer = NoAnswer /\ trouble = 0 /\ litter = 0
     /\ build = [b \in Builder |-> Resting]
     /\ index = <<Committed(Wide(edges))>>
     /\ core = [bundle |-> <<Wide(edges)>>, rows |-> <<Rows(Wide(edges).body)>>]

Asking == trouble = 0 /\ \A b \in Builder : build[b] = Resting
Small  == ToSet(core.bundle) \subseteq Bundle

MCNext ==
  \/ /\ Small /\ Quiet /\ answer = NoAnswer
     /\ \/ \E b \in Builder : StartBuild(b) \/ Populate(b) \/ Spoil(b) \/ Publish(b) \/ KillBuild(b)
        \/ DamageIndex \/ Open \/ Close
  \/ Asking /\ Small /\ core # NoCore /\ index = <<Committed(core.bundle[1])>> /\ ResolveWithGraph
  \/ (IF Small THEN answer # NoAnswer ELSE TRUE) /\ GraphStep

MCSpec == MCInit /\ [][MCNext]_search
=============================================================================
