--------------------------- MODULE MCReferencePack ---------------------------
(* An instance of ReferencePack and PackBuild for TLC.  Three good packs of   *)
(* one pack id, two of them of the same version, an older one that only newer *)
(* metadata carries, and archives with one defect each.  The builder and the  *)
(* installations share nothing but the finished archive, so a behaviour is    *)
(* one of the builder or one of the installations.  The builder also packs    *)
(* the directories that the preview's release signs (PreviewPack).            *)
EXTENDS ReferencePack, PreviewPack, PackBuild

CONSTANTS p1, p2

Names == {"metadata", "targets", "atlas", "content", "search", "root.json", "timestamp.json",
          "snapshot.json", "targets.json", "2.root.json", "pack-manifest.json",
          "source-license-inventory.json", "records", "projection", "index", "a", "A", "x", "y",
          "NUL", "run.js", "extra"}
Lower == [n \in Names |-> IF n = "A" THEN "a" ELSE n]
Reserved == {"NUL"}
Scripts  == {"run.js"}

-----------------------------------------------------------------------------
(* contents, each with a digest of its own *)
Canonical(ok)  == [kind |-> "canonical", digest |-> <<"canonical", ok>>, lines |-> <<TRUE, ok>>]
Spc(v)  == [kind |-> "spc", digest |-> <<"spc", v>>, valid |-> TRUE]
Index(v)       == [kind |-> "index", digest |-> <<"index", v>>, of |-> <<"spc", v>>]
Other          == [kind |-> "other", digest |-> <<"other">>]

Src(license) == [source |-> "s", wellFormed |-> TRUE, scope |-> "included", license |-> license]
Licences(v, license) ==
  [kind |-> "inventory", digest |-> <<"inventory", v, license>>, schema |-> TRUE, id |-> "pack",
   version |-> v, entries |-> <<Src(license)>>]
Free(v) == Licences(v, "verified-redistributable")

Records  == <<"content", "records">>
Search   == <<"search", "projection">>
Prebuilt == <<"search", "index">>

Body(v, name) ==
  [kind |-> "manifest", digest |-> <<"manifest", name>>, schema |-> TRUE, id |-> "pack", version |-> v,
   runtime |-> 1, canonical |-> Canonical(TRUE).digest, spc |-> Spc(v).digest,
   inventory |-> Free(v).digest,
   artifacts |-> <<Art(Records, "canonical-records", FALSE, Canonical(TRUE)),
                   Art(Search, "spc", TRUE, Spc(v))>>]

Known == {Canonical(TRUE), Canonical(FALSE), Spc(1), Spc(2), Index(1), Index(2), Other}

\* The files that a manifest stands for, at the paths it names.
Targets(m) ==
  {<<Manifest, m>>}
  \union {<<Inventory, v>> : v \in {v \in {Free(1), Free(2), Licences(1, "unknown")} : v.digest = m.inventory}}
  \union UNION {{<<m.artifacts[i].path, c>> : c \in {c \in Known : c.digest = m.artifacts[i].digest}} :
                   i \in DOMAIN m.artifacts}

Whole(n, m) == Tree(Signed(n, Targets(m)), Targets(m))
Es(tree)    == Entries(tree)

-----------------------------------------------------------------------------
(* packs *)
One    == Body(1, "one")
Two    == [Body(2, "two") EXCEPT !.artifacts = Append(@, Art(Prebuilt, "search-index", TRUE, Index(2)))]
TwoBis == [Body(2, "bis") EXCEPT !.artifacts = Append(@, Art(Prebuilt, "search-index", TRUE, Index(1)))]

\* A pack that must not be redistributed, signed all the same.
Unlicensed == [One EXCEPT !.digest = <<"manifest", "licence">>, !.inventory = Licences(1, "unknown").digest]

\* Defects of the tree: a file that nobody declared, one that is missing, one
\* that is not what was signed, metadata that is not signed or not there.
Unsigned == [Signed(4, Targets(One)) EXCEPT !.signed = FALSE]
Forms ==
  UNION {{w \union {[path |-> <<"targets", "content", "extra">>, data |-> Other]},
          w \ {[path |-> <<"targets">> \o Records, data |-> Canonical(TRUE)]},
          {IF f.data.kind = "spc" THEN [f EXCEPT !.data = Spc(2)] ELSE f : f \in w},
          {IF f.data.kind = "metadata" THEN [f EXCEPT !.data = Unsigned] ELSE f : f \in w}} :
         w \in {Whole(3, One)}}

\* Defects of the archive.
Wires ==
  UNION {{[es EXCEPT ![Len(es)].actual = 2], Append(es, [es[1] EXCEPT !.path = <<"extra">>])} :
         es \in {Es(Whole(3, One))}}

Trees == {Whole(x[1], x[2]) : x \in {<<1, One>>, <<2, Two>>, <<3, TwoBis>>, <<3, One>>, <<2, Unlicensed>>}}
OfferedSet == {Es(t) : t \in Trees \union Forms} \union Wires
Offered == Listing(OfferedSet)
Offers  == DOMAIN Offered
Symmetry == Permutations(Proc)

\* The files below targets, pairs of a path and a content.
TargetsOf(tree) == {<<Tail(f.path), f.data>> : f \in {f \in tree : f.path[1] = "targets"}}

-----------------------------------------------------------------------------
(* sources of the builder: a pack, its next version, and a pack whose         *)
(* artifacts lie in directories that differ in case only, or one of them in a  *)
(* directory whose name is that of the other one but for case                 *)
Cased(d) == [Body(1, d) EXCEPT !.artifacts =
  @ \o <<Art(<<"content", "A", "x">>, "other", FALSE, Other), Art(<<"content", d, "y">>, "other", FALSE, Other)>>]
Mixed    == [Body(1, "mixed") EXCEPT !.artifacts =
  @ \o <<Art(<<"content", "A", "x">>, "other", FALSE, Other), Art(<<"content", "a">>, "other", FALSE, Other)>>]
Folders  == {Whole(1, One), Whole(2, Two), Whole(1, Cased("A")), Whole(1, Cased("a")), Whole(1, Mixed)}
              \union {Whole(2, [One EXCEPT !.digest = <<"manifest", "runtime">>, !.runtime = 9])}

\* Previews: an exemplar that replaces a fixture and a document of the catalog,
\* two items with one identifier, and two corpora that are refused.
Win == <<"event", "w1">>    Sys == <<"event", "s1">>    Lin == <<"event", "l1">>
Security == "1" :> Win
Overrides == {Win}
Demanded == {Sys}
Item(id, native, title, overview) == [id |-> id, native |-> native, title |-> title, overview |-> overview]
Blueprint(items) == [approved |-> TRUE, sources |-> {Record("source", <<"source", "a">>, "", FALSE, <<>>, 0)}, items |-> items]
Fixtures == {Record("event", Win, "old", FALSE, <<>>, 0), Record("event", Lin, "other", FALSE, <<>>, 0)}
Catalog  == {[id |-> Win, title |-> "old", description |-> 1], [id |-> <<"event", "c1">>, title |-> "old", description |-> 1]}
Exemplars == {<<Item(Win, "1", "new", 2), Item(Sys, "", "s", 3)>>,
              <<Item(Win, "1", "new", 2), Item(Sys, "", "s", 4), Item(Sys, "", "t", 3)>>,
              <<Item(Win, "1", "new", 2)>>, <<Item(Win, "1", "new", 2), Item(Sys, "", "s", 3), Item(Lin, "", "l", 1)>>}
Previews == {make_signed_repository(Fixtures, Blueprint(x), Catalog, 1) : x \in Exemplars} \ {{}}
Sources  == Folders \union Previews

\* What the signer leaves is whole: signed metadata for exactly the files below
\* targets, which are the two control files and the artifacts of the manifest,
\* each once; names that the file system keeps apart; and documents that agree
\* with the records.  A digest names one content.
Signable(t) ==
  LET ts == TargetsOf(t)
  IN /\ IsFiniteSet(t)
     /\ \A f \in t : f.path \in Seq(Component) \ {<<>>}
     /\ \E f \in File(t, <<"metadata", "targets.json">>) :
          f.data = Signed(f.data.version, ts) /\ t = Tree(f.data, ts)
     /\ \A x, y \in ts : x[1] = y[1] => x = y
     /\ \E x \in ts :
          x[1] = Manifest /\ {y[1] : y \in ts} = Control \union {x[2].artifacts[i].path : i \in DOMAIN x[2].artifacts}
     /\ \A m, n \in Directory(t) : Same(m.path, n.path) => m = n
     /\ Faithful(t)

ASSUME SourceAssumption ==
  /\ \A t \in Source : Signable(t)
  /\ \A s, t \in Source : \A x \in TargetsOf(s), y \in TargetsOf(t) : x[2].digest = y[2].digest => x[2] = y[2]

Unbuilt     == source = Whole(1, One) /\ step = "idle" /\ out = {} /\ changes = 0 /\ kills = 0
Uninstalled == time = 0 /\ lock = <<>> /\ pc = [p \in Proc |-> "idle"]

MCInit == Init /\ BuildInit
MCNext ==
  \/ Unbuilt /\ Next /\ UNCHANGED building
  \/ Uninstalled /\ BuildNext /\ UNCHANGED vars
MCSpec == MCInit /\ [][MCNext]_<<vars, building>>

\* What is published installs, and the search projection in it shows every
\* event as its canonical record has it, approved exemplars included
\* (build_verified_atlaspack, make_signed_repository).
PublishedInstalls == Installable /\ Faithful(out)

\* The directory that the release signs is never refused by the builder it is
\* handed to (make_signed_repository, build_verified_atlaspack).
PreviewNeverRefused ==
  [][(source \in Previews /\ changes' = 0 /\ step \in {"verify", "zip", "roundtrip"} /\ step' = "idle")
     => kills' # kills]_building
=============================================================================
