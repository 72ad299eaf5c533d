------------------------------ MODULE PackBuild ------------------------------
(***************************************************************************)
(* The builder of archives (tools/pack/builder.py): it verifies a signed   *)
(* source directory, packs it, extracts the result and verifies it again,  *)
(* and only then replaces the published archive.  The source belongs to    *)
(* somebody else and may be exchanged at any moment, also between the      *)
(* reads of two of its files.  The bounds that the builder itself puts on  *)
(* sizes and entries are left out: the second extraction repeats them.     *)
(***************************************************************************)
EXTENDS PackContents, FiniteSetsExt

CONSTANTS
  Source,       \* directories that the signer may leave: sets of [path, data]
  MaxChanges, MaxBuildKills

VARIABLES
  source,   \* content of the source directory
  listed,   \* paths found by _source_files, in order
  temp,     \* the archive under construction: {} or its files
  out,      \* the published archive: {} or its files
  step,     \* of build_verified_atlaspack
  changes, kills

building == <<source, listed, temp, out, step, changes, kills>>

BuildInit ==
  /\ source \in Source /\ listed = <<>> /\ temp = {} /\ out = {}
  /\ step = "idle" /\ changes = 0 /\ kills = 0

File(tree, p) == {f \in tree : f.path = p}
Paths(tree)   == {f.path : f \in tree}

\* What the archive holds for a file: stored, regular, of its own size.
Entry(f) == [path |-> f.path, dir |-> FALSE, plain |-> TRUE, size |-> 1, packed |-> 1,
             actual |-> 1, data |-> f.data]
Listing(S)    == FoldSet(LAMBDA x, list : Append(list, x), <<>>, S)
Entries(tree) == Listing({Entry(f) : f \in tree})

\* A verification with no earlier trust than the bootstrap root.
Verifies(nodes) ==
  /\ Precheck(nodes)
  /\ LET r == Refresh(nodes, <<>>) IN r.ok /\ VerifiedPack(nodes, r.cache[1]) # {}

\* The source directory as it lies on the disk.
Directory(tree) ==
  {[path |-> f.path, data |-> <<f.data>>] : f \in tree} \union
  UNION {{[path |-> SubSeq(f.path, 1, n), data |-> <<>>] : n \in 1..(Len(f.path) - 1)} : f \in tree}

Fail == step' = "idle" /\ listed' = <<>> /\ temp' = {}

SourceFiles ==
  /\ step = "idle"
  /\ \A f \in source : MemberName(Entry(f))
  /\ Cardinality(source) <= MaxEntries
  /\ listed' = Listing(Paths(source)) /\ step' = "verify"
  /\ UNCHANGED <<source, temp, out, changes, kills>>

VerifySource ==
  /\ step = "verify"
  /\ IF Verifies(Directory(source)) THEN step' = "zip" /\ UNCHANGED <<listed, temp>> ELSE Fail
  /\ UNCHANGED <<source, out, changes, kills>>

\* _write_deterministic_zip: the listed files one after the other.  The source
\* is exchanged for next after the first n of them were read, or not at all.
Read(n, next) ==
  UNION {File(IF i <= n THEN source ELSE next, listed[i]) : i \in DOMAIN listed}

WriteZip ==
  /\ step = "zip"
  /\ \E n \in DOMAIN listed, next \in Source :
       /\ IF next = source THEN n = Len(listed) /\ UNCHANGED changes
          ELSE changes < MaxChanges /\ changes' = changes + 1
       /\ source' = next
       /\ IF Cardinality(Read(n, next)) = Len(listed)
          THEN temp' = Read(n, next) /\ step' = "roundtrip" /\ UNCHANGED listed
          ELSE Fail
  /\ UNCHANGED <<out, kills>>

Roundtrip_Skipped ==
  /\ step = "roundtrip" /\ step' = "publish"
  /\ UNCHANGED <<source, listed, temp, out, changes, kills>>
Roundtrip ==
  /\ step = "roundtrip"
  /\ LET x == Extract(Entries(temp))
     IN IF x.ok /\ Verifies(x.nodes) THEN step' = "publish" /\ UNCHANGED <<listed, temp>> ELSE Fail
  /\ UNCHANGED <<source, out, changes, kills>>

\* os.replace, and the finally clause.
Publish ==
  /\ step = "publish" /\ out' = temp /\ Fail
  /\ UNCHANGED <<source, changes, kills>>

\* A killed builder leaves its temporary files, which no other build reads.
KillBuilder ==
  /\ step # "idle" /\ kills < MaxBuildKills /\ kills' = kills + 1 /\ Fail
  /\ UNCHANGED <<source, out, changes>>

ExchangeSource ==
  /\ changes < MaxChanges /\ changes' = changes + 1
  /\ source' \in Source \ {source}
  /\ UNCHANGED <<listed, temp, out, step, kills>>

BuildNext ==
  SourceFiles \/ VerifySource \/ WriteZip \/ Roundtrip \/ Publish \/ KillBuilder \/ ExchangeSource

BuildSpec == BuildInit /\ [][BuildNext]_building

-----------------------------------------------------------------------------
Folding == INSTANCE PackContents WITH CaseInsensitive <- TRUE

\* Two files or directories of the archive whose paths differ in case only.
NamesCollide(tree) ==
  LET paths == {n.path : n \in Directory(tree)}
  IN \E p, q \in paths : p # q /\ Folded(p) = Folded(q)

\* What each state of the source is worth once it is packed.
Installs ==
  [t \in Source |-> LET x == Extract(Entries(t)) IN x.ok /\ Verifies(x.nodes)]
InstallsFolded ==
  [t \in Source |->
     LET x == Folding!Extract(Entries(t))
     IN /\ x.ok /\ Folding!Precheck(x.nodes)
        /\ Folding!VerifiedPack(x.nodes, Folding!Refresh(x.nodes, <<>>).cache[1]) # {}]

\* What is published is one state of the source, never a mixture of two, and
\* installs on a fresh root; also on a file system that folds case, provided
\* that no name of a directory differs in case only from another name, which no
\* check of the code compares (build_verified_atlaspack's second extraction and
\* verification).
Installable ==
  out # {} =>
    /\ out \in Source /\ Installs[out]
    /\ ~NamesCollide(out) => InstallsFolded[out]
=============================================================================
