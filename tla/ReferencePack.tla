---------------------------- MODULE ReferencePack ----------------------------
(***************************************************************************)
(* The Python reference pack runtime (tools/pack/activation.py): processes *)
(* that share a runtime root install archives.  One action stands for the  *)
(* code between two durable effects or two failure points of               *)
(* install_atlaspack; a write may fail before or after it has become       *)
(* durable, and a process may be killed between any two actions.           *)
(*                                                                         *)
(* A generation is named by the digest of its manifest.                    *)
(***************************************************************************)
EXTENDS PackContents

CONSTANTS
  Proc,
  Archive,      \* the archives that are offered ...
  Content,      \* ... and the entries of each
  PackId,
  Clock,        \* readings of the wall clock, in any order
  MaxFaults     \* bound on the kinds of failure of a behaviour, one each

ASSUME ReferenceAssumption ==
  /\ DOMAIN Content = Archive
  /\ Clock \subseteq Nat \ {0} /\ Clock # {}
  /\ MaxFaults \in Nat

\* All that the archives carry.
Data == UNION {{es[i].data : i \in DOMAIN es} : es \in Range(Content)}
OfTheKind(k) == {d \in Data : d.kind = k}

\* An archive is a list of entries with paths.  What passes the schema of a
\* manifest has an id and a version, and so has signed metadata a version.  A
\* digest names one manifest.
ASSUME DataAssumption ==
  /\ \A a \in Archive :
       /\ Content[a] \in Seq(Range(Content[a]))
       /\ \A i \in DOMAIN Content[a] : Content[a][i].path \in Seq(Component)
  /\ \A m \in OfTheKind("manifest") : m.schema => m.id \in PackId /\ m.version \in Nat
  /\ \A t \in OfTheKind("metadata") : t.signed => t.version \in Nat
  /\ \A m, n \in OfTheKind("manifest") : m.digest = n.digest => m = n

Empty == [active |-> <<>>, lkg |-> <<>>, highest |-> [i \in PackId |-> <<>>]]
Idle  == [nodes |-> {}, now |-> 0, pack |-> <<>>, state |-> Empty]

VARIABLES
  file,    \* state/runtime-state.json: <<>> or its one content
  time,    \* state/trusted-time.json: 0 if it is missing
  cache,   \* tuf/metadata: <<>> or the newest verified metadata
  gens,    \* generations/: digest -> [pack, intact]
  lock,    \* state/install.lock: <<>> or <<its creator>>
  pc, loc, \* of each process; loc is Idle outside an installation
  proven,  \* generations whose health was confirmed while they were active
  faults   \* kinds of the failures that there were

disk == <<file, time, cache, gens>>
vars == <<disk, lock, pc, loc, proven, faults>>

Init ==
  /\ file = <<>> /\ time = 0 /\ cache = <<>> /\ gens = <<>> /\ lock = <<>>
  /\ pc = [p \in Proc |-> "idle"] /\ loc = [p \in Proc |-> Idle]
  /\ proven = {}
  /\ faults = {}

Fault(k) == Cardinality(faults) < MaxFaults /\ k \notin faults /\ faults' = faults \union {k}
Seen(k)  == k \in faults

At(p, s)  == pc[p] = s
Goto(p, s) == pc' = [pc EXCEPT ![p] = s] /\ UNCHANGED loc
Set(p, s, f, v) == pc' = [pc EXCEPT ![p] = s] /\ loc' = [loc EXCEPT ![p][f] = v]
ToLeave(p) == pc' = [pc EXCEPT ![p] = "leave"] /\ loc' = [loc EXCEPT ![p] = Idle]
Pack(p) == loc[p].pack[1]

-----------------------------------------------------------------------------
\* RuntimeLock.__enter__: exclusive creation.  The payload is written after
\* it; if that fails, the file stays and nobody removes it.
LockFree_Broken == TRUE
LockFree == lock = <<>>

Enter(p) ==
  /\ At(p, "idle") /\ LockFree
  /\ lock' = <<p>>
  /\ \/ Goto(p, "guard") /\ UNCHANGED faults
     \/ Fault("write") /\ UNCHANGED <<pc, loc>>
  /\ UNCHANGED <<disk, proven>>

\* _durable_trust_state_exists
Durable == file # <<>> \/ cache # <<>> \/ gens # <<>>

\* A file or a directory that appears in one replacement: done, and the process
\* goes on; or failed with nothing changed, or failed after the replacement, in
\* the fsync of the directory, and the installation ends.
Replaced(p, done, undone, goes) ==
  \/ done /\ goes /\ UNCHANGED faults
  \/ (done \/ undone) /\ ToLeave(p) /\ Fault("write")

\* _guard_trusted_time: an older clock and a lost record are refused.
Refused(now) == now < time \/ (time = 0 /\ Durable)

Guard_NotWritten(p) ==
  /\ At(p, "guard")
  /\ \E now \in Clock : IF Refused(now) THEN ToLeave(p) ELSE Set(p, "extract", "now", now)
  /\ UNCHANGED <<disk, lock, proven, faults>>
Guard(p) ==
  /\ At(p, "guard")
  /\ \E now \in Clock :
       LET extract == Set(p, "extract", "now", now)
       IN \/ Refused(now) /\ ToLeave(p) /\ UNCHANGED <<time, faults>>
          \/ ~Refused(now) /\ now = time /\ extract /\ UNCHANGED <<time, faults>>
          \/ ~Refused(now) /\ now > time /\ Replaced(p, time' = now, time' = time, extract)
  /\ UNCHANGED <<file, cache, gens, lock, proven>>

\* The result of extracting each archive.
Extracted == [a \in Archive |-> Extract(Content[a])]
Nodes(p) == loc[p].nodes     \* the staging directory

\* safe_extract_atlaspack of the archive at hand, and the checks that precede
\* the refresh.
ExtractArchive(p) ==
  /\ At(p, "extract")
  /\ \E a \in Archive :
       \E x \in {Extracted[a]} :
         IF x.ok /\ Precheck(x.nodes) THEN Set(p, "refresh", "nodes", x.nodes) ELSE ToLeave(p)
  /\ UNCHANGED <<disk, lock, proven, faults>>

\* Updater.refresh: the durable cache advances before the pack is accepted.
RefreshCache(p) ==
  /\ At(p, "refresh")
  /\ LET r == Refresh(Nodes(p), cache)
     IN IF r.ok THEN cache' = r.cache /\ Goto(p, "verify") ELSE UNCHANGED cache /\ ToLeave(p)
  /\ UNCHANGED <<file, time, gens, lock, proven, faults>>

Verify(p) ==
  /\ At(p, "verify")
  /\ LET accepted == VerifiedPack(Nodes(p), cache[1])
     IN \/ /\ pc' = [pc EXCEPT ![p] = "load"]
           /\ \E v \in accepted : loc' = [loc EXCEPT ![p].pack = <<v>>, ![p].nodes = {}]
        \/ accepted = {} /\ ToLeave(p)
  /\ UNCHANGED <<disk, lock, proven, faults>>

\* _check_pack_rollback against the record of the same pack id.
Admissible_AnyDigest(m, h) == h = <<>> \/ m.version >= h[1].version
Admissible(m, h) ==
  h # <<>> => m.version > h[1].version \/ (m.version = h[1].version /\ m.digest = h[1].digest)

LoadState(p) ==
  /\ At(p, "load")
  /\ LET s == IF file = <<>> THEN Empty ELSE file[1]
         m == Pack(p)
     IN IF Admissible(m, s.highest[m.id]) THEN Set(p, "stage", "state", s)
        ELSE ToLeave(p)
  /\ UNCHANGED <<disk, lock, proven, faults>>

\* _stage_generation: a generation that is there is taken if its metadata can
\* be read; another one appears in one rename.
StageGeneration(p) ==
  /\ At(p, "stage")
  /\ LET g == Pack(p).digest
         new == [d \in DOMAIN gens \union {g} |->
                   IF d = g THEN [pack |-> Pack(p), intact |-> TRUE] ELSE gens[d]]
     IN IF g \in DOMAIN gens
        THEN /\ IF gens[g].intact THEN Goto(p, "health") ELSE ToLeave(p)
             /\ UNCHANGED <<gens, faults>>
        ELSE Replaced(p, gens' = new, gens' = gens, Goto(p, "health"))
  /\ UNCHANGED <<file, time, cache, lock, proven>>

\* _health_generation and the caller's own check, which may fail for itself.
Healthy(g) == g \in DOMAIN gens /\ gens[g].intact /\ gens[g].pack.index = gens[g].pack.spc
Health(p) ==
  /\ At(p, "health")
  /\ \/ Healthy(Pack(p).digest) /\ Goto(p, "advance") /\ UNCHANGED faults
     \/ ~Healthy(Pack(p).digest) /\ ToLeave(p) /\ UNCHANGED faults
     \/ Healthy(Pack(p).digest) /\ ToLeave(p) /\ Fault("health")
  /\ UNCHANGED <<disk, lock, proven>>

Advanced(p) ==
  LET m == Pack(p)
      h == loc[p].state.highest[m.id]
  IN [loc[p].state EXCEPT !.highest[m.id] =
        IF h = <<>> \/ m.version > h[1].version
        THEN <<[version |-> m.version, digest |-> m.digest]>> ELSE h]

WriteState(p, s, goes) ==
  /\ Replaced(p, file' = <<s>>, file' = file, goes)
  /\ UNCHANGED <<time, cache, gens, lock>>

AdvanceTrust(p) ==
  At(p, "advance") /\ WriteState(p, Advanced(p), Goto(p, "activate")) /\ UNCHANGED proven

Activating(p) == [Advanced(p) EXCEPT !.active = <<Pack(p).digest>>]

Activate(p) ==
  At(p, "activate") /\ WriteState(p, Activating(p), Goto(p, "confirm")) /\ UNCHANGED proven

\* resolve_active_generation and the health of what it returns.
Confirm(p) ==
  /\ At(p, "confirm")
  /\ \/ /\ Healthy(file[1].active[1]) /\ Goto(p, "commit")
        /\ proven' = proven \union {file[1].active[1]} /\ UNCHANGED faults
     \/ ~Healthy(file[1].active[1]) /\ Goto(p, "revert") /\ UNCHANGED <<proven, faults>>
     \/ /\ Healthy(file[1].active[1]) /\ Goto(p, "revert") /\ UNCHANGED proven
        /\ Fault("health")
  /\ UNCHANGED <<disk, lock>>

Commit(p) ==
  /\ At(p, "commit") /\ WriteState(p, [Activating(p) EXCEPT !.lkg = <<Pack(p).digest>>], ToLeave(p))
  /\ UNCHANGED proven

\* The rollback target is the last known good, or else what was active.
RevertedState(p) ==
  LET s == loc[p].state
  IN [Advanced(p) EXCEPT !.active = IF s.lkg # <<>> THEN s.lkg ELSE s.active, !.lkg = s.lkg]

Revert(p) == At(p, "revert") /\ WriteState(p, RevertedState(p), ToLeave(p)) /\ UNCHANGED proven

\* RuntimeLock.__exit__, and install_atlaspack returns or raises.  A removal
\* that fails, for any reason but a missing file, raises and leaves the lock.
Leave(p) ==
  /\ At(p, "leave") /\ Goto(p, "idle")
  /\ \/ lock' = <<>> /\ UNCHANGED faults
     \/ UNCHANGED lock /\ Fault("write")
  /\ UNCHANGED <<disk, proven>>

-----------------------------------------------------------------------------
Kill(p) ==
  /\ ~At(p, "idle") /\ Fault("kill")
  /\ pc' = [pc EXCEPT ![p] = "idle"] /\ loc' = [loc EXCEPT ![p] = Idle]
  /\ UNCHANGED <<disk, lock, proven>>

\* An administrator removes a lock whose creator is gone.
AdminRecovery ==
  /\ \E p \in Proc : lock = <<p>> /\ At(p, "idle")
  /\ lock' = <<>>
  /\ UNCHANGED <<disk, pc, loc, proven, faults>>

\* The storage loses a part of a generation, or the record of the time.
Damage ==
  /\ \E g \in {g \in DOMAIN gens : gens[g].intact} : gens' = [gens EXCEPT ![g].intact = FALSE]
  /\ Fault("damage")
  /\ UNCHANGED <<file, time, cache, lock, pc, loc, proven>>
LoseTime ==
  /\ time # 0 /\ time' = 0 /\ Fault("loss")
  /\ UNCHANGED <<file, cache, gens, lock, pc, loc, proven>>

Step(p) ==
  \/ Enter(p) \/ Guard(p) \/ ExtractArchive(p) \/ RefreshCache(p) \/ Verify(p) \/ LoadState(p)
  \/ StageGeneration(p) \/ Health(p) \/ AdvanceTrust(p) \/ Activate(p) \/ Confirm(p)
  \/ Commit(p) \/ Revert(p) \/ Leave(p) \/ Kill(p)

Next == (\E p \in Proc : Step(p)) \/ AdminRecovery \/ Damage \/ LoseTime

Spec == Init /\ [][Next]_vars

-----------------------------------------------------------------------------
State == IF file = <<>> THEN Empty ELSE file[1]

\* At most one process is inside an installation, whatever was killed and
\* whatever lock was left behind and removed; and a lock without a living owner
\* is left only by a kill or by a failure to write the lock itself, never by an
\* error path of the installation (RuntimeLock).
LockDiscipline ==
  /\ Cardinality({p \in Proc : ~At(p, "idle")}) <= 1
  /\ \A p \in Proc : lock = <<p>> /\ At(p, "idle") => Seen("kill") \/ Seen("write")

\* Both pointers name installed generations, the last known good one was once
\* confirmed healthy while active, and each is below the highest-seen record of
\* its pack or is that record: what is returned to once worked, and a version
\* never runs in two builds.  With no failing write and no kill, the two agree
\* after every installation that has ended, well or not
\* (_install_verified_generation_locked: commit, or return to the previous).
PointersSound ==
  /\ \A g \in {State.active, State.lkg} \ {<<>>} :
       /\ g[1] \in DOMAIN gens
       /\ LET v == gens[g[1]].pack
              h == State.highest[v.id]
          IN h # <<>> /\ (v.version < h[1].version \/ [version |-> v.version, digest |-> g[1]] = h[1])
  /\ State.lkg # <<>> => State.lkg[1] \in proven
  /\ lock = <<>> /\ ~Seen("write") /\ ~Seen("kill") => State.active = State.lkg

\* The manifests that some signed metadata authorizes together with all that
\* they bind, by the version of that metadata, the licences being clean.
Authorizes(t, m) ==
  /\ t.signed
  /\ <<Manifest, m.digest>> \in t.targets /\ <<Inventory, m.inventory>> \in t.targets
  /\ \A i \in DOMAIN m.artifacts : <<m.artifacts[i].path, m.artifacts[i].digest>> \in t.targets
Clean(m) ==
  \E v \in OfTheKind("inventory") :
    /\ v.digest = m.inventory
    /\ \A i \in DOMAIN v.entries :
         /\ v.entries[i].scope = "included" => v.entries[i].license = "verified-redistributable"
         /\ v.entries[i].license # "unknown"
Trustworthy ==
  UNION {{[manifest |-> m.digest, spc |-> m.spc, version |-> t.version] :
            t \in {t \in OfTheKind("metadata") : Authorizes(t, m) /\ Clean(m)}} : m \in OfTheKind("manifest")}

\* What is installed was signed as a whole, under metadata that is not newer
\* than the durable TUF cache, includes redistributable sources only, and has
\* a search index of its own projection, prebuilt or rebuilt
\* (verify_pack_directory, _stage_generation).
InstalledIsSigned ==
  \A g \in DOMAIN gens :
    LET v == gens[g].pack
    IN /\ v.index = v.spc
       /\ \E w \in Trustworthy : w.manifest = g /\ w.spc = v.spc /\ w.version <= cache[1].version

\* Durable trust never exists without the trusted time that guards it, unless
\* that record was lost; and an installation under way has made its own
\* reading of the clock the durable floor (_guard_trusted_time).
TrustAnchored ==
  ~Seen("loss") =>
    /\ Durable => time # 0
    /\ \A p \in Proc : pc[p] \notin {"idle", "guard", "leave"} => time = loc[p].now

\* A lost record of the time is not recreated by the runtime as long as there
\* is anything else to distrust, and the recorded time never goes back.
TimeKept == time' # time => (time' > time /\ ~(time = 0 /\ Durable)) \/ time' = 0

\* Trust only grows: no step lowers the highest-seen version of a pack,
\* exchanges its digest at the same version, or takes older TUF metadata, and
\* the clock that guards it is kept (observe_pack, refresh, _guard_trusted_time).
TrustMonotone ==
  [][/\ TimeKept
     /\ cache # <<>> => cache' # <<>> /\ cache'[1].version >= cache[1].version
     /\ \A i \in PackId : State.highest[i] # <<>> =>
          /\ State'.highest[i] # <<>>
          /\ State'.highest[i][1].version >= State.highest[i][1].version
          /\ State'.highest[i][1].version = State.highest[i][1].version =>
               State'.highest[i] = State.highest[i]]_vars
=============================================================================
