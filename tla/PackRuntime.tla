---------------------------- MODULE PackRuntime ----------------------------
(***************************************************************************)
(* The durable pack runtime of the Go Shared Core (internal/pack), driven  *)
(* by several atlas-core processes that share one runtime root.            *)
(*                                                                         *)
(* The unit of interleaving is one durable file operation: creating or     *)
(* removing install.lock, replacing runtime-state.json,                    *)
(* manual-rollback.json or trusted-time.json, renaming a staged            *)
(* generation, renaming the pending archive.  Reads made while the lock is *)
(* held are merged with the next such operation; reads made without it are *)
(* steps of their own.  A process can be killed between any two steps.     *)
(*                                                                         *)
(* A replacement can fail before the rename, leaving the old file; on      *)
(* POSIX (LateSync) also after it, when the directory sync fails although  *)
(* the new file is in place.  Both consume a write fault.                  *)
(*                                                                         *)
(* Simplifications.  A pack stands for its manifest: the generation id is  *)
(* the hash of the manifest, so pack, generation and digest are one value. *)
(* VersionOf gives the position of its version in SemVer order.  Archive   *)
(* extraction and TUF verification accept or refuse nondeterministically;  *)
(* of the TUF cache only the presence of root.json is kept.                *)
(***************************************************************************)
EXTENDS Naturals, FiniteSets

CONSTANTS
  Proc,             \* atlas-core processes
  Pack,             \* verified packs = generations
  PackIdOf,         \* pack -> pack_id of its manifest
  VersionOf,        \* pack -> rank of its pack_version
  Bundle,           \* pack shipped next to atlas-core, or None
  Clock,            \* wall-clock readings a process may observe
  None,
  LateSync,         \* a replacement can fail after it took effect (POSIX)
  MaxWriteFaults,   \* bound on failing durable operations
  MaxHealthFaults,  \* bound on failing reads of an intact generation
  MaxKills,         \* bound on process terminations
  MaxDeposits       \* bound on archives put into the inbox

ASSUME PackAssumption ==
  /\ None \notin Pack
  /\ VersionOf \in [Pack -> Nat]
  /\ DOMAIN PackIdOf = Pack
  /\ Bundle \in Pack \union {None}

ASSUME ProcAssumption ==
  None \notin Proc /\ IsFiniteSet(Proc) /\ LateSync \in BOOLEAN

ASSUME BoundAssumption ==
  /\ Clock \subseteq Nat \ {0}
  /\ {MaxWriteFaults, MaxHealthFaults, MaxKills, MaxDeposits} \subseteq Nat

PackIds == {PackIdOf[g] : g \in Pack}
Target  == Pack \union {None}

\* runtime-state.json.  highest maps a pack id to its highest-seen pack.
RuntimeState == [active : Target, lkg : Target, highest : [PackIds -> Target]]

DefaultRuntimeState_NilMap ==
  [active |-> None, lkg |-> None, highest |-> [i \in {} |-> None]]
DefaultRuntimeState ==
  [active |-> None, lkg |-> None, highest |-> [i \in PackIds |-> None]]

\* inbox/pending.atlaspack: its content, and which deposit it is (what
\* os.SameFile, size and mtime tell apart).
PendingFile == [pack : Pack, serial : 1..MaxDeposits]

VARIABLES
  \* durable
  lock,       \* process that created install.lock, or None
  state,      \* runtime-state.json
  control,    \* target of manual-rollback.json
  installed,  \* complete directories under generations/
  inbox,      \* pending archive, or None
  rooted,     \* tuf/metadata/root.json exists
  trusted,    \* trusted-time.json, 0 when absent
  \* volatile, one per process
  pc,         \* next step
  goal,       \* the function the process is executing
  model,      \* generation of the in-process read model, or None
  work,       \* locals of the function holding the lock
  \* budgets
  writeFaults, healthFaults, kills, deposits,
  \* history
  proven,     \* generations found healthy while they were the active one
  entry       \* active and target when the current lock holder got the lock

durable  == <<lock, state, control, installed, inbox, rooted, trusted>>
volatile == <<pc, goal, model, work>>
budgets  == <<writeFaults, healthFaults, kills, deposits>>
history  == <<proven, entry>>
vars     == <<durable, volatile, budgets, history>>

\* Steps taken while the process holds the lock.
Critical ==
  {"guard", "verify", "mark", "stage", "advance", "activate", "confirm",
   "promote", "revert", "unmark", "consume", "take", "finish",
   "swap", "switch", "settle", "unswitch", "release"}

Label == Critical \union {"down", "probe", "resolve", "idle", "acquire"}

Goal == {"none", "open", "boot", "reopen", "update", "rollback", "reload",
         "undo", "restore"}

Locals == [pack : Target, seen : PendingFile \union {None}, old : RuntimeState,
           control : Target, marked : BOOLEAN, ok : BOOLEAN]

Blank == [pack |-> None, seen |-> None, old |-> DefaultRuntimeState,
          control |-> None, marked |-> FALSE, ok |-> FALSE]

TypeOK ==
  /\ lock \in Proc \union {None}
  /\ state \in RuntimeState
  /\ control \in Target
  /\ installed \subseteq Pack
  /\ inbox \in PendingFile \union {None}
  /\ rooted \in BOOLEAN
  /\ trusted \in Nat
  /\ pc \in [Proc -> Label]
  /\ goal \in [Proc -> Goal]
  /\ model \in [Proc -> Target]
  /\ work \in [Proc -> Locals]
  /\ writeFaults \in 0..MaxWriteFaults
  /\ healthFaults \in 0..MaxHealthFaults
  /\ kills \in 0..MaxKills
  /\ deposits \in 0..MaxDeposits
  /\ proven \subseteq Pack
  /\ entry \in [active : Target, target : Target] \union {None}

Init ==
  /\ lock = None
  /\ state = DefaultRuntimeState
  /\ control = None
  /\ installed = {}
  /\ inbox = None
  /\ rooted = FALSE
  /\ trusted = 0
  /\ pc = [p \in Proc |-> "down"]
  /\ goal = [p \in Proc |-> "none"]
  /\ model = [p \in Proc |-> None]
  /\ work = [p \in Proc |-> Blank]
  /\ writeFaults = 0
  /\ healthFaults = 0
  /\ kills = 0
  /\ deposits = 0
  /\ proven = {}
  /\ entry = None

-----------------------------------------------------------------------------
(* Control flow of one process. *)

Goto(p, l) == pc' = [pc EXCEPT ![p] = l]

Call(p, l, g) == Goto(p, l) /\ goal' = [goal EXCEPT ![p] = g]

\* The current function returns an error; what its caller does next.
Fail(p) ==
  \/ /\ goal[p] \in {"open", "boot", "reopen"}     \* main: os.Exit(1)
     /\ Call(p, "down", "none")
     /\ model' = [model EXCEPT ![p] = None]
  \/ /\ goal[p] \in {"update", "rollback"}         \* error reply
     /\ Call(p, "idle", "none")
     /\ UNCHANGED model
  \/ /\ goal[p] = "reload"                         \* compensate
     /\ Call(p, "acquire", "undo")
     /\ UNCHANGED model
  \/ /\ goal[p] \in {"undo", "restore"}            \* invalidateReadModel
     /\ Call(p, "idle", "none")
     /\ model' = [model EXCEPT ![p] = None]

\* The function that held the lock returns without an error.
Succeed_NoReload(p) ==
  UNCHANGED model /\ IF goal[p] = "boot" THEN Call(p, "probe", "reopen")
                                        ELSE Call(p, "idle", "none")
Succeed(p) ==
  /\ UNCHANGED model
  /\ \/ goal[p] = "boot" /\ Call(p, "probe", "reopen")
     \/ goal[p] = "undo" /\ Call(p, "probe", "restore")
     \/ goal[p] = "rollback" /\ Call(p, "probe", "reload")
     \/ /\ goal[p] = "update"
        /\ IF work[p].pack = model[p] THEN Call(p, "idle", "none")
                                      ELSE Call(p, "probe", "reload")

\* What a failing atomicReplaceDurable may leave behind.
AfterFailure(old, new) == {old} \union (IF LateSync THEN {new} ELSE {})

NoFault     == UNCHANGED <<writeFaults, healthFaults>>
WriteFault  == /\ writeFaults < MaxWriteFaults
               /\ writeFaults' = writeFaults + 1
               /\ UNCHANGED healthFaults
HealthFault == /\ healthFaults < MaxHealthFaults
               /\ healthFaults' = healthFaults + 1
               /\ UNCHANGED writeFaults

\* healthGeneration(g): a missing generation always fails, an intact one
\* may fail to be read or opened.
Healthy(g)   == g \in installed /\ NoFault
Unhealthy(g) == (g \notin installed /\ NoFault) \/ HealthFault

\* A step under the lock leaves these alone.
UnderLock(p, l) ==
  /\ pc[p] = l
  /\ UNCHANGED <<lock, goal, model, kills, deposits, entry>>

\* Leave the locked section with an error; the deferred calls follow.
Leave(p) == Goto(p, "release")

\* Error return of installVerifiedGenerationLocked or RollbackPrevious once
\* the rollback control was rewritten: it is written back first.
Abort(p) == Goto(p, IF work[p].marked THEN "unmark" ELSE "release")

-----------------------------------------------------------------------------
(* Process life cycle and the read model (main.go, runtime.go).  The read  *)
(* model is loaded without the lock: LoadActiveReadModel reads the state   *)
(* once to test the active pointer and again to resolve it.                *)

Start(p) ==
  /\ pc[p] = "down"
  /\ Call(p, "probe", "open")
  /\ UNCHANGED <<durable, model, work, budgets, history>>

ProbeActive(p) ==
  /\ pc[p] = "probe"
  /\ \/ /\ state.active # None
        /\ Goto(p, "resolve")
        /\ UNCHANGED <<goal, model>>
     \/ /\ state.active = None                 \* ErrNoActiveGeneration
        /\ IF goal[p] = "open"
           THEN /\ IF Bundle = None THEN Call(p, "idle", "none")
                                    ELSE Call(p, "acquire", "boot")
                /\ UNCHANGED model
           ELSE Fail(p)
  /\ UNCHANGED <<durable, work, budgets, history>>

ResolveModel(p) ==
  /\ pc[p] = "resolve"
  /\ \/ /\ state.active = None
        /\ NoFault
        /\ Fail(p)
     \/ /\ state.active # None
        /\ \/ /\ Healthy(state.active)
              /\ model' = [model EXCEPT ![p] = state.active]
              /\ Call(p, "idle", "none")
           \/ /\ Unhealthy(state.active)
              /\ Fail(p)
  /\ UNCHANGED <<durable, work, kills, deposits, history>>

\* pack.update and pack.rollback.
Request(p) ==
  /\ pc[p] = "idle"
  /\ \E g \in {"update", "rollback"} : Call(p, "acquire", g)
  /\ UNCHANGED <<durable, model, work, budgets, history>>

\* End of input: the session ends and the process exits.
Exit(p) ==
  /\ pc[p] = "idle"
  /\ Call(p, "down", "none")
  /\ model' = [model EXCEPT ![p] = None]
  /\ UNCHANGED <<durable, work, budgets, history>>

\* The process is killed: deferred functions do not run, so a lock it holds
\* stays behind.
Kill(p) ==
  /\ pc[p] # "down"
  /\ kills < MaxKills
  /\ kills' = kills + 1
  /\ Call(p, "down", "none")
  /\ model' = [model EXCEPT ![p] = None]
  /\ work' = [work EXCEPT ![p] = Blank]
  /\ entry' = IF pc[p] \in Critical THEN None ELSE entry
  /\ UNCHANGED <<durable, writeFaults, healthFaults, deposits, proven>>

-----------------------------------------------------------------------------
(* The install lock. *)

\* O_EXCL: the lock file is created only if there is none, stale or not.
LockFree_Broken == TRUE
LockFree == lock = None

AcquireRuntimeLock(p) ==
  /\ pc[p] = "acquire"
  /\ LockFree
  /\ lock' = p
  /\ Goto(p, "guard")
  /\ entry' = [active |-> state.active, target |-> control]
  /\ UNCHANGED <<state, control, installed, inbox, rooted, trusted,
                 goal, model, work, budgets, proven>>

\* The lock file exists, or its payload cannot be written and it is removed.
LockRefused_Waits(p) == FALSE
LockRefused(p) ==
  /\ pc[p] = "acquire"
  /\ (~LockFree /\ NoFault) \/ (LockFree /\ WriteFault)
  /\ Fail(p)
  /\ UNCHANGED <<durable, work, kills, deposits, history>>

\* The deferred Close: the lock file is removed by path, and stays if that
\* fails.  Then the locked function returns to its caller.
Release(p) ==
  /\ pc[p] = "release"
  /\ (lock' = None /\ NoFault) \/ (lock' = lock /\ WriteFault)
  /\ IF work[p].ok THEN Succeed(p) ELSE Fail(p)
  /\ work' = [work EXCEPT ![p] = Blank]
  /\ entry' = None
  /\ UNCHANGED <<state, control, installed, inbox, rooted, trusted,
                 kills, deposits, proven>>

\* A lock left behind is removed by the administrator, once no process is in
\* the section it protects.  The code never does this itself.
AdminRecovery ==
  /\ lock # None
  /\ pc[lock] \notin Critical
  /\ lock' = None
  /\ UNCHANGED <<state, control, installed, inbox, rooted, trusted,
                 volatile, budgets, history>>

\* An external producer puts an archive into the inbox, replacing any other.
Deposit ==
  /\ deposits < MaxDeposits
  /\ deposits' = deposits + 1
  /\ \E g \in Pack : inbox' = [pack |-> g, serial |-> deposits + 1]
  /\ UNCHANGED <<lock, state, control, installed, rooted, trusted, volatile,
                 writeFaults, healthFaults, kills, history>>

-----------------------------------------------------------------------------
(* Trusted time and verification. *)

StateFileExists == \E i \in PackIds : state.highest[i] # None

durableTrustStateExists == StateFileExists \/ rooted \/ installed # {}

\* What follows the trusted-time guard in each function.
AfterGuard(p) ==
  \/ goal[p] = "boot" /\ Goto(p, "verify") /\ UNCHANGED work
  \/ goal[p] \in {"rollback", "undo"} /\ Goto(p, "swap") /\ UNCHANGED work
  \/ /\ goal[p] = "update"
     /\ work' = [work EXCEPT ![p].seen = inbox]
     /\ IF rooted THEN Goto(p, "verify") ELSE Leave(p)

GuardTrustedTime_NotWritten(p) ==
  /\ UnderLock(p, "guard") /\ AfterGuard(p) /\ NoFault
  /\ UNCHANGED <<trusted, state, control, installed, inbox, rooted, proven>>
GuardTrustedTime(p) ==
  /\ UnderLock(p, "guard")
  /\ \/ /\ goal[p] = "update" /\ inbox = None           \* ErrNoPendingUpdate
        /\ Leave(p) /\ NoFault
        /\ UNCHANGED <<trusted, work>>
     \/ /\ goal[p] = "update" => inbox # None
        /\ \E now \in Clock :
             \/ /\ now < trusted \/ (trusted = 0 /\ durableTrustStateExists)
                /\ Leave(p) /\ NoFault
                /\ UNCHANGED <<trusted, work>>
             \/ /\ trusted # 0 /\ now = trusted
                /\ AfterGuard(p) /\ NoFault
                /\ UNCHANGED trusted
             \/ /\ now > trusted
                /\ trusted = 0 => ~durableTrustStateExists
                /\ \/ trusted' = now /\ AfterGuard(p) /\ NoFault
                   \/ /\ trusted' \in AfterFailure(trusted, now) /\ WriteFault
                      /\ Leave(p) /\ UNCHANGED work
  /\ UNCHANGED <<state, control, installed, inbox, rooted, proven>>

\* SafeExtractAtlaspack and VerifyPackDirectory: the archive is read by path
\* now, so it may be a later deposit than the one the guard saw.  A refused
\* archive may already have advanced the TUF cache.
VerifyPack(p) ==
  LET archive == IF goal[p] = "boot" THEN Bundle
                 ELSE IF inbox = None THEN None ELSE inbox.pack
  IN /\ UnderLock(p, "verify")
     /\ \/ /\ archive # None
           /\ rooted' = TRUE
           /\ work' = [work EXCEPT ![p].pack = archive]
           /\ Goto(p, IF goal[p] = "boot" THEN "stage" ELSE "mark")
        \/ /\ rooted' \in {rooted, TRUE}
           /\ Leave(p)
           /\ UNCHANGED work
     /\ NoFault
     /\ UNCHANGED <<state, control, installed, inbox, trusted, proven>>

-----------------------------------------------------------------------------
(* installVerifiedUpdateLocked, before the installation: the active         *)
(* generation is captured as the manual-rollback target.                    *)

MarkRollbackTarget(p) ==
  LET previous == state.active
      changes  == IF previous = None THEN control # None
                                     ELSE previous # work[p].pack
      started  == [work[p] EXCEPT !.control = control, !.marked = changes]
  IN /\ UnderLock(p, "mark")
     /\ \/ /\ previous # None /\ Unhealthy(previous)
           /\ Leave(p)
           /\ UNCHANGED <<control, work, proven>>
        \/ /\ previous # None => Healthy(previous)
           /\ proven' = proven \union ({previous} \ {None})
           /\ control' = IF changes THEN previous ELSE control
           /\ work' = [work EXCEPT ![p] = started]
           /\ Goto(p, "stage")
           /\ NoFault
        \/ /\ previous # None => previous \in installed
           /\ proven' = proven \union ({previous} \ {None})
           /\ changes
           /\ control' \in AfterFailure(control, previous)
           /\ Leave(p) /\ WriteFault
           /\ UNCHANGED work
     /\ UNCHANGED <<state, installed, inbox, rooted, trusted>>

-----------------------------------------------------------------------------
(* installVerifiedGenerationLocked. *)

\* ObservePack accepts g: a newer version, or exactly the pack seen before.
Observable_AnyDigest(s, g) ==
  LET seen == s.highest[PackIdOf[g]]
  IN seen # None => VersionOf[g] >= VersionOf[seen]
Observable_AnyVersion(s, g) == TRUE
Observable(s, g) ==
  LET seen == s.highest[PackIdOf[g]]
  IN seen # None => VersionOf[g] > VersionOf[seen] \/ g = seen

Observed(s, g) == [s EXCEPT !.highest[PackIdOf[g]] = g]

\* stageGeneration: the generation directory appears complete, by a rename.
Staged(g) == installed \union {g}

StageGeneration(p) ==
  LET g == work[p].pack
  IN /\ UnderLock(p, "stage")
     /\ work' = [work EXCEPT ![p].old = state]
     /\ \/ /\ ~Observable(state, g)
           /\ Abort(p) /\ NoFault
           /\ UNCHANGED installed
        \/ /\ Observable(state, g)
           /\ \/ /\ installed' = Staged(g)
                 /\ Goto(p, "advance") /\ NoFault
              \/ /\ installed' \in AfterFailure(installed, Staged(g))
                 /\ Abort(p) /\ WriteFault
              \/ /\ installed' = Staged(g)
                 /\ Abort(p) /\ HealthFault
     /\ UNCHANGED <<state, control, inbox, rooted, trusted, proven>>

\* WriteRuntimeState(next) by p: on success p goes on at l, on failure the
\* file may or may not have been replaced and p returns an error.
WriteStateOrAbort(p, next, l) ==
  \/ state' = next /\ Goto(p, l) /\ NoFault
  \/ state' \in AfterFailure(state, next) /\ Abort(p) /\ WriteFault

\* The highest-seen version is made durable before the active pointer moves.
AdvanceHighest(p) ==
  /\ UnderLock(p, "advance")
  /\ WriteStateOrAbort(p, Observed(work[p].old, work[p].pack), "activate")
  /\ UNCHANGED <<work, control, installed, inbox, rooted, trusted, proven>>

ActiveState(p) ==
  [Observed(work[p].old, work[p].pack) EXCEPT !.active = work[p].pack]

ActivateGeneration(p) ==
  /\ UnderLock(p, "activate")
  /\ WriteStateOrAbort(p, ActiveState(p), "confirm")
  /\ UNCHANGED <<work, control, installed, inbox, rooted, trusted, proven>>

\* ResolveActiveGeneration and the post-activation health check.
ConfirmActivation(p) ==
  /\ UnderLock(p, "confirm")
  /\ \/ /\ Healthy(state.active)
        /\ proven' = proven \union {state.active}
        /\ Goto(p, "promote")
     \/ /\ Unhealthy(state.active)
        /\ UNCHANGED proven
        /\ Goto(p, "revert")
  /\ UNCHANGED <<work, state, control, installed, inbox, rooted, trusted>>

\* The third write commits the last known good generation.
PromoteLKG(p) ==
  /\ UnderLock(p, "promote")
  /\ \/ /\ state' = [ActiveState(p) EXCEPT !.lkg = work[p].pack]
        /\ Goto(p, IF goal[p] = "boot" THEN "release" ELSE "consume")
        /\ work' = [work EXCEPT ![p].ok = goal[p] = "boot"]
        /\ NoFault
     \/ /\ state' \in AfterFailure(state, [ActiveState(p) EXCEPT !.lkg = work[p].pack])
        /\ Abort(p) /\ WriteFault
        /\ UNCHANGED work
  /\ UNCHANGED <<control, installed, inbox, rooted, trusted, proven>>

\* Post-activation health failed: the previous LKG becomes active again.
\* Whether this write and the report succeed or not, an error is returned.
RevertedState_NotReverted(p) == ActiveState(p)
RevertedState(p) ==
  LET old == work[p].old
  IN [Observed(old, work[p].pack) EXCEPT
        !.active = IF old.lkg # None THEN old.lkg ELSE old.active]

RevertActivation(p) ==
  /\ UnderLock(p, "revert")
  /\ \/ state' = RevertedState(p) /\ NoFault
     \/ state' \in AfterFailure(state, RevertedState(p)) /\ WriteFault
  /\ Abort(p)
  /\ UNCHANGED <<work, control, installed, inbox, rooted, trusted, proven>>

\* The saved rollback control is written back; an error is returned anyway.
RestoreControl(p) ==
  /\ UnderLock(p, "unmark")
  /\ \/ control' = work[p].control /\ NoFault
     \/ control' \in AfterFailure(control, work[p].control) /\ WriteFault
  /\ Leave(p)
  /\ UNCHANGED <<work, state, installed, inbox, rooted, trusted, proven>>

-----------------------------------------------------------------------------
(* ApplyPendingUpdate, after the installation. *)

\* The inbox is compared with the file seen before verification ...
ComparePending(p) ==
  /\ UnderLock(p, "consume")
  /\ Goto(p, IF inbox # None /\ inbox = work[p].seen THEN "take" ELSE "finish")
  /\ NoFault
  /\ UNCHANGED <<work, state, control, installed, inbox, rooted, trusted, proven>>

\* ... and then moved away by path; an error of the rename is ignored.
TakePending(p) ==
  /\ UnderLock(p, "take")
  /\ (inbox' = None /\ NoFault) \/ (inbox' = inbox /\ WriteFault)
  /\ Goto(p, "finish")
  /\ UNCHANGED <<work, state, control, installed, rooted, trusted, proven>>

\* ControlState: the result is an error if the rollback target that would be
\* reported is not healthy, although the change is already durable.
ReportControl(p) ==
  LET reports == control # None /\ control # state.active
  IN /\ UnderLock(p, "finish")
     /\ \/ /\ reports => Healthy(control)
           /\ NoFault
           /\ work' = [work EXCEPT ![p].ok = TRUE]
        \/ /\ reports /\ Unhealthy(control)
           /\ UNCHANGED work
     /\ Leave(p)
     /\ UNCHANGED <<state, control, installed, inbox, rooted, trusted, proven>>

-----------------------------------------------------------------------------
(* RollbackPrevious. *)

\* The target is validated, the active generation captured in its place.
SwapRollbackTarget(p) ==
  LET current == state.active
      usable  == control # None /\ current # None /\ current # control
  IN /\ UnderLock(p, "swap")
     /\ \/ /\ ~usable                                  \* ErrNoRollbackTarget
           /\ Leave(p) /\ NoFault
           /\ UNCHANGED <<control, work, proven>>
        \/ /\ usable
           /\ Unhealthy(control) \/ Unhealthy(current)
           /\ Leave(p)
           /\ UNCHANGED <<control, work, proven>>
        \/ /\ usable /\ {control, current} \subseteq installed
           /\ proven' = proven \union {current}
           /\ \/ /\ control' = current
                 /\ work' = [work EXCEPT ![p].old = state, ![p].control = control,
                                         ![p].marked = TRUE]
                 /\ Goto(p, "switch") /\ NoFault
              \/ /\ control' \in AfterFailure(control, current)
                 /\ Leave(p) /\ WriteFault
                 /\ UNCHANGED work
     /\ UNCHANGED <<state, installed, inbox, rooted, trusted>>

\* Active and LKG move to the target in one write, before its health check.
SwitchToTarget(p) ==
  LET target == work[p].control
  IN /\ UnderLock(p, "switch")
     /\ WriteStateOrAbort(p, [work[p].old EXCEPT !.active = target,
                                                 !.lkg = target], "settle")
     /\ UNCHANGED <<work, control, installed, inbox, rooted, trusted, proven>>

\* Post-rollback health check and rollback report.
SettleRollback(p) ==
  /\ UnderLock(p, "settle")
  /\ \/ /\ Healthy(state.active)
        /\ Goto(p, "finish")
        /\ proven' = proven \union {state.active}
     \/ /\ Unhealthy(state.active) \/ WriteFault
        /\ Goto(p, "unswitch")
        /\ UNCHANGED proven
  /\ UNCHANGED <<work, state, control, installed, inbox, rooted, trusted>>

\* The old state is written back; an error of that write is ignored.
RevertSwitch(p) ==
  /\ UnderLock(p, "unswitch")
  /\ \/ state' = work[p].old /\ NoFault
     \/ state' \in AfterFailure(state, work[p].old) /\ WriteFault
  /\ Goto(p, "unmark")
  /\ UNCHANGED <<work, control, installed, inbox, rooted, trusted, proven>>

-----------------------------------------------------------------------------
\* A step the process takes by itself once it has begun something.
Step(p) ==
  \/ ProbeActive(p) \/ ResolveModel(p)
  \/ AcquireRuntimeLock(p) \/ LockRefused(p) \/ Release(p)
  \/ GuardTrustedTime(p) \/ VerifyPack(p) \/ MarkRollbackTarget(p)
  \/ StageGeneration(p) \/ AdvanceHighest(p) \/ ActivateGeneration(p)
  \/ ConfirmActivation(p) \/ PromoteLKG(p) \/ RevertActivation(p)
  \/ RestoreControl(p) \/ ComparePending(p) \/ TakePending(p)
  \/ ReportControl(p) \/ SwapRollbackTarget(p) \/ SwitchToTarget(p)
  \/ SettleRollback(p) \/ RevertSwitch(p)

Next ==
  \/ \E p \in Proc : Step(p) \/ Start(p) \/ Request(p) \/ Exit(p) \/ Kill(p)
  \/ AdminRecovery
  \/ Deposit

Spec == Init /\ [][Next]_vars

\* A process that has begun an operation keeps running it.  Starting, asking,
\* killing, depositing and administrative recovery are nobody's obligation.
FairSpec == Spec /\ \A p \in Proc : WF_vars(Step(p))
-----------------------------------------------------------------------------
(* Safety. *)

Pointers == {state.active, state.lkg, control} \ {None}

\* Whoever is inside a locked section of the code is the process whose
\* install.lock is on disk, hence alone, whatever was killed before.
MutualExclusion == \A p \in Proc : pc[p] \in Critical => lock = p

\* A lock that outlives the section it protects is evidence of a termination
\* or of a failed removal: no error path of the code forgets the lock.
StaleLockOnlyByFault ==
  \A p \in Proc : lock = p /\ pc[p] \notin Critical
                     => kills + writeFaults > 0

\* install.lock is held by whoever is inside, and by nobody else for long:
\* two updates never mix, and none makes the next one fail (RuntimeLock).
LockDiscipline == MutualExclusion /\ StaleLockOnlyByFault

\* At every instant, so also after a kill between any two writes, the active
\* generation, the last known good and the rollback target are completely
\* installed: a restart never finds a dangling pointer.
PointersInstalled == Pointers \subseteq installed

\* LKG and the manual-rollback target only ever designate generations that
\* passed a health check as the active generation.
FallbacksProven == {state.lkg, control} \ {None} \subseteq proven

\* No pointer designates a pack above the durable highest-seen record of its
\* pack id: trust is advanced before the pointer moves, on every path.
PointersBelowHighest ==
  \A g \in Pointers :
    LET seen == state.highest[PackIdOf[g]]
    IN seen # None /\ VersionOf[g] <= VersionOf[seen]

\* Whatever is on disk at any instant can be started from: every pointer is
\* installed and trusted, and what is fallen back to once worked
\* (installVerifiedGenerationLocked, RollbackPrevious).
PointersSound == PointersInstalled /\ FallbacksProven /\ PointersBelowHighest

\* Highest-seen records are never lost or rewound, and the pack seen for a
\* version is never exchanged for another of that version, whatever is
\* installed, rolled back, restored from an in-memory copy or interrupted.
HighestMonotone ==
  [][\A i \in PackIds : state.highest[i] # None =>
       \/ state'.highest[i] = state.highest[i]
       \/ /\ state'.highest[i] # None
          /\ VersionOf[state'.highest[i]] > VersionOf[state.highest[i]]]_vars

\* Trust state never exists without trusted-time.json, so no interruption
\* leaves a runtime root that the trusted-time guard refuses for ever.
TrustAnchored == durableTrustStateExists => trusted # 0

\* When every write succeeds and nothing is killed, each operation, failed
\* or not, ends with the active generation being the last known good.
SettledAgreement ==
  /\ writeFaults = 0 /\ kills = 0
  /\ \A p \in Proc : pc[p] \notin Critical
  => state.active = state.lkg

\* With one process and no failing operation, what an idle process serves is
\* what the durable state selects, across kills, restarts and recoveries.
ServedIsActive ==
  Cardinality(Proc) = 1 /\ writeFaults + healthFaults = 0 =>
    \A p \in Proc : pc[p] = "idle" => model[p] = state.active

\* At rest, what is active, what is served and what would be fallen back to
\* are one generation, as far as the failures before allow it
\* (installVerifiedGenerationLocked, Runtime.Handle).
AgreementAtRest == SettledAgreement /\ ServedIsActive

(* Liveness. *)

\* Every request and every start is answered: a lock nobody releases makes
\* operations fail, it never makes them wait, and the chain reload,
\* compensating rollback, reload ends.
Answered ==
  \A p \in Proc : pc[p] \notin {"idle", "down"} ~> pc[p] \in {"idle", "down"}

-----------------------------------------------------------------------------
(* A statement that the code does not keep; see README.md.                 *)

\* runtime.go:328 "previous read model restored".
RestoredIsPrevious ==
  [][\A p \in Proc : goal[p] = "restore" /\ goal'[p] = "none" /\ pc'[p] = "idle"
                        /\ model'[p] # None => model'[p] = model[p]]_vars
=============================================================================
