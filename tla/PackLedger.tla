---------------------------- MODULE PackLedger ----------------------------
(***************************************************************************)
(* What the pack runtime promises to whoever looks at it between two       *)
(* operations: an active generation and the generation a manual rollback   *)
(* would return to.  An update, a rollback and a first start are single    *)
(* steps.  An operation that fails before its change is durable is no      *)
(* step; one whose change is durable is the whole step, even if what       *)
(* follows (the report, the reload) fails and it is answered with an error.*)
(***************************************************************************)
CONSTANTS
  Pack, None,
  Proc,      \* processes that may start
  Bundle     \* the pack shipped with them

VARIABLES
  active, target,
  starting   \* processes that found nothing active and install the bundle

vars == <<active, target, starting>>

Init == active = None /\ target = None /\ starting = {}

\* openRuntimeWithBundle finds no active generation, without the lock.
Begin(p) ==
  /\ active = None
  /\ p \notin starting /\ starting' = starting \union {p}
  /\ UNCHANGED <<active, target>>

\* InstallAtlaspack: the bundled pack becomes active and nothing is recorded,
\* also when another process has activated something in the meantime.
Bootstrap(p) ==
  /\ p \in starting /\ starting' = starting \ {p}
  /\ active' = Bundle
  /\ UNCHANGED target

\* The start fails and leaves the store alone.
Abandon(p) ==
  /\ p \in starting /\ starting' = starting \ {p}
  /\ UNCHANGED <<active, target>>

\* ApplyPendingUpdate: the generation that was active becomes the target.
Update(g) ==
  /\ active' = g
  /\ target' = IF g = active THEN target ELSE active

\* RollbackPrevious: active and target are exchanged.
Rollback ==
  /\ {active, target} \subseteq Pack
  /\ active # target
  /\ active' = target /\ target' = active

Next ==
  \/ \E p \in Proc : Begin(p) \/ Bootstrap(p) \/ Abandon(p)
  \/ Rollback /\ UNCHANGED starting
  \/ \E g \in Pack : Update(g) /\ UNCHANGED starting

Spec == Init /\ [][Next]_vars
=============================================================================
