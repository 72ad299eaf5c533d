--------------------------- MODULE MCPackRuntime ---------------------------
(* Instances of PackRuntime for TLC, and its refinement of PackLedger. *)
EXTENDS PackRuntime, TLC

CONSTANTS p1, p2, a1, a2, a2x, b1

\* One pack id: a bundled version and two newer builds of one version.
OneId   == [g \in Pack |-> "atlas"]
\* a1, a2 and a2x are versions 1, 2 and (another build of) 2 of one pack, b1
\* is version 1 of another.
TwoIds  == [g \in Pack |-> IF g = b1 THEN "other" ELSE "atlas"]
Ranks   == [g \in Pack |-> IF g \in {a2, a2x} THEN 2 ELSE 1]

Symmetry == Permutations(Proc)

\* Between two operations the store is what is on disk; during one it is
\* still what the lock holder found.
Holder == {p \in Proc : pc[p] \in Critical}
View   == IF Holder = {} THEN [active |-> state.active, target |-> control]
                         ELSE entry

\* First starts under way: from the read that finds nothing active until
\* installing the bundle has succeeded or failed.
Starting == {p \in Proc : goal[p] = "boot"}

Ledger == INSTANCE PackLedger WITH
            active <- View.active, target <- View.target, starting <- Starting

\* Operations of several processes, with failing reads but no failing write
\* and no termination, look atomic: each is a ledger step or no step.  Only a
\* first start leaves the rollback target alone, and only with the bundle.
ImplementsLedger == Ledger!Spec
=============================================================================
