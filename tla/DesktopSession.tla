--------------------------- MODULE DesktopSession ---------------------------
(***************************************************************************)
(* The Tauri Desktop: the page (www/main.js) asks for commands, the host   *)
(* (main.rs) runs them one after the other on its main thread, each in a   *)
(* new atlas-core child process (CoreSession) that it gives 15 seconds.    *)
(*                                                                         *)
(* The host writes the handshake and the operation, closes the input, and  *)
(* reads the output only after the child has exited.                       *)
(*                                                                         *)
(* Simplifications.  Requests are small enough never to fill the input     *)
(* pipe, so they are written in one step.  The pack store is reduced to    *)
(* what PackLedger promises of it, with the lock and the instant of the    *)
(* durable change; reads of one kind (search, record, graph) are           *)
(* search.query.  The answers' contents are the pack panel's fields.       *)
(***************************************************************************)
EXTENDS Naturals, Sequences

CONSTANTS
  Sizes, MaxResponse, Capacity, None,   \* as in CoreSession
  Generation,    \* pack generations
  MaxQueue       \* bound on commands the page has under way

ASSUME DesktopAssumption ==
  /\ None \notin Generation
  /\ 1 \in Sizes
  /\ MaxQueue \in Nat

Operation == {"search.query", "pack.status", "pack.update", "pack.rollback"}
Action    == {"pack.update", "pack.rollback"}
MaxFrames == 2

VARIABLES
  \* the child process and its pipes, see CoreSession
  toCore, inputOpen, fromCore, outputOpen, received, sent,
  pc, shaken, current, reply, written, taken, replies, performed,
  \* the pack store, shared by all children
  active, target,   \* see PackLedger
  pending,     \* generation of the archive in the inbox, or None
  lock,        \* install.lock: "taken" while the file exists
  section,     \* how far the child is in a pack operation
  result,      \* contents of the child's reply
  commits,     \* history: durable changes of the current child
  \* the host
  hostPc,
  late,        \* 15 seconds have passed since the child was started
  queue,       \* commands invoked and not answered, the head is running
  \* the page
  answers,     \* answered promises whose continuation has not run
  page         \* what the pack panel shows, and whether the notice says that
               \* an action has succeeded

core  == <<pc, shaken, current, reply, written, taken, replies, performed>>
child == <<toCore, inputOpen, fromCore, outputOpen, received, sent, core>>
pack  == <<active, target, pending, lock>>
store == <<pack, section, result, commits>>
host  == <<hostPc, late, queue>>
vars  == <<child, store, host, answers, page>>

Core   == INSTANCE CoreSession
\* A generation is active from the beginning, so no child bootstraps.
Ledger == INSTANCE PackLedger WITH
            Pack <- Generation, Proc <- {}, Bundle <- None, starting <- {}

\* What pack.status reports and renderPack shows.
View == [active : Generation, pending : BOOLEAN, rollback : BOOLEAN]

\* "confirm" is the refresh that runPackAction awaits after its action.
Command == [method : Operation, purpose : {"ask", "confirm"}]

Init ==
  /\ Core!Init
  /\ active \in Generation /\ target = None /\ pending = None /\ lock = "free"
  /\ section = "outside" /\ result = None /\ commits = 0
  /\ hostPc = "idle" /\ late = FALSE
  /\ queue = <<>> /\ answers = <<>>
  /\ page = [panel |-> None, success |-> FALSE]

-----------------------------------------------------------------------------
(* The page. *)

\* The commands of runPackAction.
Acts(command) == command.method \in Action \/ command.purpose = "confirm"

Invoke(m, purpose) == queue' = Append(queue, [method |-> m, purpose |-> purpose])

\* Buttons stay enabled while a command is under way; those of the pack panel
\* depend on what it shows.
Click ==
  /\ Len(queue) + Len(answers) < MaxQueue
  /\ \/ Invoke("search.query", "ask") \/ Invoke("pack.status", "ask")
     \/ /\ page.panel # None
        /\ \/ page.panel.pending /\ Invoke("pack.update", "ask")
           \/ page.panel.rollback /\ Invoke("pack.rollback", "ask")
  /\ UNCHANGED <<child, store, hostPc, late, answers, page>>

Notify(panel, success) == page' = [panel |-> panel, success |-> success]

\* The continuation of an action: it is confirmed by a refresh of the panel,
\* and only the answer of that refresh makes the page report success.
Confirmed_AtOnce(a) ==
  UNCHANGED queue /\ Notify(page.panel, TRUE)
Confirmed(a) == Invoke("pack.status", "confirm") /\ UNCHANGED page

Resolve ==
  /\ answers # <<>>
  /\ answers' = Tail(answers)
  /\ LET a == Head(answers)
     IN \/ ~a.ok /\ Notify(page.panel, FALSE) /\ UNCHANGED queue
        \/ a.ok /\ a.command.method \in Action /\ Confirmed(a)
        \/ /\ a.ok /\ a.command.method = "pack.status"
           /\ Notify(a.view, page.success \/ a.command.purpose = "confirm")
           /\ UNCHANGED queue
        \/ /\ a.ok /\ a.command.method = "search.query"
           /\ Notify(page.panel, FALSE)
           /\ UNCHANGED queue
  /\ UNCHANGED <<child, store, hostPc, late>>

-----------------------------------------------------------------------------
(* The operations of the child on the pack store. *)

RollbackAvailable == target # None /\ target # active

PanelView ==
  [active |-> active, pending |-> pending # None, rollback |-> RollbackAvailable]

Operating(methods) == pc = "operating" /\ current.frame.method \in methods

\* Reads; pack.status also fails when the rollback target is not healthy.
Read ==
  /\ Operating({"search.query", "pack.status"})
  /\ \E ok \in BOOLEAN, n \in Sizes :
       /\ current.frame.method = "pack.status" => n = 1
       /\ Core!PerformAs(ok, n)
  /\ result' = IF current.frame.method = "pack.status" THEN PanelView ELSE None
  /\ UNCHANGED <<pack, section, commits, host, answers, page>>

\* The lock exists: the operation fails at once.
Refused ==
  /\ Operating(Action) /\ section = "outside" /\ lock # "free"
  /\ Core!PerformAs(FALSE, 1)
  /\ UNCHANGED <<store, host, answers, page>>

Enter ==
  /\ Operating(Action) /\ section = "outside" /\ lock = "free"
  /\ lock' = "taken" /\ section' = "locked"
  /\ UNCHANGED <<child, active, target, pending, result, commits, host, answers, page>>

\* The lock file is removed, and stays if that fails.
Leave == section' = "outside" /\ lock' \in {"free", lock}

\* Nothing pending, no target, or a check that fails before the change.
GiveUp ==
  /\ Operating(Action) /\ section = "locked"
  /\ Leave
  /\ Core!PerformAs(FALSE, 1)
  /\ UNCHANGED <<active, target, pending, result, commits, host, answers, page>>

Change ==
  /\ Operating(Action) /\ section = "locked"
  /\ \/ /\ current.frame.method = "pack.update" /\ pending # None
        /\ Ledger!Update(pending)
     \/ current.frame.method = "pack.rollback" /\ Ledger!Rollback
  /\ section' = "changed"
  /\ commits' = commits + 1
  /\ UNCHANGED <<child, pending, lock, result, host, answers, page>>

\* The archive is consumed, unless moving it fails; the reply can still be an
\* error, and then the change may have been undone by a second rollback.
Finish ==
  /\ Operating(Action) /\ section = "changed"
  /\ pending' \in {pending, IF current.frame.method = "pack.update" THEN None ELSE pending}
  /\ Leave
  /\ \/ Core!PerformAs(TRUE, 1) /\ UNCHANGED <<active, target, commits>>
     \/ Core!PerformAs(FALSE, 1) /\ UNCHANGED <<active, target, commits>>
     \/ Core!PerformAs(FALSE, 1) /\ Ledger!Rollback /\ commits' = commits + 1
  /\ UNCHANGED <<result, host, answers, page>>

\* Steps of the child; its pipe and protocol steps leave the store alone.
ChildStep ==
  \/ /\ Core!Open \/ Core!ReadFrame \/ Core!ReadEOF \/ Core!WriteFrame
     /\ UNCHANGED <<store, host, answers, page>>
  \/ Read \/ Refused \/ Enter \/ GiveUp \/ Change \/ Finish

\* An archive is put into the inbox; an administrator removes a lock that
\* nobody is working under.
Deposit ==
  /\ pending' \in Generation
  /\ UNCHANGED <<child, active, target, lock, section, result, commits, host, answers, page>>

AdminRecovery ==
  /\ lock = "taken" /\ section = "outside" /\ lock' = "free"
  /\ UNCHANGED <<child, active, target, pending, section, result, commits, host, answers, page>>

-----------------------------------------------------------------------------
(* The host. *)

\* The running command is answered and its child disposed of.
Settle(ok, view) ==
  /\ queue' = Tail(queue)
  /\ answers' = Append(answers, [command |-> Head(queue), ok |-> ok, view |-> view])
  /\ Core!Dispose
  /\ section' = "outside" /\ result' = None /\ commits' = 0
  /\ hostPc' = "idle" /\ late' = FALSE

\* run_core_session: the sidecar is verified and started, or the command fails.
Launch ==
  /\ hostPc = "idle" /\ queue # <<>>
  /\ \/ /\ Core!Spawn
        /\ hostPc' = "write"
        /\ UNCHANGED <<store, late, queue, answers>>
     \/ Settle(FALSE, None)
  /\ UNCHANGED <<pack, page>>

Wire ==
  LET request(n, m) == [id |-> n, frame |-> [kind |-> "request", method |-> m,
                                             params |-> "valid"]]
  IN <<request(1, "core.handshake"), request(2, Head(queue).method)>>

\* write_all fails if the child is already gone.
WriteRequests ==
  /\ hostPc = "write"
  /\ \/ /\ pc \notin Core!Ended
        /\ toCore' = Wire /\ sent' = 2 /\ inputOpen' = FALSE
        /\ hostPc' = "poll"
        /\ UNCHANGED <<fromCore, outputOpen, received, core, store, late, queue, answers>>
     \/ pc \in Core!Ended /\ Settle(FALSE, None)
  /\ UNCHANGED <<pack, page>>

\* try_wait ...
Poll_Waits ==
  /\ hostPc = "poll" /\ pc \in Core!Ended /\ hostPc' = "collect"
  /\ UNCHANGED <<child, store, late, queue, answers, page>>
Poll ==
  /\ hostPc = "poll"
  /\ hostPc' = IF pc \in Core!Ended THEN "collect" ELSE "check"
  /\ UNCHANGED <<child, store, late, queue, answers, page>>

\* ... and, if the child was still running, the clock: too late, it is killed
\* although it may have answered in the meantime.  A child killed inside the
\* locked section leaves the lock behind.
Check ==
  /\ hostPc = "check"
  /\ \/ /\ ~late
        /\ hostPc' = "poll"
        /\ UNCHANGED <<child, store, late, queue, answers>>
     \/ late /\ Settle(FALSE, None)
  /\ UNCHANGED <<pack, page>>

\* Where the responses end that are complete in what was read.
Complete(stream) == {k \in DOMAIN stream : stream[k].part = stream[k].reply.size}

\* Two responses, to the two requests in their order, and both successes.
Accepted_ExitStatus(stream) == pc = "exited"
Accepted(stream) ==
  /\ pc = "exited"
  /\ \E i, j \in Complete(stream) :
       /\ i < j /\ Complete(stream) = {i, j}
       /\ stream[i].reply.id = 1 /\ stream[i].reply.code = "OK"
       /\ stream[j].reply.id = 2 /\ stream[j].reply.code = "OK"

\* read_to_end and the checks of the two responses.
Collect ==
  /\ hostPc = "collect"
  /\ IF Accepted(fromCore) THEN Settle(TRUE, result) ELSE Settle(FALSE, None)
  /\ UNCHANGED <<pack, page>>

HostStep == Launch \/ WriteRequests \/ Poll \/ Check \/ Collect

Elapse ==
  /\ hostPc \in {"write", "poll", "check"} /\ ~late
  /\ late' = TRUE
  /\ UNCHANGED <<child, store, hostPc, queue, answers, page>>

-----------------------------------------------------------------------------
Next ==
  \/ Click \/ Resolve
  \/ HostStep \/ Elapse
  \/ ChildStep
  \/ Deposit \/ AdminRecovery

Spec == Init /\ [][Next]_vars

\* The host's thread and the clock go on.  The child is owed nothing: it may
\* hang, or wait for a pipe that the host does not read.
FairSpec == Spec /\ WF_vars(HostStep) /\ WF_vars(Elapse)

-----------------------------------------------------------------------------
(* Safety. *)

ActionsUnderWay ==
  \/ \E k \in DOMAIN queue : Acts(queue[k])
  \/ \E k \in DOMAIN answers : Acts(answers[k].command)

\* When the page reports that an action has succeeded and no other is under
\* way, the panel shows what is durably active and whether it can be rolled
\* back, whatever was clicked, queued, refused or timed out before.
ConfirmedPanel ==
  page.success /\ ~ActionsUnderWay =>
    /\ page.panel.active = active
    /\ page.panel.rollback = RollbackAvailable

\* The host tells the page that an action succeeded only if its child made
\* exactly one durable change and has left the section.
SuccessIsDone ==
  [][\A a \in {answers'[k] : k \in DOMAIN answers'} :
       /\ hostPc = "collect" /\ hostPc' = "idle"
       /\ a = answers'[Len(answers')]
       /\ a.ok /\ a.command.method \in Action
       => commits = 1 /\ section = "outside"]_vars

(* Liveness. *)

\* Whatever its child does, hang, fail, be killed inside the locked section or
\* block on a full pipe, the host answers every command the page has invoked
\* (run_core_session's loop over try_wait and the deadline).
CommandsAnswered == queue # <<>> ~> answers # <<>>

-----------------------------------------------------------------------------
\* ADR-0025:55 "maximum response payload: 8 MiB".  A response within that
\* bound should never leave host and child waiting for each other.
LegalResponsePasses ==
  ~ /\ hostPc \in {"poll", "check"}
    /\ pc = "writing" /\ reply.size <= MaxResponse
    /\ Len(fromCore) = Capacity
=============================================================================
