------------------------- MODULE PackRuntimeProofs -------------------------
(***************************************************************************)
(* Safety of PackRuntime for every set of processes and packs, every       *)
(* version order and every bound on faults; and, in the second half, that  *)
(* operations look atomic: between two of them the store agrees with       *)
(* itself and with what is served (AgreementAtRest), and, as long as no    *)
(* write fails and nothing is killed, each is one step of PackLedger or    *)
(* none (ImplementsLedger).                                                *)
(***************************************************************************)
EXTENDS MCPackRuntime, FiniteSetTheorems, TLAPS

-----------------------------------------------------------------------------
(* Lemmas about the operators of PackRuntime. *)

\* Recording a pack as seen keeps a runtime state a runtime state and changes
\* nothing but the entry of its pack id.
LEMMA ObservedState ==
  ASSUME NEW s \in RuntimeState, NEW g \in Pack
  PROVE  /\ Observed(s, g) \in RuntimeState
         /\ Observed(s, g).active = s.active
         /\ Observed(s, g).lkg = s.lkg
         /\ Observed(s, g).highest = [s.highest EXCEPT ![PackIdOf[g]] = g]
  BY DEF Observed, RuntimeState, Target, PackIds

\* The state that an installation activates.
LEMMA ActiveStateType ==
  ASSUME NEW p \in Proc, work[p] \in Locals, work[p].pack \in Pack
  PROVE  /\ ActiveState(p) \in RuntimeState
         /\ ActiveState(p).active = work[p].pack
         /\ ActiveState(p).lkg = work[p].old.lkg
         /\ ActiveState(p).highest
              = [work[p].old.highest EXCEPT ![PackIdOf[work[p].pack]] = work[p].pack]
  BY DEF ActiveState, Observed, RuntimeState, Target, Locals, PackIds

LEMMA InitialState == DefaultRuntimeState \in RuntimeState
  BY DEF DefaultRuntimeState, RuntimeState, Target

\* Setting the result of a locked function changes no other local.
LEMMA LocalsResult ==
  ASSUME NEW w \in Locals, NEW b \in BOOLEAN
  PROVE  /\ [w EXCEPT !.ok = b] \in Locals
         /\ [w EXCEPT !.ok = b].pack = w.pack
         /\ [w EXCEPT !.ok = b].old = w.old
         /\ [w EXCEPT !.ok = b].control = w.control
  BY DEF Locals

\* What an exchange of the two pointers remembers changes no other local.
LEMMA LocalsMarked ==
  ASSUME NEW w \in Locals, NEW s \in RuntimeState, NEW c \in Target
  PROVE  LET v == [w EXCEPT !.old = s, !.control = c, !.marked = TRUE]
         IN v \in Locals /\ v.pack = w.pack
  BY DEF Locals

-----------------------------------------------------------------------------
(* Type correctness. *)

\* The pack under installation is known from the moment it is verified.
Installing == {"mark", "stage", "advance", "activate", "confirm", "promote",
               "revert"}

PackKnown == \A p \in Proc : pc[p] \in Installing => work[p].pack \in Pack

TypeInv == TypeOK /\ PackKnown

LEMMA TypeInit == Init => TypeInv
  <1> SUFFICES ASSUME Init PROVE TypeInv
    OBVIOUS
  <1>1. Blank \in Locals
    BY InitialState DEF Blank, Locals, Target
  <1>2. \A b \in {MaxWriteFaults, MaxHealthFaults, MaxKills, MaxDeposits} : 0 \in 0..b
    BY BoundAssumption
  <1>3. TypeOK
    BY <1>1, <1>2, InitialState
    DEF Init, TypeOK, Target, Label, Critical, Goal
  <1>4. PackKnown
    BY DEF Init, PackKnown, Installing
  <1>5. QED
    BY <1>3, <1>4 DEF TypeInv

LEMMA TypeStep == TypeInv /\ [Next]_vars => TypeInv'
  <1> SUFFICES ASSUME TypeInv, [Next]_vars PROVE TypeInv'
    OBVIOUS
  <1> USE PackAssumption, ProcAssumption, BoundAssumption
  <1> USE DEF TypeInv, TypeOK, PackKnown, Installing, Label, Critical
  <1>1. ASSUME NEW p \in Proc, Start(p) PROVE TypeInv'
    BY <1>1 DEF Start, Call, Goto, Goal, durable, budgets, history
  <1>2. ASSUME NEW p \in Proc, ProbeActive(p) PROVE TypeInv'
    BY <1>2 DEF ProbeActive, Fail, Call, Goto, Goal, Target, durable, budgets, history
  <1>3. ASSUME NEW p \in Proc, ResolveModel(p) PROVE TypeInv'
    BY <1>3 DEF ResolveModel, Fail, Call, Goto, Goal, Target, Healthy, Unhealthy,
         HealthFault, NoFault, durable, history
  <1>4. ASSUME NEW p \in Proc, Request(p) PROVE TypeInv'
    BY <1>4 DEF Request, Call, Goto, Goal, durable, budgets, history
  <1>5. ASSUME NEW p \in Proc, Exit(p) PROVE TypeInv'
    BY <1>5 DEF Exit, Call, Goto, Goal, Target, durable, budgets, history
  <1>6. ASSUME NEW p \in Proc, Kill(p) PROVE TypeInv'
    BY <1>6, InitialState DEF Kill, Call, Goto, Goal, Target, durable, Locals, Blank
  <1>7. ASSUME NEW p \in Proc, AcquireRuntimeLock(p) PROVE TypeInv'
    BY <1>7 DEF AcquireRuntimeLock, Goto, RuntimeState, budgets
  <1>8. ASSUME NEW p \in Proc, LockRefused(p) PROVE TypeInv'
    BY <1>8 DEF LockRefused, Fail, Call, Goto, Goal, Target, WriteFault, NoFault,
         durable, history
  <1>9. ASSUME NEW p \in Proc, Release(p) PROVE TypeInv'
    <2>1. /\ pc' \in [Proc -> Label]
          /\ goal' \in [Proc -> Goal]
          /\ model' \in [Proc -> Target]
          /\ pc'[p] \notin Critical
          /\ \A q \in Proc \ {p} : pc'[q] = pc[q]
      BY <1>9 DEF Release, Fail, Succeed, Call, Goto, Goal, Target
    <2>2. Blank \in Locals
      BY InitialState DEF Blank, Locals, Target
    <2>3. /\ writeFaults' \in 0..MaxWriteFaults
          /\ healthFaults' \in 0..MaxHealthFaults
          /\ lock' \in Proc \union {None}
      BY <1>9 DEF Release, NoFault, WriteFault
    <2>4. QED
      BY <1>9, <2>1, <2>2, <2>3 DEF Release
  <1>10. ASSUME NEW p \in Proc, GuardTrustedTime(p) PROVE TypeInv'
    <2>1. trusted' \in Nat
      BY <1>10 DEF GuardTrustedTime, AfterFailure
    <2>2. work' = work \/ work' = [work EXCEPT ![p].seen = inbox]
      BY <1>10 DEF GuardTrustedTime, AfterGuard
    <2> DEFINE w == [work[p] EXCEPT !.seen = inbox]
    <2>3. work' \in [Proc -> Locals] /\ \A q \in Proc : work'[q].pack = work[q].pack
      <3>1. w \in Locals /\ w.pack = work[p].pack
        BY DEF Locals
      <3>2. work' = work \/ work' = [work EXCEPT ![p] = w]
        BY <2>2
      <3> HIDE DEF w
      <3>3. QED
        BY <3>1, <3>2
    <2>4. pc' = pc \/ \E l \in {"verify", "swap", "release"} : pc' = [pc EXCEPT ![p] = l]
      BY <1>10 DEF GuardTrustedTime, AfterGuard, Leave, Goto
    <2>5. pc' \in [Proc -> Label] /\ PackKnown'
      BY <2>3, <2>4
    <2>6. writeFaults' \in 0..MaxWriteFaults /\ healthFaults' \in 0..MaxHealthFaults
      BY <1>10 DEF GuardTrustedTime, NoFault, WriteFault
    <2>7. QED
      BY <1>10, <2>1, <2>3, <2>5, <2>6 DEF GuardTrustedTime, UnderLock
  <1>11. ASSUME NEW p \in Proc, VerifyPack(p) PROVE TypeInv'
    <2> DEFINE archive == IF goal[p] = "boot" THEN Bundle
                          ELSE IF inbox = None THEN None ELSE inbox.pack
    <2>1. archive \in Target
      BY DEF Target, PendingFile
    <2>2. CASE /\ archive # None
               /\ work' = [work EXCEPT ![p].pack = archive]
               /\ Goto(p, IF goal[p] = "boot" THEN "stage" ELSE "mark")
      <3>1. work' \in [Proc -> Locals] /\ work'[p].pack \in Pack
            /\ \A q \in Proc \ {p} : work'[q] = work[q]
        BY <2>1, <2>2 DEF Locals, Target
      <3>2. pc' \in [Proc -> Label] /\ PackKnown'
        BY <2>2, <3>1 DEF Goto
      <3>3. QED
        BY <1>11, <3>1, <3>2 DEF VerifyPack, UnderLock, NoFault
    <2>3. CASE Leave(p) /\ UNCHANGED work
      BY <1>11, <2>3 DEF VerifyPack, UnderLock, NoFault, Leave, Goto
    <2>4. QED
      BY <1>11, <2>2, <2>3 DEF VerifyPack
  <1>12. ASSUME NEW p \in Proc, MarkRollbackTarget(p) PROVE TypeInv'
    <2>1. state.active \in Target
      BY DEF RuntimeState
    <2>2. control' \in Target
      BY <1>12, <2>1 DEF MarkRollbackTarget, AfterFailure
    <2>3. proven' \subseteq Pack
      BY <1>12, <2>1 DEF MarkRollbackTarget, Target
    <2>4. work' \in [Proc -> Locals] /\ \A q \in Proc : work'[q].pack = work[q].pack
      <3> DEFINE W(b) == [work[p] EXCEPT !.control = control, !.marked = b]
      <3>1. work' = work \/ \E b \in BOOLEAN : work' = [work EXCEPT ![p] = W(b)]
        BY <1>12 DEF MarkRollbackTarget
      <3>2. ASSUME NEW b \in BOOLEAN PROVE W(b) \in Locals /\ W(b).pack = work[p].pack
        <4>1. work[p] \in Locals
          OBVIOUS
        <4>2. QED
          BY <4>1 DEF Locals
      <3> HIDE DEF W
      <3>3. QED
        BY <3>1, <3>2
    <2>5. pc' \in [Proc -> Label] /\ PackKnown'
      BY <1>12, <2>4 DEF MarkRollbackTarget, UnderLock, Leave, Goto
    <2>6. writeFaults' \in 0..MaxWriteFaults /\ healthFaults' \in 0..MaxHealthFaults
      BY <1>12 DEF MarkRollbackTarget, NoFault, WriteFault, HealthFault, Healthy, Unhealthy
    <2>7. QED
      BY <1>12, <2>2, <2>3, <2>4, <2>5, <2>6 DEF MarkRollbackTarget, UnderLock
  <1>13. ASSUME NEW p \in Proc, StageGeneration(p) PROVE TypeInv'
    BY <1>13 DEF StageGeneration, UnderLock, Abort, Goto, NoFault, WriteFault,
         HealthFault, AfterFailure, Staged, Locals
  <1>14. ASSUME NEW p \in Proc, AdvanceHighest(p) PROVE TypeInv'
    <2>1. Observed(work[p].old, work[p].pack) \in RuntimeState
      BY <1>14, ObservedState DEF AdvanceHighest, UnderLock, Locals
    <2>2. QED
      BY <1>14, <2>1 DEF AdvanceHighest, WriteStateOrAbort, AfterFailure, UnderLock, Abort, Goto,
        NoFault, WriteFault
  <1>15. ASSUME NEW p \in Proc, ActivateGeneration(p) PROVE TypeInv'
    <2>1. ActiveState(p) \in RuntimeState
      BY <1>15, ActiveStateType DEF ActivateGeneration, UnderLock
    <2>2. QED
      BY <1>15, <2>1 DEF ActivateGeneration, WriteStateOrAbort, AfterFailure, UnderLock, Abort,
        Goto, NoFault, WriteFault
  <1>16. ASSUME NEW p \in Proc, ConfirmActivation(p) PROVE TypeInv'
    BY <1>16 DEF ConfirmActivation, UnderLock, Goto, NoFault, HealthFault, Healthy, Unhealthy
  <1>17. ASSUME NEW p \in Proc, PromoteLKG(p) PROVE TypeInv'
    <2>1. [ActiveState(p) EXCEPT !.lkg = work[p].pack] \in RuntimeState
      BY <1>17, ActiveStateType DEF PromoteLKG, UnderLock, RuntimeState, Target
    <2>2. state' \in RuntimeState
      BY <1>17, <2>1 DEF PromoteLKG, AfterFailure
    <2>3. \E b \in BOOLEAN : work' = work \/ work' = [work EXCEPT ![p].ok = b]
      BY <1>17 DEF PromoteLKG
    <2>4. work' \in [Proc -> Locals] /\ \A q \in Proc : work'[q].pack = work[q].pack
      BY <2>3 DEF Locals
    <2>5. pc' \in [Proc -> Label] /\ PackKnown'
      BY <1>17, <2>4 DEF PromoteLKG, UnderLock, Abort, Goto
    <2>6. writeFaults' \in 0..MaxWriteFaults /\ healthFaults' \in 0..MaxHealthFaults
      BY <1>17 DEF PromoteLKG, NoFault, WriteFault
    <2>7. QED
      BY <1>17, <2>2, <2>4, <2>5, <2>6 DEF PromoteLKG, UnderLock
  <1>18. ASSUME NEW p \in Proc, RevertActivation(p) PROVE TypeInv'
    <2>1. RevertedState(p) \in RuntimeState
      <3> DEFINE o == Observed(work[p].old, work[p].pack)
      <3>1. o \in RuntimeState /\ work[p].old \in RuntimeState
        BY <1>18, ObservedState DEF RevertActivation, UnderLock, Locals
      <3>2. \A a \in Target : [o EXCEPT !.active = a] \in RuntimeState
        BY <3>1 DEF RuntimeState
      <3> HIDE DEF o
      <3>3. work[p].old.lkg \in Target /\ work[p].old.active \in Target
        BY <3>1 DEF RuntimeState
      <3>4. QED
        BY <3>2, <3>3 DEF RevertedState, o
    <2>2. QED
      BY <1>18, <2>1 DEF RevertActivation, AfterFailure, UnderLock, Abort, Goto, NoFault, WriteFault
  <1>19. ASSUME NEW p \in Proc, RestoreControl(p) PROVE TypeInv'
    BY <1>19 DEF RestoreControl, AfterFailure, UnderLock, Leave, Goto, NoFault, WriteFault, Locals
  <1>20. ASSUME NEW p \in Proc, ComparePending(p) PROVE TypeInv'
    BY <1>20 DEF ComparePending, UnderLock, Goto, NoFault
  <1>21. ASSUME NEW p \in Proc, TakePending(p) PROVE TypeInv'
    BY <1>21 DEF TakePending, UnderLock, Goto, NoFault, WriteFault
  <1>22. ASSUME NEW p \in Proc, ReportControl(p) PROVE TypeInv'
    <2>1. work' = work \/ work' = [work EXCEPT ![p].ok = TRUE]
      BY <1>22 DEF ReportControl
    <2> DEFINE w == [work[p] EXCEPT !.ok = TRUE]
    <2>2. work' \in [Proc -> Locals] /\ \A q \in Proc : work'[q].pack = work[q].pack
      <3>1. w \in Locals /\ w.pack = work[p].pack
        BY LocalsResult
      <3>2. work' = work \/ work' = [work EXCEPT ![p] = w]
        BY <2>1
      <3> HIDE DEF w
      <3>3. QED
        BY <3>1, <3>2
    <2>3. writeFaults' \in 0..MaxWriteFaults /\ healthFaults' \in 0..MaxHealthFaults
      BY <1>22 DEF ReportControl, NoFault, HealthFault, Healthy, Unhealthy
    <2>4. QED
      BY <1>22, <2>2, <2>3 DEF ReportControl, UnderLock, Leave, Goto
  <1>23. ASSUME NEW p \in Proc, SwapRollbackTarget(p) PROVE TypeInv'
    <2>1. state.active \in Target
      BY DEF RuntimeState
    <2>2. control' \in Target
      BY <1>23, <2>1 DEF SwapRollbackTarget, AfterFailure
    <2>3. proven' \subseteq Pack
      BY <1>23, <2>1 DEF SwapRollbackTarget, Target
    <2>4. work' \in [Proc -> Locals] /\ \A q \in Proc : work'[q].pack = work[q].pack
      <3> DEFINE w == [work[p] EXCEPT !.old = state, !.control = control, !.marked = TRUE]
      <3>1. work' = work \/ work' = [work EXCEPT ![p] = w]
        BY <1>23 DEF SwapRollbackTarget
      <3>2. w \in Locals /\ w.pack = work[p].pack
        BY LocalsMarked
      <3> HIDE DEF w
      <3>3. QED
        BY <3>1, <3>2
    <2>5. pc' \in [Proc -> Label] /\ PackKnown'
      BY <1>23, <2>4 DEF SwapRollbackTarget, UnderLock, Leave, Goto
    <2>6. writeFaults' \in 0..MaxWriteFaults /\ healthFaults' \in 0..MaxHealthFaults
      BY <1>23 DEF SwapRollbackTarget, NoFault, WriteFault, HealthFault, Unhealthy
    <2>7. QED
      BY <1>23, <2>2, <2>3, <2>4, <2>5, <2>6 DEF SwapRollbackTarget, UnderLock
  <1>24. ASSUME NEW p \in Proc, SwitchToTarget(p) PROVE TypeInv'
    <2>1. [work[p].old EXCEPT !.active = work[p].control, !.lkg = work[p].control]
            \in RuntimeState
      BY DEF Locals, RuntimeState
    <2>2. QED
      BY <1>24, <2>1 DEF SwitchToTarget, WriteStateOrAbort, AfterFailure, UnderLock, Abort, Goto,
        NoFault, WriteFault
  <1>25. ASSUME NEW p \in Proc, SettleRollback(p) PROVE TypeInv'
    BY <1>25 DEF SettleRollback, UnderLock, Goto, NoFault, HealthFault, WriteFault, Healthy,
      Unhealthy
  <1>26. ASSUME NEW p \in Proc, RevertSwitch(p) PROVE TypeInv'
    BY <1>26 DEF RevertSwitch, AfterFailure, UnderLock, Goto, NoFault, WriteFault, Locals
  <1>27. CASE AdminRecovery
    BY <1>27 DEF AdminRecovery, volatile, budgets, history
  <1>28. CASE Deposit
    <2>1. deposits' \in 1..MaxDeposits
      BY <1>28 DEF Deposit
    <2>2. inbox' \in PendingFile
      BY <1>28, <2>1 DEF Deposit, PendingFile
    <2>3. QED
      BY <1>28, <2>1, <2>2 DEF Deposit, volatile, history
  <1>29. CASE UNCHANGED vars
    BY <1>29 DEF vars, durable, volatile, budgets, history
  <1>30. QED
    BY <1>1, <1>2, <1>3, <1>4, <1>5, <1>6, <1>7, <1>8, <1>9, <1>10, <1>11, <1>12, <1>13,
       <1>14, <1>15, <1>16, <1>17, <1>18, <1>19, <1>20, <1>21, <1>22, <1>23, <1>24, <1>25,
       <1>26, <1>27, <1>28, <1>29 DEF Next, Step

\* TypeOK: every variable stays in its type.
THEOREM TypeCorrect == Spec => []TypeOK
  <1>1. Spec => []TypeInv
    BY TypeInit, TypeStep, PTL DEF Spec
  <1>2. QED
    BY <1>1, PTL DEF TypeInv

-----------------------------------------------------------------------------
(* Steps inside the locked section, and all others. *)

Locked(p) ==
  \/ GuardTrustedTime(p) \/ VerifyPack(p) \/ MarkRollbackTarget(p)
  \/ StageGeneration(p) \/ AdvanceHighest(p) \/ ActivateGeneration(p)
  \/ ConfirmActivation(p) \/ PromoteLKG(p) \/ RevertActivation(p)
  \/ RestoreControl(p) \/ ComparePending(p) \/ TakePending(p)
  \/ ReportControl(p) \/ SwapRollbackTarget(p) \/ SwitchToTarget(p)
  \/ SettleRollback(p) \/ RevertSwitch(p)

Unlocked ==
  \/ \E p \in Proc : \/ Start(p) \/ ProbeActive(p) \/ ResolveModel(p)
                     \/ Request(p) \/ Exit(p) \/ Kill(p)
                     \/ AcquireRuntimeLock(p) \/ LockRefused(p) \/ Release(p)
  \/ AdminRecovery \/ Deposit \/ UNCHANGED vars

LEMMA StepKinds == [Next]_vars => Unlocked \/ \E p \in Proc : Locked(p)
  BY DEF Next, Step, Unlocked, Locked

\* A step inside the section neither enters nor leaves it.
LEMMA LockedSection ==
  ASSUME TypeInv, NEW p \in Proc, Locked(p)
  PROVE  /\ pc[p] \in Critical
         /\ \E l \in Critical : pc' = [pc EXCEPT ![p] = l]
         /\ UNCHANGED <<lock, goal, model, kills, deposits, entry>>
         /\ writeFaults' >= writeFaults
         /\ \A q \in Proc \ {p} : work'[q] = work[q]
         /\ proven \subseteq proven'
         /\ installed \subseteq installed'
  <1> USE DEF TypeInv, TypeOK, UnderLock, Goto, Leave, Abort, Critical
  <1> USE DEF NoFault, WriteFault, HealthFault, Healthy, Unhealthy
  <1>1. CASE GuardTrustedTime(p)
    BY <1>1 DEF GuardTrustedTime, AfterGuard
  <1>2. CASE VerifyPack(p)
    <2>1. \E l \in {"stage", "mark", "release"} : pc' = [pc EXCEPT ![p] = l]
      BY <1>2 DEF VerifyPack
    <2>2. \A q \in Proc \ {p} : work'[q] = work[q]
      BY <1>2 DEF VerifyPack
    <2>3. /\ pc[p] = "verify"
          /\ UNCHANGED <<lock, goal, model, kills, deposits, entry, writeFaults, proven, installed>>
      BY <1>2 DEF VerifyPack
    <2>4. \E l \in Critical : pc' = [pc EXCEPT ![p] = l]
      BY <2>1
    <2>5. writeFaults' >= writeFaults
      BY <2>3, BoundAssumption
    <2>6. QED
      BY <2>2, <2>3, <2>4, <2>5
  <1>3. CASE MarkRollbackTarget(p)
    BY <1>3 DEF MarkRollbackTarget
  <1>4. CASE StageGeneration(p)
    BY <1>4 DEF StageGeneration, AfterFailure, Staged
  <1>5. CASE AdvanceHighest(p) \/ ActivateGeneration(p) \/ SwitchToTarget(p)
    BY <1>5 DEF AdvanceHighest, ActivateGeneration, SwitchToTarget, WriteStateOrAbort
  <1>6. CASE ConfirmActivation(p) \/ PromoteLKG(p) \/ RevertActivation(p) \/ RestoreControl(p)
    BY <1>6 DEF ConfirmActivation, PromoteLKG, RevertActivation, RestoreControl
  <1>7. CASE ComparePending(p) \/ TakePending(p) \/ ReportControl(p)
    BY <1>7 DEF ComparePending, TakePending, ReportControl
  <1>8. CASE SwapRollbackTarget(p) \/ SettleRollback(p) \/ RevertSwitch(p)
    BY <1>8 DEF SwapRollbackTarget, SettleRollback, RevertSwitch
  <1>9. QED
    BY <1>1, <1>2, <1>3, <1>4, <1>5, <1>6, <1>7, <1>8 DEF Locked

\* A step outside the section changes nothing the section works on, and a
\* process that is inside after it was already there, or has just entered.
LEMMA UnlockedFrame ==
  ASSUME TypeInv, Unlocked
  PROVE  /\ UNCHANGED <<state, control, installed, rooted, trusted, proven>>
         /\ \A p \in Proc : work'[p] = work[p] \/ work'[p] = Blank
         /\ \A p \in Proc : pc'[p] \in Critical \ {"guard", "release"}
                             => pc'[p] = pc[p] /\ work'[p] = work[p]
  <1> USE DEF TypeInv, TypeOK, Call, Goto, Fail, Critical, durable, budgets, history
  <1>1. ASSUME NEW q \in Proc, Start(q) \/ Request(q) \/ Exit(q)
        PROVE  /\ UNCHANGED <<state, control, installed, rooted, trusted, proven, work>>
               /\ \A p \in Proc : pc'[p] \in Critical => pc'[p] = pc[p]
    BY <1>1 DEF Start, Request, Exit
  <1>2. ASSUME NEW q \in Proc, ProbeActive(q) \/ ResolveModel(q) \/ LockRefused(q)
        PROVE  /\ UNCHANGED <<state, control, installed, rooted, trusted, proven, work>>
               /\ \A p \in Proc : pc'[p] \in Critical => pc'[p] = pc[p]
    BY <1>2 DEF ProbeActive, ResolveModel, LockRefused
  <1>3. ASSUME NEW q \in Proc, AcquireRuntimeLock(q)
        PROVE  /\ UNCHANGED <<state, control, installed, rooted, trusted, proven, work>>
               /\ \A p \in Proc : pc'[p] \in Critical => pc'[p] = pc[p] \/ pc'[p] = "guard"
    BY <1>3 DEF AcquireRuntimeLock
  <1>4. ASSUME NEW q \in Proc, Release(q) \/ Kill(q)
        PROVE  /\ UNCHANGED <<state, control, installed, rooted, trusted, proven>>
               /\ work' = [work EXCEPT ![q] = Blank]
               /\ pc'[q] \notin Critical
               /\ \A p \in Proc \ {q} : pc'[p] = pc[p]
    BY <1>4 DEF Release, Kill, Succeed
  <1>5. CASE AdminRecovery \/ Deposit \/ UNCHANGED vars
    BY <1>5 DEF AdminRecovery, Deposit, volatile, vars
  <1>6. QED
    BY <1>1, <1>2, <1>3, <1>4, <1>5 DEF Unlocked

-----------------------------------------------------------------------------
(* The install lock. *)

LockInv == MutualExclusion /\ StaleLockOnlyByFault

LEMMA LockStep == TypeInv /\ LockInv /\ [Next]_vars => LockInv'
  <1> SUFFICES ASSUME TypeInv, LockInv, [Next]_vars PROVE LockInv'
    OBVIOUS
  <1> USE ProcAssumption, BoundAssumption
  <1> USE DEF TypeInv, TypeOK, LockInv, MutualExclusion, StaleLockOnlyByFault
  <1>1. ASSUME NEW p \in Proc, Locked(p) PROVE LockInv'
    BY <1>1, LockedSection
  <1>2. ASSUME NEW p \in Proc, Start(p) \/ Request(p) \/ Exit(p) \/ ProbeActive(p)
        PROVE  LockInv'
    BY <1>2 DEF Start, Request, Exit, ProbeActive, Fail, Call, Goto, Critical, durable, budgets
  <1>3. ASSUME NEW p \in Proc, ResolveModel(p) \/ LockRefused(p) PROVE LockInv'
    BY <1>3 DEF ResolveModel, LockRefused, Fail, Call, Goto, Critical, durable, Healthy,
      Unhealthy, NoFault, WriteFault, HealthFault
  <1>4. ASSUME NEW p \in Proc, Kill(p) PROVE LockInv'
    BY <1>4 DEF Kill, Call, Goto, Critical, durable
  <1>5. ASSUME NEW p \in Proc, AcquireRuntimeLock(p) PROVE LockInv'
    BY <1>5 DEF AcquireRuntimeLock, LockFree, Goto, Critical, budgets
  <1>6. ASSUME NEW p \in Proc, Release(p) PROVE LockInv'
    <2>1. pc'[p] \notin Critical /\ \A q \in Proc \ {p} : pc'[q] = pc[q]
      BY <1>6 DEF Release, Fail, Succeed, Call, Goto, Critical
    <2>2. lock = p /\ pc[p] \in Critical
      BY <1>6 DEF Release, Critical
    <2>3. lock' = None \/ (lock' = p /\ writeFaults' = writeFaults + 1)
      BY <1>6, <2>2 DEF Release, WriteFault
    <2>4. QED
      BY <1>6, <2>1, <2>2, <2>3 DEF Release, NoFault
  <1>7. CASE AdminRecovery
    BY <1>7 DEF AdminRecovery, volatile, budgets
  <1>8. CASE Deposit \/ UNCHANGED vars
    BY <1>8 DEF Deposit, vars, durable, volatile, budgets
  <1>9. QED
    BY <1>1, <1>2, <1>3, <1>4, <1>5, <1>6, <1>7, <1>8, StepKinds DEF Unlocked

LEMMA Invariants1 == Spec => [](TypeInv /\ LockInv)
  <1>1. Init => LockInv
    BY ProcAssumption DEF Init, LockInv, MutualExclusion, StaleLockOnlyByFault, Critical
  <1>2. QED
    BY <1>1, TypeInit, TypeStep, LockStep, PTL DEF Spec

\* MutualExclusion: whoever is inside the locked section owns the lock file.
THEOREM LockExcludes == Spec => []MutualExclusion
  BY Invariants1, PTL DEF LockInv

\* StaleLockOnlyByFault: only a kill or a failed write leaves a lock behind.
THEOREM LockReturned == Spec => []StaleLockOnlyByFault
  BY Invariants1, PTL DEF LockInv

\* LockDiscipline: the lock excludes, and is given back on every path that is
\* not cut short (AcquireRuntimeLock, RuntimeLock.Close).
THEOREM LockKept == Spec => []LockDiscipline
  BY LockExcludes, LockReturned, PTL DEF LockDiscipline

-----------------------------------------------------------------------------
(* Pointers: the state on disk designates the active generation and two     *)
(* fallbacks; a process saves them in its locals to write them back.        *)

Advanced == {"activate", "confirm", "promote", "revert"}

Switched(p) == [work[p].old EXCEPT !.active = work[p].control, !.lkg = work[p].control]

Saved(p) == {work[p].old.active, work[p].old.lkg, work[p].control} \ {None}

Fallbacks == {state.lkg, control} \ {None}

SavedFallbacks(p) == {work[p].old.lkg, work[p].control} \ {None}

\* Where a pointer on disk, or saved by a process, can come from.
LEMMA PointerSources ==
  ASSUME TypeInv, NEW p \in Proc, Locked(p)
  PROVE  /\ Pointers' \subseteq Pointers \union Saved(p)
              \union (IF pc[p] \in Advanced THEN {work[p].pack} ELSE {})
         /\ Saved(p)' \subseteq Saved(p) \union Pointers
         /\ Fallbacks' \subseteq Fallbacks \union SavedFallbacks(p) \union proven'
              \union (IF pc[p] = "promote" THEN {work[p].pack} ELSE {})
         /\ SavedFallbacks(p)' \subseteq SavedFallbacks(p) \union Fallbacks
  <1> DEFINE old == work[p].old
  <1> USE DEF TypeInv, TypeOK, UnderLock, Pointers, Saved, Advanced, Fallbacks, SavedFallbacks
  <1>1. work[p] \in Locals /\ old \in RuntimeState
    BY DEF Locals
  <1>2. CASE GuardTrustedTime(p) \/ VerifyPack(p)
    <2>1. UNCHANGED <<state, control>>
      BY <1>2 DEF GuardTrustedTime, VerifyPack
    <2>2. \E x : \/ work' = work \/ work' = [work EXCEPT ![p].seen = x]
                 \/ work' = [work EXCEPT ![p].pack = x]
      BY <1>2 DEF GuardTrustedTime, AfterGuard, VerifyPack
    <2>3. work'[p].old = old /\ work'[p].control = work[p].control
      BY <2>2, <1>1 DEF Locals
    <2>4. QED
      BY <2>1, <2>3
  <1>3. CASE MarkRollbackTarget(p)
    <2>1. /\ state' = state
          /\ \/ control' = control
             \/ control' = state.active /\ state.active \in proven' \union {None}
      BY <1>3 DEF MarkRollbackTarget, AfterFailure
    <2>2. \/ work' = work
          \/ \E b : work' = [work EXCEPT ![p] = [work[p] EXCEPT !.control = control,
                                                            !.marked = b]]
      BY <1>3 DEF MarkRollbackTarget
    <2>3. work'[p].old = old /\ work'[p].control \in {work[p].control, control}
      BY <2>2, <1>1 DEF Locals
    <2>4. QED
      BY <2>1, <2>3
  <1>4. CASE StageGeneration(p)
    <2>1. UNCHANGED <<state, control>> /\ work' = [work EXCEPT ![p].old = state]
      BY <1>4 DEF StageGeneration
    <2>2. work'[p].old = state /\ work'[p].control = work[p].control
      BY <2>1, <1>1 DEF Locals
    <2>3. QED
      BY <2>1, <2>2
  <1>5. CASE AdvanceHighest(p)
    <2>1. Observed(old, work[p].pack).active = old.active /\ Observed(old, work[p].pack).lkg = old.lkg
      BY <1>5, <1>1, ObservedState DEF AdvanceHighest, PackKnown, Installing
    <2>2. state' \in {state, Observed(old, work[p].pack)} /\ UNCHANGED <<work, control>>
      BY <1>5 DEF AdvanceHighest, WriteStateOrAbort, AfterFailure
    <2>3. QED
      BY <2>1, <2>2
  <1>6. CASE ActivateGeneration(p)
    <2>1. ActiveState(p).active = work[p].pack /\ ActiveState(p).lkg = old.lkg
      BY <1>6, <1>1, ActiveStateType DEF ActivateGeneration, PackKnown, Installing
    <2>2. /\ pc[p] = "activate" /\ UNCHANGED <<work, control>>
          /\ state' \in {state, ActiveState(p)}
      BY <1>6 DEF ActivateGeneration, WriteStateOrAbort, AfterFailure
    <2>3. QED
      BY <2>1, <2>2
  <1>7. CASE PromoteLKG(p)
    <2> DEFINE next == [ActiveState(p) EXCEPT !.lkg = work[p].pack]
    <2>1. next.active = work[p].pack /\ next.lkg = work[p].pack
      BY <1>7, <1>1, ActiveStateType DEF PromoteLKG, PackKnown, Installing, RuntimeState
    <2>2. pc[p] = "promote" /\ state' \in {state, next} /\ UNCHANGED control
      BY <1>7 DEF PromoteLKG, AfterFailure
    <2> HIDE DEF next
    <2>3. \E b \in BOOLEAN : work' = work \/ work' = [work EXCEPT ![p].ok = b]
      BY <1>7 DEF PromoteLKG
    <2>4. work'[p].old = old /\ work'[p].control = work[p].control
      BY <2>3, <1>1 DEF Locals
    <2>5. QED
      BY <2>1, <2>2, <2>4
  <1>8. CASE RevertActivation(p)
    <2> DEFINE o == Observed(old, work[p].pack)
    <2>1. o \in RuntimeState /\ o.lkg = old.lkg
      BY <1>8, <1>1, ObservedState DEF RevertActivation, PackKnown, Installing
    <2>2. \A a : [o EXCEPT !.active = a].active = a /\ [o EXCEPT !.active = a].lkg = o.lkg
      BY <2>1 DEF RuntimeState
    <2> HIDE DEF o
    <2>3. RevertedState(p).active \in {old.active, old.lkg} /\ RevertedState(p).lkg = old.lkg
      BY <2>1, <2>2 DEF RevertedState, o
    <2>4. state' \in {state, RevertedState(p)} /\ UNCHANGED <<work, control>>
      BY <1>8 DEF RevertActivation, AfterFailure
    <2>5. QED
      BY <2>3, <2>4
  <1>9. CASE ConfirmActivation(p) \/ RestoreControl(p) \/ ComparePending(p) \/ TakePending(p)
             \/ SettleRollback(p) \/ RevertSwitch(p)
    <2>1. /\ UNCHANGED work /\ control' \in {control, work[p].control}
          /\ state' \in {state, old}
      BY <1>9 DEF ConfirmActivation, RestoreControl, ComparePending, TakePending,
        SettleRollback, RevertSwitch, AfterFailure
    <2>2. QED
      BY <2>1
  <1>10. CASE ReportControl(p)
    <2>1. UNCHANGED <<state, control>> /\ (work' = work \/ work' = [work EXCEPT ![p].ok = TRUE])
      BY <1>10 DEF ReportControl
    <2>2. work'[p].old = old /\ work'[p].control = work[p].control
      <3> DEFINE w == [work[p] EXCEPT !.ok = TRUE]
      <3>1. w.old = old /\ w.control = work[p].control
        BY <1>1, LocalsResult
      <3>2. work' = work \/ work' = [work EXCEPT ![p] = w]
        BY <2>1
      <3> HIDE DEF w
      <3>3. QED
        BY <3>1, <3>2
    <2>3. QED
      BY <2>1, <2>2
  <1>11. CASE SwapRollbackTarget(p)
    <2> DEFINE w == [work[p] EXCEPT !.old = state, !.control = control, !.marked = TRUE]
    <2>1. w.old = state /\ w.control = control
      BY <1>1 DEF Locals
    <2>2. /\ state' = state
          /\ control' = control \/ (control' = state.active /\ state.active \in proven')
          /\ work' = work \/ work' = [work EXCEPT ![p] = w]
      BY <1>11 DEF SwapRollbackTarget, AfterFailure
    <2> HIDE DEF w
    <2>3. QED
      BY <2>1, <2>2
  <1>12. CASE SwitchToTarget(p)
    <2>1. Switched(p).active = work[p].control /\ Switched(p).lkg = work[p].control
      BY <1>1 DEF Switched, RuntimeState
    <2>2. state' \in {state, Switched(p)} /\ UNCHANGED <<work, control>>
      BY <1>12 DEF SwitchToTarget, WriteStateOrAbort, AfterFailure, Switched
    <2>3. QED
      BY <2>1, <2>2
  <1>13. QED
    BY <1>2, <1>3, <1>4, <1>5, <1>6, <1>7, <1>8, <1>9, <1>10, <1>11, <1>12 DEF Locked

-----------------------------------------------------------------------------
(* Pointers and installed generations. *)

\* What a process may write back later, or is about to activate, is installed.
SavedInstalled ==
  \A p \in Proc :
    /\ Saved(p) \subseteq installed
    /\ pc[p] \in Advanced \union {"advance"} => work[p].pack \in installed

InstalledInv == PointersInstalled /\ SavedInstalled

\* From the staging of a generation on, its installation goes on with it.
LEMMA InstallingSteps ==
  ASSUME TypeInv, NEW p \in Proc, Locked(p), pc'[p] \in Advanced \union {"advance"}
  PROVE  /\ work'[p].pack = work[p].pack
         /\ \/ pc[p] \in Advanced \union {"advance"}
            \/ pc[p] = "stage" /\ work[p].pack \in installed'
  <1> USE DEF TypeInv, TypeOK, UnderLock, Goto, Leave, Abort, Advanced
  <1>1. CASE StageGeneration(p)
    <2>1. work' = [work EXCEPT ![p].old = state] /\ pc[p] = "stage"
      BY <1>1 DEF StageGeneration
    <2>2. work'[p].pack = work[p].pack
      BY <2>1 DEF Locals
    <2>3. work[p].pack \in installed'
      BY <1>1 DEF StageGeneration, Staged
    <2>4. QED
      BY <2>1, <2>2, <2>3
  <1>2. CASE AdvanceHighest(p) \/ ActivateGeneration(p) \/ ConfirmActivation(p)
    BY <1>2 DEF AdvanceHighest, ActivateGeneration, ConfirmActivation
  <1>3. CASE \/ GuardTrustedTime(p) \/ VerifyPack(p) \/ MarkRollbackTarget(p)
             \/ PromoteLKG(p) \/ RevertActivation(p) \/ RestoreControl(p)
             \/ ComparePending(p) \/ TakePending(p) \/ ReportControl(p)
             \/ SwapRollbackTarget(p) \/ SwitchToTarget(p) \/ SettleRollback(p)
             \/ RevertSwitch(p)
    <2>1. pc'[p] \in {"verify", "swap", "release", "stage", "mark", "consume", "unmark",
                     "take", "finish", "switch", "settle", "unswitch"}
      BY <1>3 DEF GuardTrustedTime, AfterGuard, VerifyPack, MarkRollbackTarget, PromoteLKG,
        RevertActivation, RestoreControl, ComparePending, TakePending, ReportControl,
        SwapRollbackTarget, SwitchToTarget, WriteStateOrAbort, SettleRollback, RevertSwitch
    <2>2. QED
      BY <2>1
  <1>4. QED
    BY <1>1, <1>2, <1>3 DEF Locked

LEMMA InstalledStep == TypeInv /\ InstalledInv /\ [Next]_vars => InstalledInv'
  <1> SUFFICES ASSUME TypeInv, InstalledInv, [Next]_vars PROVE InstalledInv'
    OBVIOUS
  <1> USE DEF InstalledInv, PointersInstalled, SavedInstalled
  <1>1. CASE Unlocked
    BY <1>1, UnlockedFrame DEF Pointers, Saved, Advanced, Blank, DefaultRuntimeState, Critical
  <1>2. ASSUME NEW p \in Proc, Locked(p) PROVE InstalledInv'
    <2>1. installed \subseteq installed'
      BY <1>2, LockedSection
    <2>2. Pointers' \subseteq installed' /\ Saved(p)' \subseteq installed'
      BY <1>2, <2>1, PointerSources
    <2>3. pc'[p] \in Advanced \union {"advance"} => work'[p].pack \in installed'
      BY <1>2, <2>1, InstallingSteps
    <2>4. \A q \in Proc \ {p} : pc'[q] = pc[q] /\ work'[q] = work[q]
      BY <1>2, LockedSection DEF TypeInv, TypeOK
    <2>5. \A q \in Proc \ {p} : Saved(q)' = Saved(q)
      BY <2>4 DEF Saved
    <2>6. QED
      BY <2>1, <2>2, <2>3, <2>4, <2>5
  <1>3. QED
    BY <1>1, <1>2, StepKinds

\* PointersInstalled: no pointer on disk ever dangles.
THEOREM NoDanglingPointer == Spec => []PointersInstalled
  <1>1. Init => InstalledInv
    BY DEF Init, InstalledInv, PointersInstalled, SavedInstalled, Pointers, Saved, Advanced,
      Blank, DefaultRuntimeState
  <1>2. QED
    BY <1>1, Invariants1, InstalledStep, PTL DEF Spec, InstalledInv

-----------------------------------------------------------------------------
(* The copy of runtime-state.json a process works from is what is on disk:  *)
(* nobody else writes while it is in the section.                           *)

FreshFor(p) ==
  /\ pc[p] \in Advanced \union {"advance"} => Observable(work[p].old, work[p].pack)
  /\ pc[p] \in {"advance", "switch"} => state = work[p].old
  /\ pc[p] = "activate" => state = Observed(work[p].old, work[p].pack)
  /\ pc[p] \in {"confirm", "promote", "revert"} => state = ActiveState(p)
  /\ pc[p] \in {"settle", "unswitch"} => state = Switched(p)

Fresh == \A p \in Proc : FreshFor(p)

LEMMA FreshStep == TypeInv /\ LockInv /\ Fresh /\ [Next]_vars => Fresh'
  <1> SUFFICES ASSUME TypeInv, LockInv, Fresh, [Next]_vars PROVE Fresh'
    OBVIOUS
  <1> USE DEF Fresh, FreshFor, Advanced, Switched
  <1>1. CASE Unlocked
    <2>1. SUFFICES ASSUME NEW p \in Proc PROVE FreshFor(p)'
      OBVIOUS
    <2>2. state' = state
      BY <1>1, UnlockedFrame
    <2>3. CASE pc'[p] \in Critical \ {"guard", "release"}
      <3>1. pc'[p] = pc[p] /\ work'[p] = work[p]
        BY <1>1, <2>3, UnlockedFrame
      <3>2. ActiveState(p)' = ActiveState(p)
        BY <3>1 DEF ActiveState
      <3>3. QED
        BY <2>2, <3>1, <3>2
    <2>4. CASE pc'[p] \notin Critical \ {"guard", "release"}
      BY <2>4 DEF Critical
    <2>5. QED
      BY <2>3, <2>4
  <1>2. ASSUME NEW p \in Proc, Locked(p) PROVE Fresh'
    <2>1. ASSUME NEW q \in Proc \ {p} PROVE FreshFor(q)'
      <3>1. lock = p /\ pc'[q] = pc[q]
        BY <1>2, LockedSection DEF LockInv, MutualExclusion, TypeInv, TypeOK
      <3>2. pc'[q] \notin Critical
        BY <3>1 DEF LockInv, MutualExclusion
      <3>3. QED
        BY <3>2 DEF Critical
    <2>2. SUFFICES FreshFor(p)'
      BY <2>1
    <2> USE DEF TypeInv, TypeOK, UnderLock, Goto, Leave, Abort
    <2>3. CASE \/ GuardTrustedTime(p) \/ VerifyPack(p) \/ MarkRollbackTarget(p)
               \/ PromoteLKG(p) \/ RevertActivation(p) \/ RestoreControl(p)
               \/ ComparePending(p) \/ TakePending(p) \/ ReportControl(p)
               \/ RevertSwitch(p)
      <3>1. pc'[p] \in {"verify", "swap", "release", "stage", "mark", "consume", "unmark",
                       "take", "finish"}
        BY <2>3 DEF GuardTrustedTime, AfterGuard, VerifyPack, MarkRollbackTarget, PromoteLKG,
          RevertActivation, RestoreControl, ComparePending, TakePending, ReportControl,
          RevertSwitch
      <3>2. QED
        BY <3>1
    <2>4. CASE StageGeneration(p)
      <3>1. work' = [work EXCEPT ![p].old = state]
        BY <2>4 DEF StageGeneration
      <3>2. work'[p].old = state /\ work'[p].pack = work[p].pack
        BY <3>1 DEF Locals
      <3>3. /\ state' = state
            /\ pc'[p] \in {"advance", "unmark", "release"}
            /\ pc'[p] = "advance" => Observable(state, work[p].pack)
        BY <2>4 DEF StageGeneration
      <3>4. QED
        BY <3>2, <3>3
    <2>5. CASE AdvanceHighest(p)
      <3>1. /\ work' = work
            /\ pc'[p] \in {"activate", "unmark", "release"}
            /\ pc'[p] = "activate" => state' = Observed(work[p].old, work[p].pack)
        BY <2>5 DEF AdvanceHighest, WriteStateOrAbort
      <3>2. pc[p] = "advance"
        BY <2>5 DEF AdvanceHighest
      <3>3. QED
        BY <3>1, <3>2
    <2>6. CASE ActivateGeneration(p)
      <3>1. /\ work' = work /\ ActiveState(p)' = ActiveState(p)
            /\ pc'[p] \in {"confirm", "unmark", "release"}
            /\ pc'[p] = "confirm" => state' = ActiveState(p)
        BY <2>6 DEF ActivateGeneration, WriteStateOrAbort, ActiveState
      <3>2. pc[p] = "activate"
        BY <2>6 DEF ActivateGeneration
      <3>3. QED
        BY <3>1, <3>2
    <2>7. CASE ConfirmActivation(p)
      <3>1. /\ UNCHANGED <<work, state>> /\ ActiveState(p)' = ActiveState(p)
            /\ pc[p] = "confirm" /\ pc'[p] \in {"promote", "revert"}
        BY <2>7 DEF ConfirmActivation, ActiveState
      <3>2. QED
        BY <3>1
    <2>8. CASE SwapRollbackTarget(p)
      <3>1. /\ state' = state
            /\ pc'[p] \in {"switch", "release"}
            /\ pc'[p] = "switch" => work'[p].old = state
        <4> DEFINE w == [work[p] EXCEPT !.old = state, !.control = control, !.marked = TRUE]
        <4>1. w.old = state
          <5>1. work[p] \in Locals
            OBVIOUS
          <5>2. QED
            BY <5>1 DEF Locals
        <4>2. /\ state' = state
              /\ \/ pc'[p] = "release"
                 \/ pc'[p] = "switch" /\ work' = [work EXCEPT ![p] = w]
          BY <2>8 DEF SwapRollbackTarget
        <4> HIDE DEF w
        <4>3. QED
          BY <4>1, <4>2
      <3>2. QED
        BY <3>1
    <2>9. CASE SwitchToTarget(p)
      <3>1. /\ work' = work
            /\ pc'[p] \in {"settle", "unmark", "release"}
            /\ pc'[p] = "settle" => state' = Switched(p)
        BY <2>9 DEF SwitchToTarget, WriteStateOrAbort
      <3>2. QED
        BY <3>1
    <2>10. CASE SettleRollback(p)
      <3>1. /\ UNCHANGED <<work, state>>
            /\ pc[p] = "settle" /\ pc'[p] \in {"finish", "unswitch"}
        BY <2>10 DEF SettleRollback
      <3>2. QED
        BY <3>1
    <2>11. QED
      BY <1>2, <2>3, <2>4, <2>5, <2>6, <2>7, <2>8, <2>9, <2>10 DEF Locked
  <1>3. QED
    BY <1>1, <1>2, StepKinds

LEMMA Invariants2 == Spec => [](TypeInv /\ LockInv /\ Fresh)
  <1>1. Init => Fresh
    BY DEF Init, Fresh, FreshFor, Advanced
  <1>2. QED
    BY <1>1, Invariants1, FreshStep, PTL DEF Spec

-----------------------------------------------------------------------------
(* The highest-seen record. *)

\* Only the write that advances trust changes the record, and it records a
\* pack that may be observed.
LEMMA HighestWrites ==
  ASSUME TypeInv, Fresh, NEW p \in Proc, Locked(p)
  PROVE  \/ state'.highest = state.highest
         \/ /\ work[p].pack \in Pack /\ Observable(state, work[p].pack)
            /\ state'.highest = [state.highest EXCEPT ![PackIdOf[work[p].pack]] = work[p].pack]
  <1> DEFINE g == work[p].pack
             old == work[p].old
  <1> USE DEF TypeInv, TypeOK, Fresh, FreshFor, UnderLock, Advanced
  <1>1. CASE state' = state
    BY <1>1
  <1>2. CASE AdvanceHighest(p)
    <2>1. state = old /\ Observable(old, g) /\ g \in Pack
      BY <1>2 DEF AdvanceHighest, PackKnown, Installing
    <2>2. state' = state \/ state' = Observed(state, g)
      BY <1>2, <2>1 DEF AdvanceHighest, WriteStateOrAbort, AfterFailure
    <2>3. Observed(state, g).highest = [state.highest EXCEPT ![PackIdOf[g]] = g]
      BY <2>1, ObservedState
    <2>4. QED
      BY <2>1, <2>2, <2>3
  <1>3. CASE ActivateGeneration(p) \/ PromoteLKG(p) \/ RevertActivation(p)
    <2>1. g \in Pack /\ old \in RuntimeState /\ Observed(old, g) \in RuntimeState
      BY <1>3, ObservedState DEF ActivateGeneration, PromoteLKG, RevertActivation, PackKnown,
        Installing, Locals
    <2>2. state.highest = Observed(old, g).highest
      BY <1>3, <2>1 DEF ActivateGeneration, PromoteLKG, RevertActivation, ActiveState, RuntimeState
    <2>3. \A a, l : /\ [Observed(old, g) EXCEPT !.active = a].highest = Observed(old, g).highest
                    /\ [Observed(old, g) EXCEPT !.active = a, !.lkg = l].highest
                         = Observed(old, g).highest
      BY <2>1 DEF RuntimeState
    <2>4. \A l : [ActiveState(p) EXCEPT !.lkg = l].highest = Observed(old, g).highest
      BY <2>1 DEF ActiveState, RuntimeState
    <2>5. state' = state \/ state'.highest = Observed(old, g).highest
      BY <1>3, <2>3, <2>4 DEF ActivateGeneration, PromoteLKG, RevertActivation,
        WriteStateOrAbort, AfterFailure, ActiveState, RevertedState
    <2>6. QED
      BY <2>2, <2>5
  <1>4. CASE SwitchToTarget(p) \/ RevertSwitch(p)
    <2>1. old \in RuntimeState
      BY DEF Locals
    <2>2. Switched(p).highest = old.highest
      BY <2>1 DEF Switched, RuntimeState
    <2>3. state \in {old, Switched(p)} /\ state' \in {state, old, Switched(p)}
      BY <1>4 DEF SwitchToTarget, RevertSwitch, WriteStateOrAbort, AfterFailure, Switched
    <2>4. QED
      BY <2>2, <2>3
  <1>5. QED
    BY <1>1, <1>2, <1>3, <1>4 DEF Locked, GuardTrustedTime, VerifyPack, MarkRollbackTarget,
      StageGeneration, ConfirmActivation, RestoreControl, ComparePending, TakePending,
      ReportControl, SwapRollbackTarget, SettleRollback

\* The version recorded for a pack id never decreases, and the pack recorded
\* changes only together with the version.
HighestGrows ==
  \A i \in PackIds : state.highest[i] # None =>
    \/ state'.highest[i] = state.highest[i]
    \/ /\ state'.highest[i] # None
       /\ VersionOf[state'.highest[i]] > VersionOf[state.highest[i]]

LEMMA HighestStep == TypeInv /\ Fresh /\ [Next]_vars => HighestGrows
  <1> SUFFICES ASSUME TypeInv, Fresh, [Next]_vars PROVE HighestGrows
    OBVIOUS
  <1>1. CASE Unlocked
    BY <1>1, UnlockedFrame DEF HighestGrows
  <1>2. ASSUME NEW p \in Proc, Locked(p) PROVE HighestGrows
    BY <1>2, HighestWrites, PackAssumption
    DEF HighestGrows, Observable, TypeInv, TypeOK, RuntimeState, Target
  <1>3. QED
    BY <1>1, <1>2, StepKinds

\* HighestMonotone: trust is never rewound, and equal versions never exchanged.
THEOREM TrustNeverRewound == Spec => HighestMonotone
  <1>1. TypeInv /\ Fresh /\ [Next]_vars =>
          [\A i \in PackIds : state.highest[i] # None =>
             \/ state'.highest[i] = state.highest[i]
             \/ /\ state'.highest[i] # None
                /\ VersionOf[state'.highest[i]] > VersionOf[state.highest[i]]]_vars
    BY HighestStep DEF HighestGrows
  <1>2. QED
    BY <1>1, Invariants2, PTL DEF Spec, HighestMonotone

-----------------------------------------------------------------------------
(* Pointers and the highest-seen record. *)

\* g is not above what is recorded in h.
Below(h, g) == LET seen == h[PackIdOf[g]]
               IN seen # None /\ VersionOf[g] <= VersionOf[seen]

SavedBelow == \A p \in Proc : \A g \in Saved(p) : Below(state.highest, g)

BelowInv == PointersBelowHighest /\ SavedBelow

\* What is below the record stays below it.
LEMMA BelowGrows ==
  ASSUME TypeInv, TypeInv', HighestGrows, NEW g \in Pack, Below(state.highest, g)
  PROVE  Below(state'.highest, g)
  BY PackAssumption DEF TypeInv, TypeOK, RuntimeState, Target, HighestGrows, Below, PackIds

LEMMA BelowStep ==
  TypeInv /\ TypeInv' /\ LockInv /\ Fresh /\ BelowInv /\ [Next]_vars => BelowInv'
  <1> SUFFICES ASSUME TypeInv, TypeInv', LockInv, Fresh, BelowInv, [Next]_vars PROVE BelowInv'
    OBVIOUS
  <1> USE DEF BelowInv, PointersBelowHighest, SavedBelow
  <1>1. HighestGrows
    BY HighestStep
  <1>2. CASE Unlocked
    <2>1. UNCHANGED <<state, control>>
      BY <1>2, UnlockedFrame
    <2>2. \A p \in Proc : Saved(p)' \subseteq Saved(p)
      BY <1>2, UnlockedFrame DEF Saved, Blank, DefaultRuntimeState
    <2>3. QED
      BY <2>1, <2>2 DEF Pointers, Below
  <1>3. ASSUME NEW p \in Proc, Locked(p) PROVE BelowInv'
    <2>1. \A q \in Proc : Saved(q) \subseteq Pack
      BY DEF Saved, TypeInv, TypeOK, Locals, RuntimeState, Target
    <2>2. Pointers \subseteq Pack
      BY DEF Pointers, TypeInv, TypeOK, RuntimeState, Target
    <2>3. \A g \in Pointers \union Saved(p) : Below(state'.highest, g)
      BY <1>1, <2>1, <2>2, BelowGrows DEF Below
    <2>4. ASSUME pc[p] \in Advanced PROVE Below(state'.highest, work[p].pack)
      <3>1. work[p].pack \in Pack /\ work[p] \in Locals /\ work[p].old \in RuntimeState
        BY <2>4 DEF TypeInv, TypeOK, PackKnown, Installing, Advanced, Locals
      <3>2. state.highest = [work[p].old.highest EXCEPT ![PackIdOf[work[p].pack]] = work[p].pack]
        <4>1. \/ state = Observed(work[p].old, work[p].pack)
              \/ state = ActiveState(p)
          BY <2>4 DEF Fresh, FreshFor, Advanced
        <4>2. CASE state = Observed(work[p].old, work[p].pack)
          BY <3>1, <4>2, ObservedState
        <4>3. CASE state = ActiveState(p)
          BY <3>1, <4>3, ActiveStateType
        <4>4. QED
          BY <4>1, <4>2, <4>3
      <3>3. state.highest[PackIdOf[work[p].pack]] = work[p].pack
        BY <3>1, <3>2 DEF RuntimeState, PackIds
      <3>4. Below(state.highest, work[p].pack)
        BY <3>1, <3>3, PackAssumption DEF Below
      <3>5. QED
        BY <1>1, <3>1, <3>4, BelowGrows
    <2>5. \A g \in Pointers' : Below(state'.highest, g)
      BY <1>3, <2>3, <2>4, PointerSources
    <2>6. ASSUME NEW q \in Proc PROVE \A g \in Saved(q)' : Below(state'.highest, g)
      <3>1. CASE q = p
        BY <1>3, <3>1, <2>3, PointerSources
      <3>2. CASE q # p
        <4>1. Saved(q)' = Saved(q)
          BY <1>3, <3>2, LockedSection DEF Saved
        <4>2. QED
          BY <4>1, <1>1, <2>1, BelowGrows
      <3>3. QED
        BY <3>1, <3>2
    <2>7. QED
      BY <2>5, <2>6 DEF Below
  <1>4. QED
    BY <1>2, <1>3, StepKinds

\* PointersBelowHighest: no pointer overtakes the highest-seen record.
THEOREM PointersTrusted == Spec => []PointersBelowHighest
  <1>1. Init => BelowInv
    BY DEF Init, BelowInv, PointersBelowHighest, SavedBelow, Pointers, Saved, Blank,
      DefaultRuntimeState
  <1>2. QED
    BY <1>1, Invariants2, BelowStep, PTL DEF Spec, BelowInv

-----------------------------------------------------------------------------
(* Fallbacks and proven generations. *)

SavedProven ==
  \A p \in Proc : /\ SavedFallbacks(p) \subseteq proven
                  /\ pc[p] = "promote" => work[p].pack \in proven

FallbackInv == FallbacksProven /\ SavedProven

LEMMA FallbackStep == TypeInv /\ Fresh /\ FallbackInv /\ [Next]_vars => FallbackInv'
  <1> SUFFICES ASSUME TypeInv, Fresh, FallbackInv, [Next]_vars PROVE FallbackInv'
    OBVIOUS
  <1> USE DEF FallbackInv, FallbacksProven, SavedProven
  <1>1. CASE Unlocked
    BY <1>1, UnlockedFrame DEF SavedFallbacks, Blank, DefaultRuntimeState, Critical
  <1>2. ASSUME NEW p \in Proc, Locked(p) PROVE FallbackInv'
    <2>1. proven \subseteq proven'
      BY <1>2, LockedSection
    <2>2. Fallbacks' \subseteq proven' /\ SavedFallbacks(p)' \subseteq proven'
      <3>1. Fallbacks \subseteq proven /\ SavedFallbacks(p) \subseteq proven
        BY DEF Fallbacks
      <3>2. (IF pc[p] = "promote" THEN {work[p].pack} ELSE {}) \subseteq proven
        OBVIOUS
      <3>3. QED
        BY <1>2, <2>1, <3>1, <3>2, PointerSources
    <2>3. pc'[p] = "promote" => work'[p].pack \in proven'
      <3>1. SUFFICES ASSUME pc'[p] = "promote" PROVE work'[p].pack \in proven'
        OBVIOUS
      <3>2. ConfirmActivation(p)
        BY <1>2, <3>1
        DEF TypeInv, TypeOK, Locked, UnderLock, Goto, Leave, Abort, GuardTrustedTime, AfterGuard,
          VerifyPack, MarkRollbackTarget, StageGeneration, AdvanceHighest, ActivateGeneration,
          WriteStateOrAbort, PromoteLKG, RevertActivation, RestoreControl, ComparePending,
          TakePending, ReportControl, SwapRollbackTarget, SwitchToTarget, SettleRollback,
          RevertSwitch
      <3>3. /\ pc[p] = "confirm" /\ work' = work
            /\ proven' = proven \union {state.active}
        BY <3>1, <3>2 DEF ConfirmActivation, UnderLock, Goto, TypeInv, TypeOK
      <3>4. state.active = work[p].pack
        BY <3>3, ActiveStateType
        DEF Fresh, FreshFor, TypeInv, TypeOK, PackKnown, Installing
      <3>5. QED
        BY <3>3, <3>4
    <2>4. \A q \in Proc \ {p} : pc'[q] = pc[q] /\ work'[q] = work[q]
      BY <1>2, LockedSection DEF TypeInv, TypeOK
    <2>5. \A q \in Proc \ {p} : SavedFallbacks(q)' = SavedFallbacks(q)
      BY <2>4 DEF SavedFallbacks
    <2>6. FallbacksProven'
      BY <2>2 DEF Fallbacks
    <2>7. SavedProven'
      BY <2>1, <2>2, <2>3, <2>4, <2>5
    <2>8. QED
      BY <2>6, <2>7
  <1>3. QED
    BY <1>1, <1>2, StepKinds

\* FallbacksProven: LKG and the rollback target were healthy while active.
THEOREM FallbacksWereHealthy == Spec => []FallbacksProven
  <1>1. Init => FallbackInv
    BY DEF Init, FallbackInv, FallbacksProven, SavedProven, SavedFallbacks, Blank,
      DefaultRuntimeState
  <1>2. QED
    BY <1>1, Invariants2, FallbackStep, PTL DEF Spec, FallbackInv

\* PointersSound: at every instant the three pointers on disk are installed
\* and trusted, and the two fallbacks once worked
\* (installVerifiedGenerationLocked, RollbackPrevious).
THEOREM PointersAreSound == Spec => []PointersSound
  BY NoDanglingPointer, PointersTrusted, FallbacksWereHealthy, PTL DEF PointersSound

-----------------------------------------------------------------------------
(* Trusted time. *)

\* Beyond the guard, trusted-time.json exists.
Guarded == \A p \in Proc : pc[p] \in Critical \ {"guard", "release"} => trusted # 0

TrustInv == TrustAnchored /\ Guarded

LEMMA TrustStep == TypeInv /\ TrustInv /\ [Next]_vars => TrustInv'
  <1> SUFFICES ASSUME TypeInv, TrustInv, [Next]_vars PROVE TrustInv'
    OBVIOUS
  <1> USE DEF TrustInv, TrustAnchored, Guarded
  <1>1. CASE Unlocked
    BY <1>1, UnlockedFrame DEF durableTrustStateExists, StateFileExists
  <1>2. ASSUME NEW p \in Proc, GuardTrustedTime(p) PROVE TrustInv'
    <2>1. UNCHANGED <<state, rooted, installed>>
      BY <1>2 DEF GuardTrustedTime
    <2>2. \/ trusted' = trusted /\ (trusted # 0 \/ pc'[p] = "release")
          \/ trusted' \in Clock
          \/ trusted' = trusted /\ pc'[p] = "release"
      BY <1>2 DEF GuardTrustedTime, AfterFailure, Leave, Goto, TypeInv, TypeOK
    <2>3. trusted # 0 => trusted' # 0
      BY <2>2, BoundAssumption
    <2>4. \A q \in Proc \ {p} : pc'[q] = pc[q]
      BY <1>2, LockedSection DEF Locked, TypeInv, TypeOK
    <2>5. pc'[p] = "release" \/ trusted' # 0
      BY <2>2, BoundAssumption
    <2>6. QED
      BY <2>1, <2>3, <2>4, <2>5 DEF durableTrustStateExists, StateFileExists
  <1>3. ASSUME NEW p \in Proc, Locked(p), ~GuardTrustedTime(p) PROVE TrustInv'
    <2>1. /\ trusted' = trusted
          /\ pc[p] \notin {"guard", "release"}
      BY <1>3
      DEF Locked, UnderLock, VerifyPack, MarkRollbackTarget, StageGeneration, AdvanceHighest,
        ActivateGeneration, ConfirmActivation, PromoteLKG, RevertActivation, RestoreControl,
        ComparePending, TakePending, ReportControl, SwapRollbackTarget, SwitchToTarget,
        SettleRollback, RevertSwitch
    <2>2. trusted' # 0
      BY <1>3, <2>1, LockedSection
    <2>3. QED
      BY <2>2
  <1>4. QED
    BY <1>1, <1>2, <1>3, StepKinds

\* TrustAnchored: whatever is trusted, trusted-time.json exists.
THEOREM TrustHasTime == Spec => []TrustAnchored
  <1>1. Init => TrustInv
    BY DEF Init, TrustInv, TrustAnchored, Guarded, durableTrustStateExists, StateFileExists,
      DefaultRuntimeState, Critical
  <1>2. QED
    BY <1>1, Invariants1, TrustStep, PTL DEF Spec, TrustInv

-----------------------------------------------------------------------------
(* Atomicity.  What the lock holder has done so far is compared with entry, *)
(* the store as it found it (EntryInv); what a process serves with the      *)
(* active generation (ServedInv).                                           *)

Undisturbed == writeFaults = 0 /\ kills = 0

-----------------------------------------------------------------------------
(* What the holder of the lock has done so far. *)

Activated == {"confirm", "promote", "revert"}

\* The states saved to be written back, and the state except between the two
\* writes of an activation, have one generation active and last known good.
Agreeing ==
  Undisturbed =>
    /\ (\A p \in Proc : pc[p] \notin Activated) => state.active = state.lkg
    /\ \A p \in Proc :
         pc[p] \in Advanced \union {"advance", "switch", "settle", "unswitch"}
           => work[p].old.active = work[p].old.lkg

\* What an update to g makes of the target.
NextTarget(g) == IF g = entry.active THEN entry.target ELSE entry.active

Same == state.active = entry.active /\ control = entry.target

\* The update or rollback that has been done in full, as in PackLedger.
Moved ==
  \/ state.active \in Pack /\ control = NextTarget(state.active)
  \/ /\ {entry.active, entry.target} \subseteq Pack /\ entry.active # entry.target
     /\ state.active = entry.target /\ control = entry.active

\* The bootstrap that has been done in full.
Booted == state.active = Bundle /\ Bundle \in Pack /\ control = entry.target

\* A first start installs the bundle, captures no target and applies no
\* pending update; a result is recorded when there is nothing left to do.
Bootable == (Installing \ {"mark"}) \union {"acquire", "guard", "verify", "release"}

Purpose(p) ==
  /\ goal[p] = "boot" => pc[p] \in Bootable /\ ~work[p].marked
  /\ goal[p] = "boot" /\ pc[p] \in Installing => work[p].pack = Bundle
  /\ work[p].ok => pc[p] = "release"

PurposeInv == Undisturbed => \A p \in Proc : Purpose(p)

\* The target is captured, and the one before is kept where it differs.
Captured(p) ==
  IF goal[p] = "boot" THEN ~work[p].marked /\ control = entry.target
  ELSE /\ control = NextTarget(work[p].pack)
       /\ IF work[p].marked THEN work[p].control = entry.target
                            ELSE control = entry.target

Exchanged(p) ==
  /\ {entry.active, entry.target} \subseteq Pack /\ entry.active # entry.target
  /\ control = entry.active /\ work[p].control = entry.target
  /\ work[p].old.active = entry.active

EntryFor(p) ==
  /\ pc[p] \in Critical => entry \in [active : Target, target : Target]
  /\ pc[p] \in {"guard", "verify", "mark", "swap"} => Same /\ ~work[p].marked
  /\ pc[p] = "mark" => goal[p] # "boot"
  /\ pc[p] \in {"stage", "advance", "activate", "unmark", "switch"} => state.active = entry.active
  /\ pc[p] \in {"stage", "advance", "activate"} \union Activated => Captured(p)
  /\ pc[p] \in Advanced \union {"advance"} => work[p].old.active = entry.active
  /\ pc[p] = "unmark" => work[p].control = entry.target
  /\ pc[p] \in {"switch", "settle", "unswitch"} => Exchanged(p)
  /\ pc[p] \in {"consume", "take", "finish"} => Moved
  /\ pc[p] = "release" =>
       IF goal[p] = "boot" THEN IF work[p].ok THEN Booted ELSE Same
                           ELSE Same \/ Moved

EntryInv == Undisturbed => \A p \in Proc : EntryFor(p)

-----------------------------------------------------------------------------
(* What a process serves. *)

Faultless == Cardinality(Proc) = 1 /\ writeFaults + healthFaults = 0

\* An operation has changed what is active, and the model is still to follow.
Ahead(p) ==
  \/ pc[p] \in {"confirm", "promote", "consume", "take", "finish", "settle"}
  \/ pc[p] = "release" /\ work[p].ok

ServedFor(p) ==
  /\ goal[p] = "none" => pc[p] \in {"idle", "down"}
  /\ goal[p] \in {"open", "reopen", "reload"} => pc[p] \in {"probe", "resolve"}
  /\ goal[p] \in {"update", "rollback", "boot"} => pc[p] \in Critical \union {"acquire"}
  /\ goal[p] \notin {"undo", "restore"} /\ pc[p] \notin {"revert", "unswitch"}
  /\ work[p].ok => pc[p] = "release"
  /\ goal[p] \in {"open", "reopen", "boot"} \/ pc[p] = "down" => model[p] = None
  /\ goal[p] = "reload" => state.active # None
  /\ pc[p] = "idle" => model[p] = state.active
  /\ goal[p] \in {"update", "rollback"} =>
       IF Ahead(p) THEN state.active # None /\ (goal[p] = "update" => state.active = work[p].pack)
                   ELSE model[p] = state.active
  /\ pc[p] \in Installing \union {"verify", "consume", "take"} => goal[p] \in {"boot", "update"}
  /\ pc[p] \in {"swap", "switch", "settle"} => goal[p] = "rollback"
  /\ pc[p] = "switch" => work[p].control # None

ServedInv == Faultless => \A p \in Proc : ServedFor(p)
-----------------------------------------------------------------------------
(* What the steps under the lock do, write faults aside. *)

\* The locals are kept but for what is named.
Kept(p, fields) ==
  /\ "pack" \in fields => work'[p].pack = work[p].pack
  /\ "old" \in fields => work'[p].old = work[p].old
  /\ "marks" \in fields => work'[p].control = work[p].control /\ work'[p].marked = work[p].marked
  /\ "ok" \in fields => work'[p].ok = work[p].ok

AllKept == {"pack", "old", "marks", "ok"}

LEMMA Typed ==
  ASSUME TypeInv, NEW p \in Proc
  PROVE  /\ work[p] \in Locals /\ work[p].old \in RuntimeState /\ work[p].pack \in Target
         /\ work[p].control \in Target /\ work[p].marked \in BOOLEAN /\ work[p].ok \in BOOLEAN
         /\ state \in RuntimeState /\ state.active \in Target /\ state.lkg \in Target
         /\ control \in Target /\ DOMAIN work = Proc /\ DOMAIN pc = Proc
         /\ inbox \in PendingFile \union {None}
  BY DEF TypeInv, TypeOK, Locals, RuntimeState

\* Changing one local changes no other.
LEMMA LocalsChanged ==
  ASSUME NEW w \in Locals, NEW x
  PROVE  /\ \A v \in {[w EXCEPT !.seen = x]} :
              v.pack = w.pack /\ v.old = w.old /\ v.control = w.control /\ v.marked = w.marked /\ v.ok = w.ok
         /\ \A v \in {[w EXCEPT !.pack = x]} :
              v.pack = x /\ v.old = w.old /\ v.control = w.control /\ v.marked = w.marked /\ v.ok = w.ok
         /\ \A v \in {[w EXCEPT !.old = x]} :
              v.pack = w.pack /\ v.old = x /\ v.control = w.control /\ v.marked = w.marked /\ v.ok = w.ok
         /\ \A v \in {[w EXCEPT !.ok = x]} :
              v.pack = w.pack /\ v.old = w.old /\ v.control = w.control /\ v.marked = w.marked /\ v.ok = x
  BY DEF Locals

LEMMA LocalsCaptured ==
  ASSUME NEW w \in Locals, NEW s, NEW c, NEW m
  PROVE  /\ \A v \in {[w EXCEPT !.control = c, !.marked = m]} :
              v.pack = w.pack /\ v.old = w.old /\ v.control = c /\ v.marked = m /\ v.ok = w.ok
         /\ \A v \in {[w EXCEPT !.old = s, !.control = c, !.marked = m]} :
              v.pack = w.pack /\ v.old = s /\ v.control = c /\ v.marked = m /\ v.ok = w.ok
  BY DEF Locals

LEMMA GuardEffect ==
  ASSUME TypeInv, NEW p \in Proc, GuardTrustedTime(p)
  PROVE  /\ pc[p] = "guard" /\ UNCHANGED <<state, control>> /\ Kept(p, AllKept)
         /\ \/ pc'[p] = "release"
            \/ pc'[p] = "verify" /\ goal[p] \in {"boot", "update"}
            \/ pc'[p] = "swap" /\ goal[p] \in {"rollback", "undo"}
  <1> DEFINE w == [work[p] EXCEPT !.seen = inbox]
  <1>1. /\ pc[p] = "guard" /\ UNCHANGED <<state, control>>
        /\ work' = work \/ work' = [work EXCEPT ![p] = w]
        /\ \/ pc' = [pc EXCEPT ![p] = "release"]
           \/ pc' = [pc EXCEPT ![p] = "verify"] /\ goal[p] \in {"boot", "update"}
           \/ pc' = [pc EXCEPT ![p] = "swap"] /\ goal[p] \in {"rollback", "undo"}
    BY DEF GuardTrustedTime, AfterGuard, UnderLock, Goto, Leave
  <1>2. /\ w.pack = work[p].pack /\ w.old = work[p].old /\ w.control = work[p].control
        /\ w.marked = work[p].marked /\ w.ok = work[p].ok
    BY Typed, LocalsChanged
  <1> HIDE DEF w
  <1>3. work'[p] \in {work[p], w}
    BY <1>1, Typed
  <1>4. QED
    BY <1>1, <1>2, <1>3, Typed DEF Kept

LEMMA VerifyEffect ==
  ASSUME TypeInv, NEW p \in Proc, VerifyPack(p)
  PROVE  /\ pc[p] = "verify" /\ UNCHANGED <<state, control>> /\ Kept(p, {"old", "marks", "ok"})
         /\ \/ pc'[p] = "release"
            \/ /\ pc'[p] = "stage" /\ goal[p] = "boot"
               /\ work'[p].pack \in Pack /\ work'[p].pack = Bundle
            \/ pc'[p] = "mark" /\ goal[p] # "boot" /\ work'[p].pack \in Pack
  <1> DEFINE archive == IF goal[p] = "boot" THEN Bundle
                        ELSE IF inbox = None THEN None ELSE inbox.pack
             w == [work[p] EXCEPT !.pack = archive]
  <1>1. archive \in Target
    BY PackAssumption, Typed DEF Target, PendingFile
  <1>2. /\ pc[p] = "verify" /\ UNCHANGED <<state, control>>
        /\ \/ pc' = [pc EXCEPT ![p] = "release"] /\ work' = work
           \/ /\ archive # None /\ work' = [work EXCEPT ![p] = w]
              /\ pc' = [pc EXCEPT ![p] = IF goal[p] = "boot" THEN "stage" ELSE "mark"]
        /\ goal[p] = "boot" => archive = Bundle
    BY DEF VerifyPack, UnderLock, Goto, Leave
  <1>3. /\ w.pack = archive /\ w.old = work[p].old /\ w.control = work[p].control
        /\ w.marked = work[p].marked /\ w.ok = work[p].ok
    BY Typed, LocalsChanged
  <1> HIDE DEF w, archive
  <1>4. QED
    BY <1>1, <1>2, <1>3, Typed DEF Kept, Target

LEMMA MarkEffect ==
  ASSUME TypeInv, NEW p \in Proc, MarkRollbackTarget(p), ~WriteFault
  PROVE  LET previous == state.active
             changes  == IF previous = None THEN control # None ELSE previous # work[p].pack
         IN /\ pc[p] = "mark" /\ state' = state /\ Kept(p, {"pack", "old", "ok"})
            /\ \/ pc'[p] = "release" /\ control' = control
               \/ /\ pc'[p] = "stage" /\ work'[p].marked = changes /\ work'[p].control = control
                  /\ control' = (IF changes THEN previous ELSE control)
  <1> DEFINE previous == state.active
             changes  == IF previous = None THEN control # None ELSE previous # work[p].pack
             w == [work[p] EXCEPT !.control = control, !.marked = changes]
  <1>1. /\ pc[p] = "mark" /\ state' = state
        /\ \/ pc' = [pc EXCEPT ![p] = "release"] /\ UNCHANGED <<control, work>>
           \/ /\ control' = (IF changes THEN previous ELSE control)
              /\ work' = [work EXCEPT ![p] = w] /\ pc' = [pc EXCEPT ![p] = "stage"]
    BY DEF MarkRollbackTarget, UnderLock, Goto, Leave
  <1>2. /\ w.pack = work[p].pack /\ w.old = work[p].old /\ w.control = control
        /\ w.marked = changes /\ w.ok = work[p].ok
    BY Typed, LocalsCaptured
  <1> HIDE DEF w
  <1>3. QED
    BY <1>1, <1>2, Typed DEF Kept

LEMMA StageEffect ==
  ASSUME TypeInv, NEW p \in Proc, StageGeneration(p)
  PROVE  /\ pc[p] = "stage" /\ UNCHANGED <<state, control>> /\ Kept(p, {"pack", "marks", "ok"})
         /\ work'[p].old = state
         /\ pc'[p] \in {"advance", IF work[p].marked THEN "unmark" ELSE "release"}
  <1> DEFINE w == [work[p] EXCEPT !.old = state]
  <1>1. /\ pc[p] = "stage" /\ UNCHANGED <<state, control>> /\ work' = [work EXCEPT ![p] = w]
        /\ \E l \in {"advance", IF work[p].marked THEN "unmark" ELSE "release"} : pc' = [pc EXCEPT ![p] = l]
    BY DEF StageGeneration, UnderLock, Goto, Abort
  <1>2. /\ w.pack = work[p].pack /\ w.old = state /\ w.control = work[p].control
        /\ w.marked = work[p].marked /\ w.ok = work[p].ok
    BY Typed, LocalsChanged
  <1> HIDE DEF w
  <1>3. QED
    BY <1>1, <1>2, Typed DEF Kept

LEMMA AdvanceEffect ==
  ASSUME TypeInv, NEW p \in Proc, AdvanceHighest(p), ~WriteFault
  PROVE  /\ pc[p] = "advance" /\ pc'[p] = "activate" /\ UNCHANGED <<control, work>>
         /\ state'.active = work[p].old.active /\ state'.lkg = work[p].old.lkg
  <1>1. /\ pc[p] = "advance" /\ pc' = [pc EXCEPT ![p] = "activate"] /\ UNCHANGED <<control, work>>
        /\ state' = Observed(work[p].old, work[p].pack)
    BY DEF AdvanceHighest, WriteStateOrAbort, UnderLock, Goto
  <1>2. work[p].pack \in Pack
    BY <1>1 DEF TypeInv, PackKnown, Installing
  <1>3. QED
    BY <1>1, <1>2, Typed, ObservedState

LEMMA ActivateEffect ==
  ASSUME TypeInv, NEW p \in Proc, ActivateGeneration(p), ~WriteFault
  PROVE  /\ pc[p] = "activate" /\ pc'[p] = "confirm" /\ UNCHANGED <<control, work>>
         /\ state'.active = work[p].pack /\ work[p].pack \in Pack
  <1>1. /\ pc[p] = "activate" /\ pc' = [pc EXCEPT ![p] = "confirm"] /\ UNCHANGED <<control, work>>
        /\ state' = ActiveState(p)
    BY DEF ActivateGeneration, WriteStateOrAbort, UnderLock, Goto
  <1>2. work[p].pack \in Pack
    BY <1>1 DEF TypeInv, PackKnown, Installing
  <1>3. QED
    BY <1>1, <1>2, Typed, ActiveStateType

LEMMA ConfirmEffect ==
  ASSUME TypeInv, NEW p \in Proc, ConfirmActivation(p)
  PROVE  /\ pc[p] = "confirm" /\ UNCHANGED <<control, state, work>>
         /\ pc'[p] = "promote" \/ (pc'[p] = "revert" /\ Unhealthy(state.active))
  <1>1. /\ pc[p] = "confirm" /\ UNCHANGED <<control, state, work>>
        /\ \/ pc' = [pc EXCEPT ![p] = "promote"]
           \/ pc' = [pc EXCEPT ![p] = "revert"] /\ Unhealthy(state.active)
    BY DEF ConfirmActivation, UnderLock, Goto
  <1>2. QED
    BY <1>1, Typed

LEMMA PromoteEffect ==
  ASSUME TypeInv, NEW p \in Proc, PromoteLKG(p), ~WriteFault
  PROVE  /\ pc[p] = "promote" /\ control' = control /\ Kept(p, {"pack", "old", "marks"})
         /\ work[p].pack \in Pack /\ state'.active = work[p].pack /\ state'.lkg = work[p].pack
         /\ \/ goal[p] = "boot" /\ pc'[p] = "release" /\ work'[p].ok
            \/ goal[p] # "boot" /\ pc'[p] = "consume" /\ ~work'[p].ok
  <1> DEFINE w == [work[p] EXCEPT !.ok = (goal[p] = "boot")]
             next == [ActiveState(p) EXCEPT !.lkg = work[p].pack]
  <1>1. /\ pc[p] = "promote" /\ control' = control /\ work' = [work EXCEPT ![p] = w] /\ state' = next
        /\ pc' = [pc EXCEPT ![p] = IF goal[p] = "boot" THEN "release" ELSE "consume"]
    BY DEF PromoteLKG, UnderLock, Goto
  <1>2. /\ w.pack = work[p].pack /\ w.old = work[p].old /\ w.control = work[p].control
        /\ w.marked = work[p].marked /\ w.ok = (goal[p] = "boot")
    BY Typed, LocalsChanged
  <1>3. work[p].pack \in Pack
    BY <1>1 DEF TypeInv, PackKnown, Installing
  <1>4. next.active = work[p].pack /\ next.lkg = work[p].pack
    BY <1>3, Typed, ActiveStateType DEF RuntimeState
  <1> HIDE DEF w, next
  <1>5. QED
    BY <1>1, <1>2, <1>3, <1>4, Typed DEF Kept

LEMMA RevertEffect ==
  ASSUME TypeInv, NEW p \in Proc, RevertActivation(p), ~WriteFault
  PROVE  /\ pc[p] = "revert" /\ UNCHANGED <<control, work>>
         /\ pc'[p] = (IF work[p].marked THEN "unmark" ELSE "release")
         /\ state'.lkg = work[p].old.lkg
         /\ state'.active = (IF work[p].old.lkg # None THEN work[p].old.lkg ELSE work[p].old.active)
  <1> DEFINE o == Observed(work[p].old, work[p].pack)
             a == IF work[p].old.lkg # None THEN work[p].old.lkg ELSE work[p].old.active
             next == [o EXCEPT !.active = a]
  <1>1. /\ pc[p] = "revert" /\ UNCHANGED <<control, work>> /\ state' = next
        /\ pc' = [pc EXCEPT ![p] = IF work[p].marked THEN "unmark" ELSE "release"]
    BY DEF RevertActivation, RevertedState, UnderLock, Abort, Goto
  <1>2. work[p].pack \in Pack
    BY <1>1 DEF TypeInv, PackKnown, Installing
  <1>3. o \in RuntimeState /\ o.lkg = work[p].old.lkg
    BY <1>2, Typed, ObservedState
  <1> HIDE DEF o, a
  <1>4. next.active = a /\ next.lkg = work[p].old.lkg
    BY <1>3 DEF RuntimeState
  <1> HIDE DEF next
  <1>5. QED
    BY <1>1, <1>4, Typed DEF a

LEMMA RestoreEffect ==
  ASSUME TypeInv, NEW p \in Proc, RestoreControl(p), ~WriteFault
  PROVE  /\ pc[p] = "unmark" /\ pc'[p] = "release" /\ UNCHANGED <<state, work>>
         /\ control' = work[p].control
  BY Typed DEF RestoreControl, UnderLock, Leave, Goto

LEMMA ConsumeEffect ==
  ASSUME TypeInv, NEW p \in Proc, ComparePending(p) \/ TakePending(p)
  PROVE  /\ pc[p] \in {"consume", "take"} /\ pc'[p] \in {"take", "finish"}
         /\ UNCHANGED <<state, control, work>>
  BY Typed DEF ComparePending, TakePending, UnderLock, Goto

LEMMA ReportEffect ==
  ASSUME TypeInv, NEW p \in Proc, ReportControl(p)
  PROVE  /\ pc[p] = "finish" /\ pc'[p] = "release" /\ UNCHANGED <<state, control>>
         /\ Kept(p, {"pack", "old", "marks"})
         /\ work'[p].ok \/ (control # None /\ Unhealthy(control))
  <1> DEFINE w == [work[p] EXCEPT !.ok = TRUE]
  <1>1. /\ pc[p] = "finish" /\ UNCHANGED <<state, control>> /\ pc' = [pc EXCEPT ![p] = "release"]
        /\ \/ work' = [work EXCEPT ![p] = w]
           \/ work' = work /\ control # None /\ Unhealthy(control)
    BY DEF ReportControl, UnderLock, Leave, Goto
  <1>2. /\ w.pack = work[p].pack /\ w.old = work[p].old /\ w.control = work[p].control
        /\ w.marked = work[p].marked /\ w.ok
    BY Typed, LocalsChanged
  <1> HIDE DEF w
  <1>3. QED
    BY <1>1, <1>2, Typed DEF Kept

LEMMA SwapEffect ==
  ASSUME TypeInv, NEW p \in Proc, SwapRollbackTarget(p), ~WriteFault
  PROVE  /\ pc[p] = "swap" /\ state' = state
         /\ \/ pc'[p] = "release" /\ UNCHANGED <<control, work>>
            \/ /\ pc'[p] = "switch" /\ Kept(p, {"pack", "ok"}) /\ control' = state.active
               /\ work'[p].old = state /\ work'[p].control = control
               /\ {state.active, control} \subseteq Pack /\ state.active # control
  <1> DEFINE w == [work[p] EXCEPT !.old = state, !.control = control, !.marked = TRUE]
  <1>1. /\ pc[p] = "swap" /\ state' = state
        /\ \/ pc' = [pc EXCEPT ![p] = "release"] /\ UNCHANGED <<control, work>>
           \/ /\ pc' = [pc EXCEPT ![p] = "switch"] /\ work' = [work EXCEPT ![p] = w]
              /\ control' = state.active
              /\ control # None /\ state.active # None /\ state.active # control
    BY DEF SwapRollbackTarget, UnderLock, Leave, Goto
  <1>2. /\ w.pack = work[p].pack /\ w.old = state /\ w.control = control /\ w.ok = work[p].ok
    BY Typed, LocalsCaptured
  <1> HIDE DEF w
  <1>3. QED
    BY <1>1, <1>2, Typed DEF Kept, Target

LEMMA SwitchEffect ==
  ASSUME TypeInv, NEW p \in Proc, SwitchToTarget(p), ~WriteFault
  PROVE  /\ pc[p] = "switch" /\ pc'[p] = "settle" /\ UNCHANGED <<control, work>>
         /\ state'.active = work[p].control /\ state'.lkg = work[p].control
  <1>1. /\ pc[p] = "switch" /\ pc' = [pc EXCEPT ![p] = "settle"] /\ UNCHANGED <<control, work>>
        /\ state' = Switched(p)
    BY DEF SwitchToTarget, WriteStateOrAbort, Switched, UnderLock, Goto
  <1>2. Switched(p).active = work[p].control /\ Switched(p).lkg = work[p].control
    BY Typed DEF Switched, RuntimeState
  <1>3. QED
    BY <1>1, <1>2, Typed

LEMMA SettleEffect ==
  ASSUME TypeInv, NEW p \in Proc, SettleRollback(p), ~WriteFault
  PROVE  /\ pc[p] = "settle" /\ UNCHANGED <<state, control, work>>
         /\ pc'[p] = "finish" \/ (pc'[p] = "unswitch" /\ Unhealthy(state.active))
  <1>1. /\ pc[p] = "settle" /\ UNCHANGED <<state, control, work>>
        /\ \/ pc' = [pc EXCEPT ![p] = "finish"]
           \/ pc' = [pc EXCEPT ![p] = "unswitch"] /\ Unhealthy(state.active)
    BY DEF SettleRollback, UnderLock, Goto
  <1>2. QED
    BY <1>1, Typed

LEMMA UnswitchEffect ==
  ASSUME TypeInv, NEW p \in Proc, RevertSwitch(p), ~WriteFault
  PROVE  /\ pc[p] = "unswitch" /\ pc'[p] = "unmark" /\ UNCHANGED <<control, work>>
         /\ state' = work[p].old
  BY Typed DEF RevertSwitch, UnderLock, Goto

-----------------------------------------------------------------------------
(* Who else moves. *)

\* Faults are counted, and never forgotten.
LEMMA FaultsCount ==
  ASSUME TypeInv, [Next]_vars
  PROVE  /\ kills' >= kills /\ writeFaults' >= writeFaults /\ healthFaults' >= healthFaults
         /\ WriteFault => writeFaults' # 0
         /\ HealthFault => healthFaults' # 0
         /\ Undisturbed' => Undisturbed
         /\ Faultless' => Faultless
  <1> USE BoundAssumption DEF TypeInv, TypeOK, NoFault, WriteFault, HealthFault, Healthy, Unhealthy
  <1>0. /\ {kills, writeFaults, healthFaults} \subseteq Nat
        /\ WriteFault => writeFaults' = writeFaults + 1 /\ healthFaults' = healthFaults
        /\ HealthFault => healthFaults' = healthFaults + 1 /\ writeFaults' = writeFaults
        /\ NoFault => UNCHANGED <<writeFaults, healthFaults>>
    OBVIOUS
  <1>1. kills' \in {kills, kills + 1} /\ (UNCHANGED <<writeFaults, healthFaults>> \/ WriteFault \/ HealthFault)
    <2>1. ASSUME NEW p \in Proc, Locked(p)
          PROVE  kills' = kills /\ (UNCHANGED <<writeFaults, healthFaults>> \/ WriteFault \/ HealthFault)
      <3>1. kills' = kills
        BY <2>1, LockedSection
      <3>2. CASE GuardTrustedTime(p) \/ VerifyPack(p) \/ ComparePending(p) \/ TakePending(p)
        BY <3>1, <3>2 DEF GuardTrustedTime, VerifyPack, ComparePending, TakePending
      <3>3. CASE MarkRollbackTarget(p) \/ StageGeneration(p) \/ ConfirmActivation(p) \/ PromoteLKG(p)
        BY <3>1, <3>3 DEF MarkRollbackTarget, StageGeneration, ConfirmActivation, PromoteLKG
      <3>4. CASE AdvanceHighest(p) \/ ActivateGeneration(p) \/ SwitchToTarget(p) \/ RevertActivation(p)
        BY <3>1, <3>4 DEF AdvanceHighest, ActivateGeneration, SwitchToTarget, RevertActivation,
          WriteStateOrAbort
      <3>5. CASE RestoreControl(p) \/ ReportControl(p) \/ SettleRollback(p) \/ RevertSwitch(p)
        BY <3>1, <3>5 DEF RestoreControl, ReportControl, SettleRollback, RevertSwitch
      <3>6. CASE SwapRollbackTarget(p)
        BY <3>1, <3>6 DEF SwapRollbackTarget
      <3>7. QED
        BY <2>1, <3>2, <3>3, <3>4, <3>5, <3>6 DEF Locked
    <2>2. ASSUME NEW p \in Proc, Start(p) \/ ProbeActive(p) \/ Request(p) \/ Exit(p) \/ AcquireRuntimeLock(p)
          PROVE  UNCHANGED budgets
      BY <2>2 DEF Start, ProbeActive, Request, Exit, AcquireRuntimeLock
    <2>3. ASSUME NEW p \in Proc, ResolveModel(p) \/ LockRefused(p) \/ Release(p) \/ Kill(p)
          PROVE  /\ kills' \in {kills, kills + 1}
                 /\ UNCHANGED <<writeFaults, healthFaults>> \/ WriteFault \/ HealthFault
      BY <2>3 DEF ResolveModel, LockRefused, Release, Kill
    <2>4. CASE AdminRecovery \/ Deposit \/ UNCHANGED vars
      BY <2>4 DEF AdminRecovery, Deposit, vars, budgets
    <2>5. QED
      BY <2>1, <2>2, <2>3, <2>4, StepKinds DEF Unlocked, budgets
  <1>2. /\ kills' >= kills /\ writeFaults' >= writeFaults /\ healthFaults' >= healthFaults
        /\ WriteFault => writeFaults' # 0
        /\ HealthFault => healthFaults' # 0
        /\ {kills', writeFaults', healthFaults'} \subseteq Nat
    <2> HIDE DEF WriteFault, HealthFault, NoFault
    <2> QED BY <1>0, <1>1
  <1>3. QED
    BY <1>0, <1>2 DEF Undisturbed, Faultless

\* Whoever is inside the section is alone there.
LEMMA Alone ==
  ASSUME LockInv, NEW p \in Proc, pc[p] \in Critical
  PROVE  \A q \in Proc \ {p} : pc[q] \notin Critical
  BY DEF LockInv, MutualExclusion

\* A step inside the section moves its process and leaves the others alone.
LEMMA LockedFrame ==
  ASSUME TypeInv, LockInv, NEW p \in Proc, Locked(p)
  PROVE  /\ pc[p] \in Critical /\ pc'[p] \in Critical
         /\ UNCHANGED <<lock, goal, model, kills, entry>>
         /\ \A q \in Proc \ {p} : /\ pc[q] \notin Critical
                                  /\ pc'[q] = pc[q] /\ work'[q] = work[q]
  BY LockedSection, Alone, Typed

\* A step outside that is neither the first nor the last of a section.
Quiet ==
  /\ UNCHANGED <<state, control, installed, entry>>
  /\ \A q \in Proc : /\ work'[q] = work[q]
                     /\ pc[q] \in Critical <=> pc'[q] \in Critical
                     /\ pc[q] \in Critical => pc'[q] = pc[q] /\ goal'[q] = goal[q]

LEMMA UnlockedKinds ==
  ASSUME TypeInv, Unlocked, ~(\E p \in Proc : Kill(p))
  PROVE  Quiet \/ \E p \in Proc : AcquireRuntimeLock(p) \/ Release(p)
  <1> USE DEF TypeInv, TypeOK, Call, Goto, Fail, Critical, Quiet, durable, budgets, history
  <1>1. ASSUME NEW p \in Proc, Start(p) \/ Request(p) \/ Exit(p) PROVE Quiet
    BY <1>1 DEF Start, Request, Exit
  <1>2. ASSUME NEW p \in Proc, ProbeActive(p) \/ ResolveModel(p) \/ LockRefused(p) PROVE Quiet
    BY <1>2 DEF ProbeActive, ResolveModel, LockRefused
  <1>3. CASE AdminRecovery \/ Deposit \/ UNCHANGED vars
    BY <1>3 DEF AdminRecovery, Deposit, volatile, vars
  <1>4. QED
    BY <1>1, <1>2, <1>3 DEF Unlocked

-----------------------------------------------------------------------------
(* Active and last known good. *)

LEMMA AgreeStep == TypeInv /\ LockInv /\ Agreeing /\ [Next]_vars => Agreeing'
  <1> SUFFICES ASSUME TypeInv, LockInv, Agreeing, [Next]_vars, Undisturbed'
               PROVE  /\ (\A p \in Proc : pc'[p] \notin Activated) => state'.active = state'.lkg
                      /\ \A p \in Proc :
                           pc'[p] \in Advanced \union {"advance", "switch", "settle", "unswitch"}
                             => work'[p].old.active = work'[p].old.lkg
    BY DEF Agreeing
  <1>0. Undisturbed /\ ~WriteFault
    BY FaultsCount DEF Undisturbed
  <1> USE DEF Activated, Advanced
  <1>1. CASE Unlocked
    <2>1. ~ \E p \in Proc : Kill(p)
      BY <1>0, BoundAssumption DEF Kill, Undisturbed
    <2>2. \A p \in Proc : pc[p] \in Activated => pc'[p] = pc[p]
      <3>1. CASE Quiet
        BY <3>1 DEF Quiet, Critical
      <3>2. ASSUME NEW p \in Proc, AcquireRuntimeLock(p) \/ Release(p)
            PROVE  \A q \in Proc : pc[q] \in Activated => pc'[q] = pc[q]
        <4>1. pc[p] \in {"acquire", "release"} /\ \E l \in Label : pc' = [pc EXCEPT ![p] = l]
          BY <3>2 DEF AcquireRuntimeLock, Release, Succeed, Fail, Call, Goto, Label, Critical
        <4>2. QED
          BY <4>1, Typed
      <3>3. QED
        BY <1>1, <2>1, <3>1, <3>2, UnlockedKinds
    <2>3. QED
      BY <1>0, <1>1, <2>2, UnlockedFrame DEF Agreeing, Critical
  <1>2. ASSUME NEW p \in Proc, Locked(p)
        PROVE  /\ (\A q \in Proc : pc'[q] \notin Activated) => state'.active = state'.lkg
               /\ \A q \in Proc :
                    pc'[q] \in Advanced \union {"advance", "switch", "settle", "unswitch"}
                      => work'[q].old.active = work'[q].old.lkg
    <2>1. /\ \A q \in Proc \ {p} : pc[q] \notin Critical /\ pc'[q] \notin Critical
          /\ pc[p] \notin Activated => state.active = state.lkg
          /\ pc[p] \in Advanced \union {"advance", "switch", "settle", "unswitch"}
               => work[p].old.active = work[p].old.lkg
      BY <1>0, <1>2, LockedFrame DEF Agreeing, Critical
    <2> SUFFICES /\ pc'[p] \notin Activated => state'.active = state'.lkg
                 /\ pc'[p] \in Advanced \union {"advance", "switch", "settle", "unswitch"}
                      => work'[p].old.active = work'[p].old.lkg
      BY <2>1 DEF Critical
    <2> USE DEF Kept, AllKept
    <2>2. CASE GuardTrustedTime(p) \/ VerifyPack(p) \/ MarkRollbackTarget(p)
      BY <1>0, <2>1, <2>2, GuardEffect, VerifyEffect, MarkEffect
    <2>3. CASE StageGeneration(p)
      BY <2>1, <2>3, StageEffect
    <2>4. CASE AdvanceHighest(p) \/ ActivateGeneration(p)
      BY <1>0, <2>1, <2>4, AdvanceEffect, ActivateEffect
    <2>5. CASE ConfirmActivation(p) \/ PromoteLKG(p) \/ RevertActivation(p)
      BY <1>0, <2>1, <2>5, ConfirmEffect, PromoteEffect, RevertEffect
    <2>6. CASE RestoreControl(p) \/ ComparePending(p) \/ TakePending(p) \/ ReportControl(p)
      BY <1>0, <2>1, <2>6, RestoreEffect, ConsumeEffect, ReportEffect
    <2>7. CASE SwapRollbackTarget(p) \/ SwitchToTarget(p)
      BY <1>0, <2>1, <2>7, SwapEffect, SwitchEffect
    <2>8. CASE SettleRollback(p) \/ RevertSwitch(p)
      BY <1>0, <2>1, <2>8, SettleEffect, UnswitchEffect
    <2>9. QED
      BY <1>2, <2>2, <2>3, <2>4, <2>5, <2>6, <2>7, <2>8 DEF Locked
  <1>3. QED
    BY <1>1, <1>2, StepKinds

-----------------------------------------------------------------------------
(* The holder of the lock and the store it found. *)

\* Outside the section a process has no locals.
Resting == \A p \in Proc : pc[p] \notin Critical => work[p] = Blank

LEMMA RestingStep == TypeInv /\ LockInv /\ Resting /\ [Next]_vars => Resting'
  <1> SUFFICES ASSUME TypeInv, LockInv, Resting, [Next]_vars PROVE Resting'
    OBVIOUS
  <1> USE DEF Resting
  <1>1. ASSUME NEW p \in Proc, Locked(p) PROVE Resting'
    BY <1>1, LockedFrame
  <1>2. ASSUME NEW p \in Proc, Release(p) \/ Kill(p) PROVE Resting'
    <2>1. /\ \E l \in Label : pc' = [pc EXCEPT ![p] = l]
          /\ work' = [work EXCEPT ![p] = Blank]
      BY <1>2 DEF Release, Kill, Succeed, Fail, Call, Goto, Label, Critical
    <2>2. QED
      BY <2>1, Typed
  <1>3. ASSUME NEW p \in Proc, AcquireRuntimeLock(p) PROVE Resting'
    <2>1. pc' = [pc EXCEPT ![p] = "guard"] /\ work' = work
      BY <1>3 DEF AcquireRuntimeLock, Goto
    <2>2. QED
      BY <2>1, Typed DEF Critical
  <1>4. CASE Quiet
    BY <1>4 DEF Quiet
  <1>5. QED
    BY <1>1, <1>2, <1>3, <1>4, StepKinds, UnlockedKinds

\* A process in its first start goes through the installation only.
LEMMA PurposeStep ==
  TypeInv /\ LockInv /\ Resting /\ PurposeInv /\ [Next]_vars => PurposeInv'
  <1> SUFFICES ASSUME TypeInv, LockInv, Resting, PurposeInv, [Next]_vars, Undisturbed'
               PROVE  \A p \in Proc : Purpose(p)'
    BY DEF PurposeInv
  <1>0. Undisturbed /\ ~WriteFault /\ \A p \in Proc : Purpose(p)
    BY FaultsCount DEF Undisturbed, PurposeInv
  <1> USE DEF Purpose, Bootable, Installing
  <1>1. ASSUME NEW p \in Proc, Start(p) \/ Request(p) \/ Exit(p) \/ ProbeActive(p) \/ ResolveModel(p)
                               \/ LockRefused(p)
        PROVE  \A q \in Proc : Purpose(q)'
    <2>1. work' = work /\ pc[p] \notin Critical
      BY <1>1 DEF Start, Request, Exit, ProbeActive, ResolveModel, LockRefused, Critical
    <2>2. ~work[p].ok /\ ~work[p].marked
      BY <2>1 DEF Resting, Blank
    <2>3. /\ pc \in [Proc -> Label] /\ goal \in [Proc -> Goal]
          /\ goal[p] = "boot" => pc[p] = "acquire"
      BY <1>0, <2>1 DEF TypeInv, TypeOK, Critical
    <2>4. /\ goal'[p] = "boot" => pc'[p] = "acquire"
          /\ \A q \in Proc \ {p} : pc'[q] = pc[q] /\ goal'[q] = goal[q]
      <3>1. CASE Start(p) \/ Request(p) \/ Exit(p)
        BY <2>3, <3>1 DEF Start, Request, Exit, Call, Goto
      <3>2. CASE ProbeActive(p)
        BY <2>3, <3>2 DEF ProbeActive, Fail, Call, Goto
      <3>3. CASE ResolveModel(p)
        BY <2>3, <3>3 DEF ResolveModel, Fail, Call, Goto
      <3>4. CASE LockRefused(p)
        BY <2>3, <3>4 DEF LockRefused, Fail, Call, Goto
      <3>5. QED
        BY <1>1, <3>1, <3>2, <3>3, <3>4
    <2>5. QED
      BY <1>0, <2>1, <2>2, <2>4
  <1>2. ASSUME NEW p \in Proc, AcquireRuntimeLock(p) PROVE \A q \in Proc : Purpose(q)'
    <2>1. /\ pc[p] = "acquire" /\ pc' = [pc EXCEPT ![p] = "guard"] /\ UNCHANGED <<goal, work>>
      BY <1>2 DEF AcquireRuntimeLock, Goto
    <2>2. ~work[p].ok
      BY <2>1 DEF Resting, Blank, Critical
    <2>3. QED
      BY <1>0, <2>1, <2>2, Typed
  <1>3. ASSUME NEW p \in Proc, Release(p) PROVE \A q \in Proc : Purpose(q)'
    <2>1. /\ \E l \in Label, g \in Goal : /\ pc' = [pc EXCEPT ![p] = l]
                                         /\ goal' = [goal EXCEPT ![p] = g] /\ g # "boot"
          /\ work' = [work EXCEPT ![p] = Blank]
      BY <1>3 DEF Release, Succeed, Fail, Call, Goto, Label, Goal, Critical, TypeInv, TypeOK
    <2>2. QED
      BY <1>0, <2>1, Typed DEF Blank, TypeInv, TypeOK
  <1>4. ASSUME NEW p \in Proc, Locked(p) PROVE \A q \in Proc : Purpose(q)'
    <2>1. /\ goal' = goal /\ Purpose(p)
          /\ \A q \in Proc \ {p} : Purpose(q)'
      BY <1>0, <1>4, LockedFrame
    <2> SUFFICES Purpose(p)'
      BY <2>1
    <2> USE DEF Kept, AllKept
    <2>2. CASE GuardTrustedTime(p) \/ VerifyPack(p)
      BY <2>1, <2>2, GuardEffect, VerifyEffect
    <2>3. CASE MarkRollbackTarget(p)
      BY <1>0, <2>1, <2>3, MarkEffect
    <2>4. CASE StageGeneration(p)
      BY <2>1, <2>4, StageEffect
    <2>5. CASE AdvanceHighest(p) \/ ActivateGeneration(p) \/ ConfirmActivation(p)
      BY <1>0, <2>1, <2>5, AdvanceEffect, ActivateEffect, ConfirmEffect
    <2>6. CASE PromoteLKG(p)
      BY <1>0, <2>1, <2>6, PromoteEffect
    <2>7. CASE RevertActivation(p)
      BY <1>0, <2>1, <2>7, RevertEffect
    <2>8. CASE RestoreControl(p) \/ ComparePending(p) \/ TakePending(p) \/ ReportControl(p)
      BY <1>0, <2>1, <2>8, RestoreEffect, ConsumeEffect, ReportEffect
    <2>9. CASE SwapRollbackTarget(p) \/ SwitchToTarget(p)
      BY <1>0, <2>1, <2>9, SwapEffect, SwitchEffect
    <2>10. CASE SettleRollback(p) \/ RevertSwitch(p)
      BY <1>0, <2>1, <2>10, SettleEffect, UnswitchEffect
    <2>11. QED
      BY <1>4, <2>2, <2>3, <2>4, <2>5, <2>6, <2>7, <2>8, <2>9, <2>10 DEF Locked
  <1>5. CASE AdminRecovery \/ Deposit \/ UNCHANGED vars
    BY <1>0, <1>5 DEF AdminRecovery, Deposit, volatile, vars
  <1>6. ~ \E p \in Proc : Kill(p)
    BY <1>0, BoundAssumption DEF Kill, Undisturbed
  <1>7. QED
    BY <1>1, <1>2, <1>3, <1>4, <1>5, <1>6, StepKinds DEF Unlocked

\* Captured and Exchanged speak of the locals that most steps keep.
LEMMA EntryKept ==
  ASSUME NEW p \in Proc, UNCHANGED <<control, goal, entry>>, Kept(p, {"pack", "old", "marks"})
  PROVE  /\ Captured(p) => Captured(p)'
         /\ Exchanged(p) => Exchanged(p)'
  BY DEF Kept, Captured, Exchanged, NextTarget

LEMMA EntryStep ==
  TypeInv /\ LockInv /\ Fresh /\ Agreeing /\ Resting /\ PurposeInv /\ EntryInv /\ [Next]_vars => EntryInv'
  <1> SUFFICES ASSUME TypeInv, LockInv, Fresh, Agreeing, Resting, PurposeInv, EntryInv, [Next]_vars,
                      Undisturbed'
               PROVE  \A p \in Proc : EntryFor(p)'
    BY DEF EntryInv
  <1>0. Undisturbed /\ ~WriteFault /\ \A p \in Proc : EntryFor(p) /\ Purpose(p)
    BY FaultsCount DEF Undisturbed, EntryInv, PurposeInv
  <1>1. ASSUME NEW p \in Proc, pc'[p] \notin Critical PROVE EntryFor(p)'
    BY <1>1 DEF EntryFor, Critical, Activated, Advanced
  <1>2. CASE Quiet
    <2>1. SUFFICES ASSUME NEW p \in Proc, pc'[p] \in Critical PROVE EntryFor(p)'
      BY <1>1
    <2>2. UNCHANGED <<state, control, entry>> /\ work'[p] = work[p] /\ pc'[p] = pc[p] /\ goal'[p] = goal[p]
      BY <1>2, <2>1 DEF Quiet
    <2>3. QED
      BY <1>0, <2>2 DEF EntryFor, Same, Moved, Booted, Captured, Exchanged, NextTarget
  <1>3. ASSUME NEW p \in Proc, AcquireRuntimeLock(p) PROVE \A q \in Proc : EntryFor(q)'
    <2>1. /\ pc[p] = "acquire" /\ lock = None
          /\ pc' = [pc EXCEPT ![p] = "guard"] /\ UNCHANGED <<state, control, work>>
          /\ entry' = [active |-> state.active, target |-> control]
      BY <1>3 DEF AcquireRuntimeLock, LockFree, Goto
    <2>2. \A q \in Proc \ {p} : pc'[q] \notin Critical
      BY <2>1, ProcAssumption, Typed DEF LockInv, MutualExclusion
    <2>3. ~work'[p].marked
      BY <2>1 DEF Resting, Critical, Blank
    <2>4. EntryFor(p)'
      <3>1. pc'[p] = "guard" /\ Same'
        BY <2>1, Typed DEF Same
      <3>2. (entry \in [active : Target, target : Target])'
        BY <2>1, Typed
      <3>3. QED
        BY <2>3, <3>1, <3>2 DEF EntryFor, Activated, Advanced
    <2>5. QED
      BY <1>1, <2>2, <2>4
  <1>4. ASSUME NEW p \in Proc, Release(p) PROVE \A q \in Proc : EntryFor(q)'
    <2>1. pc[p] \in Critical /\ \E l \in Label \ Critical : pc' = [pc EXCEPT ![p] = l]
      BY <1>4 DEF Release, Succeed, Fail, Call, Goto, Label, Critical
    <2>2. \A q \in Proc : pc'[q] \notin Critical
      BY <2>1, Alone, Typed
    <2>3. QED
      BY <1>1, <2>2
  <1>5. ASSUME NEW p \in Proc, Locked(p) PROVE \A q \in Proc : EntryFor(q)'
    <2>1. /\ UNCHANGED <<goal, entry>> /\ EntryFor(p) /\ pc[p] \in Critical /\ pc'[p] \in Critical
          /\ \A q \in Proc \ {p} : pc[q] \notin Critical /\ pc'[q] \notin Critical
      BY <1>0, <1>5, LockedFrame
    <2> SUFFICES EntryFor(p)'
      BY <1>1, <2>1
    <2>e. entry' = entry /\ entry \in [active : Target, target : Target]
      BY <2>1 DEF EntryFor
    <2>p. /\ goal'[p] = goal[p] /\ (pc[p] # "release" => ~work[p].ok)
          /\ pc[p] \notin Bootable => goal[p] # "boot"
      BY <1>0, <2>1 DEF Purpose
    <2>r. Same' /\ pc'[p] = "release" /\ (goal[p] = "boot" => ~work'[p].ok) => EntryFor(p)'
      BY <2>e, <2>p DEF EntryFor, Activated, Advanced
    <2>m. Moved' /\ pc'[p] \in {"consume", "take", "finish", "release"} /\ goal[p] # "boot" => EntryFor(p)'
      BY <2>e, <2>p DEF EntryFor, Activated, Advanced
    <2>u. pc'[p] = "unmark" /\ work'[p].control = entry.target /\ state'.active = entry.active => EntryFor(p)'
      BY <2>e DEF EntryFor, Activated, Advanced
    <2> USE DEF Activated, Advanced
    <2>2. CASE GuardTrustedTime(p)
      <3>1. /\ Same' /\ pc[p] = "guard" /\ ~work'[p].marked /\ ~work'[p].ok
            /\ pc'[p] \in {"release", "verify", "swap"}
        BY <2>1, <2>2, <2>e, <2>p, GuardEffect DEF EntryFor, Kept, AllKept, Same
      <3>2. QED
        BY <2>e, <2>r, <3>1 DEF EntryFor
    <2>3. CASE VerifyPack(p)
      <3>1. Same /\ ~work[p].marked /\ UNCHANGED <<state, control>> /\ ~work'[p].marked /\ Same'
        BY <2>1, <2>3, <2>e, VerifyEffect DEF EntryFor, Kept, Same
      <3>2. goal[p] = "boot" => Captured(p)'
        BY <2>1, <3>1 DEF Captured, Same
      <3>3. CASE pc'[p] = "release"
        <4>1. ~work'[p].ok
          BY <2>3, <2>p, VerifyEffect DEF Kept
        <4>2. QED
          BY <2>r, <3>1, <3>3, <4>1
      <3>4. CASE pc'[p] # "release"
        BY <2>1, <2>3, <2>e, <2>p, <3>1, <3>2, <3>4, VerifyEffect DEF EntryFor, Same
      <3>5. QED
        BY <3>3, <3>4
    <2>4. CASE MarkRollbackTarget(p)
      <3>1. pc[p] = "mark" /\ work[p].pack \in Pack /\ Same /\ goal[p] # "boot" /\ state' = state
            /\ work'[p].pack = work[p].pack
        BY <2>1, <2>4, <1>0, MarkEffect DEF EntryFor, TypeInv, PackKnown, Installing, Kept
      <3>2. CASE pc'[p] = "release" /\ control' = control
        BY <2>e, <2>r, <3>1, <3>2 DEF Same
      <3>3. CASE pc'[p] = "stage" /\ pc'[p] # "release"
        <4> DEFINE changes == IF state.active = None THEN control # None ELSE state.active # work[p].pack
        <4>1. /\ work'[p].marked = changes /\ work'[p].control = control
              /\ control' = (IF changes THEN state.active ELSE control)
          BY <2>4, <1>0, <3>3, MarkEffect
        <4>2. work[p].pack # None
          BY <3>1, PackAssumption
        <4>3. control' = NextTarget(work[p].pack)
          BY <3>1, <4>1, <4>2 DEF Same, NextTarget
        <4>4. control' = NextTarget(work[p].pack)'
          BY <3>1, <4>3, <2>e DEF NextTarget
        <4>5. work'[p].marked => work'[p].control = entry'.target
          BY <3>1, <4>1, <2>e DEF Same
        <4>6. ~work'[p].marked => control' = entry'.target
          BY <3>1, <4>1, <2>e DEF Same
        <4>7. Captured(p)'
          BY <2>1, <3>1, <4>4, <4>5, <4>6 DEF Captured
        <4>8. QED
          BY <2>e, <3>1, <3>3, <4>7 DEF EntryFor, Same
      <3>4. QED
        BY <2>4, <1>0, <3>2, <3>3, MarkEffect
    <2>5. CASE StageGeneration(p)
      <3>1. /\ state.active = entry.active /\ Captured(p) /\ UNCHANGED <<state, control>>
            /\ work'[p].old = state /\ Kept(p, {"pack", "marks", "ok"})
            /\ pc'[p] \in {"advance", IF work[p].marked THEN "unmark" ELSE "release"}
            /\ ~work'[p].ok
        BY <2>1, <2>5, <2>p, StageEffect DEF EntryFor, Kept
      <3>2. Captured(p)'
        BY <2>1, <3>1 DEF Captured, Kept, NextTarget
      <3>3. work[p].marked => work'[p].control = entry.target
        BY <3>1 DEF Captured, Kept
      <3>4. ~work[p].marked => control = entry.target
        BY <3>1 DEF Captured
      <3>5. CASE pc'[p] = "advance"
        BY <2>e, <3>1, <3>2, <3>5 DEF EntryFor
      <3>6. CASE pc'[p] # "advance"
        BY <2>e, <2>r, <2>u, <3>1, <3>3, <3>4, <3>6 DEF Same
      <3>7. QED
        BY <3>5, <3>6
    <2>6. CASE AdvanceHighest(p)
      <3>1. Captured(p)' /\ state'.active = entry.active /\ work'[p].old.active = entry.active /\ pc'[p] = "activate"
        BY <1>0, <2>1, <2>6, AdvanceEffect, EntryKept DEF EntryFor, Kept
      <3>2. QED
        BY <2>e, <3>1 DEF EntryFor
    <2>7. CASE ActivateGeneration(p) \/ ConfirmActivation(p)
      <3>1. /\ Captured(p)' /\ work'[p].old.active = entry.active
            /\ pc'[p] \in Activated
        BY <1>0, <2>1, <2>7, ActivateEffect, ConfirmEffect, EntryKept DEF EntryFor, Kept
      <3>2. QED
        BY <2>e, <3>1 DEF EntryFor
    <2>8. CASE PromoteLKG(p)
      <3>1. /\ Captured(p) /\ control' = control /\ state'.active = work[p].pack /\ work[p].pack \in Pack
            /\ pc[p] = "promote"
            /\ \/ goal[p] = "boot" /\ pc'[p] = "release" /\ work'[p].ok
               \/ goal[p] # "boot" /\ pc'[p] = "consume"
        BY <1>0, <2>1, <2>8, PromoteEffect DEF EntryFor
      <3>2. CASE goal[p] = "boot"
        <4>1. work[p].pack = Bundle /\ control = entry.target
          BY <1>0, <3>1, <3>2 DEF Purpose, Installing, Captured
        <4>2. Booted'
          BY <2>e, <3>1, <4>1 DEF Booted
        <4>3. QED
          BY <2>e, <2>p, <3>1, <3>2, <4>2 DEF EntryFor
      <3>3. CASE goal[p] # "boot"
        <4>1. control = NextTarget(work[p].pack)
          BY <3>1, <3>3 DEF Captured
        <4>2. Moved'
          BY <2>e, <3>1, <4>1 DEF Moved, NextTarget
        <4>3. QED
          BY <2>m, <3>1, <3>3, <4>2
      <3>4. QED
        BY <3>2, <3>3
    <2>9. CASE RevertActivation(p)
      <3>1. /\ Captured(p) /\ UNCHANGED <<control, work>> /\ work[p].old.active = entry.active
            /\ work[p].old.active = work[p].old.lkg /\ state'.active = work[p].old.active
            /\ pc'[p] = (IF work[p].marked THEN "unmark" ELSE "release")
        BY <1>0, <2>1, <2>9, RevertEffect DEF EntryFor, Agreeing
      <3>2. IF work[p].marked THEN work[p].control = entry.target ELSE control = entry.target
        BY <3>1 DEF Captured
      <3>3. ~work'[p].ok /\ pc[p] = "revert"
        BY <1>0, <2>9, <2>p, <3>1, RevertEffect
      <3>4. QED
        BY <2>e, <2>r, <2>u, <3>1, <3>2, <3>3 DEF Same
    <2>10. CASE RestoreControl(p)
      <3>1. pc'[p] = "release" /\ Same' /\ goal[p] # "boot"
        BY <1>0, <2>1, <2>e, <2>p, <2>10, RestoreEffect DEF EntryFor, Same, Bootable, Installing
      <3>2. QED
        BY <2>r, <3>1
    <2>11. CASE ComparePending(p) \/ TakePending(p) \/ ReportControl(p)
      <3>1. /\ Moved /\ UNCHANGED <<state, control>> /\ pc'[p] \in {"take", "finish", "release"}
            /\ goal[p] # "boot"
        BY <2>1, <2>p, <2>11, ConsumeEffect, ReportEffect DEF EntryFor, Bootable, Installing
      <3>2. Moved'
        BY <2>e, <3>1 DEF Moved, NextTarget
      <3>3. QED
        BY <2>m, <3>1, <3>2
    <2>12. CASE SwapRollbackTarget(p)
      <3>1. Same /\ pc[p] = "swap" /\ goal[p] # "boot"
        BY <1>0, <2>1, <2>p, <2>12, SwapEffect DEF EntryFor, Bootable, Installing
      <3>2. \/ pc'[p] = "release" /\ Same'
            \/ pc'[p] = "switch" /\ Exchanged(p)' /\ state'.active = entry.active
        BY <1>0, <2>12, <2>e, <3>1, SwapEffect DEF Same, Exchanged
      <3>3. QED
        BY <2>e, <2>r, <3>1, <3>2 DEF EntryFor
    <2>13. CASE SwitchToTarget(p)
      <3>1. pc'[p] = "settle" /\ Exchanged(p)'
        BY <1>0, <2>1, <2>13, SwitchEffect, EntryKept DEF EntryFor, Kept
      <3>2. QED
        BY <2>e, <3>1 DEF EntryFor
    <2>14. CASE SettleRollback(p)
      <3>1. /\ pc[p] = "settle" /\ Exchanged(p) /\ UNCHANGED <<state, control, work>>
            /\ pc'[p] \in {"finish", "unswitch"}
        BY <1>0, <2>1, <2>14, SettleEffect DEF EntryFor
      <3>2. state = Switched(p)
        BY <3>1 DEF Fresh, FreshFor
      <3>3. state.active = work[p].control
        BY <3>2, Typed DEF Switched, RuntimeState
      <3>4. Moved /\ Moved' /\ Exchanged(p)' /\ goal[p] # "boot"
        BY <2>1, <2>e, <2>p, <3>1, <3>3, EntryKept
        DEF Moved, Exchanged, NextTarget, Kept, Bootable, Installing
      <3>5. QED
        BY <2>e, <2>m, <3>1, <3>4 DEF EntryFor
    <2>15. CASE RevertSwitch(p)
      <3>1. pc'[p] = "unmark" /\ work'[p].control = entry.target /\ state'.active = entry.active
        BY <1>0, <2>1, <2>15, UnswitchEffect DEF EntryFor, Exchanged
      <3>2. QED
        BY <2>e, <3>1 DEF EntryFor
    <2>16. QED
      BY <1>5, <2>2, <2>3, <2>4, <2>5, <2>6, <2>7, <2>8, <2>9, <2>10, <2>11, <2>12, <2>13, <2>14, <2>15
      DEF Locked
  <1>6. ~ \E p \in Proc : Kill(p)
    BY <1>0, BoundAssumption DEF Kill, Undisturbed
  <1>7. QED
    BY <1>2, <1>3, <1>4, <1>5, <1>6, StepKinds, UnlockedKinds

-----------------------------------------------------------------------------
(* Each operation is a step of PackLedger, or none. *)

AtomicInv == TypeInv /\ LockInv /\ Fresh /\ Agreeing /\ Resting /\ PurposeInv /\ EntryInv

LEMMA AtomicInvariant == Spec => []AtomicInv
  <1>1. Init => Agreeing /\ Resting /\ PurposeInv /\ EntryInv
    BY DEF Init, Agreeing, Resting, PurposeInv, Purpose, EntryInv, EntryFor, Activated, Advanced,
      Critical, Blank, DefaultRuntimeState
  <1>2. QED
    BY <1>1, Invariants2, AgreeStep, RestingStep, PurposeStep, EntryStep, PTL DEF Spec, AtomicInv

\* Who is inside has not made anything active disappear.
LEMMA ActiveStays ==
  ASSUME AtomicInv, Undisturbed, NEW p \in Proc, pc[p] \in Critical, state.active = None
  PROVE  entry.active = None
  <1> USE DEF AtomicInv
  <1>1. EntryFor(p) /\ FreshFor(p)
    BY DEF EntryInv, Fresh
  <1>2. pc[p] \notin Activated
    <2>1. SUFFICES ASSUME pc[p] \in Activated PROVE FALSE
      OBVIOUS
    <2>2. state = ActiveState(p) /\ work[p].pack \in Pack
      BY <1>1, <2>1 DEF FreshFor, Activated, TypeInv, PackKnown, Installing
    <2>3. state.active = work[p].pack
      BY <2>2, Typed, ActiveStateType
    <2>4. QED
      BY <2>2, <2>3, PackAssumption
  <1>3. pc[p] \notin {"settle", "unswitch"}
    <2>1. SUFFICES ASSUME pc[p] \in {"settle", "unswitch"} PROVE FALSE
      OBVIOUS
    <2>2. state = Switched(p) /\ work[p].control \in Pack
      BY <1>1, <2>1 DEF FreshFor, EntryFor, Exchanged
    <2>3. state.active = work[p].control
      BY <2>2, Typed DEF Switched, RuntimeState
    <2>4. QED
      BY <2>2, <2>3, PackAssumption
  <1>4. ~Moved /\ (Booted => FALSE)
    BY PackAssumption DEF Moved, Booted
  <1>5. QED
    BY <1>1, <1>2, <1>3, <1>4 DEF EntryFor, Same, Critical, Activated

\* Outside the section a first start begins only when nothing is active, and
\* otherwise goes on or is given up.
LEMMA StartsOutside ==
  ASSUME AtomicInv, Unlocked, Quiet, ~(\E p \in Proc : Kill(p))
  PROVE  \/ Starting' = Starting
         \/ \E p \in Proc : /\ p \notin Starting /\ Starting' = Starting \union {p}
                           /\ state.active = None
         \/ \E p \in Proc : p \in Starting /\ Starting' = Starting \ {p}
  <1> USE DEF AtomicInv, TypeInv, TypeOK, Call, Goto, Fail, Starting
  <1>1. ASSUME NEW p \in Proc, Start(p) \/ Request(p) \/ Exit(p) \/ ResolveModel(p) \/ LockRefused(p)
        PROVE  goal' = goal \/ \E g \in Goal \ {"boot"} : goal' = [goal EXCEPT ![p] = g]
    BY <1>1 DEF Start, Request, Exit, ResolveModel, LockRefused, Goal
  <1>2. ASSUME NEW p \in Proc, ProbeActive(p)
        PROVE  \/ goal' = goal \/ \E g \in Goal \ {"boot"} : goal' = [goal EXCEPT ![p] = g]
               \/ goal[p] = "open" /\ goal' = [goal EXCEPT ![p] = "boot"] /\ state.active = None
    BY <1>2 DEF ProbeActive, Goal
  <1>3. ASSUME NEW p \in Proc, goal' = goal \/ \E g \in Goal \ {"boot"} : goal' = [goal EXCEPT ![p] = g]
        PROVE  Starting' = Starting \/ (p \in Starting /\ Starting' = Starting \ {p})
    BY <1>3
  <1>4. ASSUME NEW p \in Proc, goal[p] = "open" /\ goal' = [goal EXCEPT ![p] = "boot"]
        PROVE  p \notin Starting /\ Starting' = Starting \union {p}
    BY <1>4
  <1>5. ASSUME NEW p \in Proc, AcquireRuntimeLock(p) \/ Release(p) PROVE FALSE
    BY <1>5 DEF AcquireRuntimeLock, Release, Succeed, Quiet, Critical
  <1>6. CASE AdminRecovery \/ Deposit \/ UNCHANGED vars
    BY <1>6 DEF AdminRecovery, Deposit, volatile, vars
  <1> HIDE DEF Starting
  <1>7. QED
    BY <1>1, <1>2, <1>3, <1>4, <1>5, <1>6 DEF Unlocked

\* Whatever a step does, what is seen between operations changes as in
\* PackLedger, or not at all.
LEMMA LedgerStep ==
  ASSUME AtomicInv, [Next]_vars, Undisturbed'
  PROVE  [Ledger!Next]_(Ledger!vars)
  <1> USE DEF AtomicInv, Ledger!vars
  <1>0. Undisturbed /\ ~ \E p \in Proc : Kill(p)
    BY FaultsCount, BoundAssumption DEF Kill, Undisturbed
  <1>1. CASE Unlocked /\ Quiet
    <2>1. Holder' = Holder /\ UNCHANGED <<state, control, entry>>
      BY <1>1 DEF Quiet, Holder
    <2>2. View' = View
      BY <2>1 DEF View
    <2>3. CASE Starting' = Starting
      BY <2>2, <2>3
    <2>4. ASSUME NEW p \in Proc, p \notin Starting, Starting' = Starting \union {p}, state.active = None
          PROVE  Ledger!Begin(p)
      <3>1. CASE Holder = {}
        BY <2>2, <2>4, <3>1 DEF View, Ledger!Begin
      <3>2. CASE Holder # {}
        <4>1. entry.active = None
          BY <1>0, <2>4, <3>2, ActiveStays DEF Holder
        <4>2. QED
          BY <2>2, <2>4, <3>2, <4>1 DEF View, Ledger!Begin
      <3>3. QED
        BY <3>1, <3>2
    <2>5. ASSUME NEW p \in Proc, p \in Starting, Starting' = Starting \ {p} PROVE Ledger!Abandon(p)
      BY <2>2, <2>5 DEF Ledger!Abandon
    <2>6. QED
      BY <1>0, <1>1, <2>3, <2>4, <2>5, StartsOutside DEF Ledger!Next
  <1>2. ASSUME NEW p \in Proc, Locked(p) PROVE UNCHANGED <<View, Starting>>
    <2>1. p \in Holder /\ p \in Holder' /\ entry' = entry /\ goal' = goal
      BY <1>2, LockedFrame DEF Holder
    <2>2. QED
      BY <2>1 DEF View, Starting
  <1>3. ASSUME NEW p \in Proc, AcquireRuntimeLock(p) PROVE UNCHANGED <<View, Starting>>
    <2>1. /\ lock = None /\ pc' = [pc EXCEPT ![p] = "guard"] /\ goal' = goal
          /\ entry' = [active |-> state.active, target |-> control]
      BY <1>3 DEF AcquireRuntimeLock, LockFree, Goto
    <2>2. Holder = {}
      BY <2>1, ProcAssumption DEF Holder, LockInv, MutualExclusion
    <2>3. p \in Holder'
      BY <2>1, Typed DEF Holder, Critical
    <2>4. QED
      BY <2>1, <2>2, <2>3 DEF View, Starting
  <1>4. ASSUME NEW p \in Proc, Release(p) PROVE [Ledger!Next]_(Ledger!vars)
    <2>1. /\ pc[p] = "release" /\ UNCHANGED <<state, control>>
          /\ \E l \in Label \ Critical : pc' = [pc EXCEPT ![p] = l]
          /\ \E g \in Goal \ {"boot"} : goal' = [goal EXCEPT ![p] = g]
      BY <1>4 DEF Release, Succeed, Fail, Call, Goto, Label, Goal, Critical
    <2>2. p \in Holder /\ Holder' = {}
      BY <2>1, Alone, Typed DEF Holder, Critical
    <2>3. View = entry /\ View' = [active |-> state.active, target |-> control]
      BY <2>1, <2>2 DEF View
    <2>4. Starting' = Starting \ {p} /\ (p \in Starting <=> goal[p] = "boot")
      BY <2>1 DEF Starting, TypeInv, TypeOK
    <2>5. IF goal[p] = "boot" THEN IF work[p].ok THEN Booted ELSE Same ELSE Same \/ Moved
      BY <1>0, <2>1 DEF EntryInv, EntryFor
    <2>6. CASE goal[p] = "boot" /\ work[p].ok
      <3>1. Ledger!Bootstrap(p)
        BY <2>3, <2>4, <2>5, <2>6 DEF Booted, Ledger!Bootstrap
      <3>2. QED
        BY <3>1 DEF Ledger!Next
    <2>7. CASE goal[p] = "boot" /\ ~work[p].ok
      <3>1. Ledger!Abandon(p)
        BY <2>3, <2>4, <2>5, <2>7 DEF Same, Ledger!Abandon
      <3>2. QED
        BY <3>1 DEF Ledger!Next
    <2>8. CASE goal[p] # "boot" /\ Same
      BY <2>3, <2>4, <2>8 DEF Same
    <2>9. CASE goal[p] # "boot" /\ Moved
      <3>0. Starting' = Starting
        BY <2>4, <2>9
      <3>1. CASE state.active \in Pack /\ control = NextTarget(state.active)
        <4>1. Ledger!Update(state.active)
          BY <2>3, <3>1 DEF Ledger!Update, NextTarget
        <4>2. QED
          BY <3>0, <3>1, <4>1 DEF Ledger!Next
      <3>2. CASE /\ {entry.active, entry.target} \subseteq Pack /\ entry.active # entry.target
                 /\ state.active = entry.target /\ control = entry.active
        <4>1. Ledger!Rollback
          BY <2>3, <3>2 DEF Ledger!Rollback
        <4>2. QED
          BY <3>0, <4>1 DEF Ledger!Next
      <3>3. QED
        BY <2>9, <3>1, <3>2 DEF Moved
    <2>10. QED
      BY <2>5, <2>6, <2>7, <2>8, <2>9
  <1>5. QED
    BY <1>0, <1>1, <1>2, <1>3, <1>4, StepKinds, UnlockedKinds

\* Whatever the bounds on faults: until the first failed write or kill, every
\* step is a step of PackLedger or none.
THEOREM AtomicUntilDisturbed ==
  Spec => [][Undisturbed' => [Ledger!Next]_(Ledger!vars)]_vars
  BY AtomicInvariant, LedgerStep, PTL DEF Spec

\* ImplementsLedger: when no write fails and no process is killed, operations
\* of any number of processes, with reads that fail at will, look atomic: an
\* update records what it replaced, a rollback exchanges, a first start that
\* found nothing active installs the bundle, and whatever fails before its
\* change is durable changes nothing (ApplyPendingUpdate, RollbackPrevious,
\* openRuntimeWithBundle).
THEOREM OperationsAreAtomic ==
  ASSUME MaxWriteFaults = 0, MaxKills = 0
  PROVE  Spec => ImplementsLedger
  <1>1. TypeInv => Undisturbed
    BY DEF TypeInv, TypeOK, Undisturbed
  <1>2. Init => Ledger!Init
    BY DEF Init, Ledger!Init, View, Starting, Holder, Critical, DefaultRuntimeState
  <1>3. AtomicInv /\ AtomicInv' /\ [Next]_vars => [Ledger!Next]_(Ledger!vars)
    <2>1. AtomicInv' => Undisturbed'
      BY <1>1 DEF AtomicInv, TypeInv, TypeOK, Undisturbed
    <2>2. QED
      BY <2>1, LedgerStep
  <1>4. QED
    BY <1>2, <1>3, AtomicInvariant, PTL DEF Spec, ImplementsLedger, Ledger!Spec

\* SettledAgreement: whatever the operations and their failing reads, between
\* them the active generation is the last known good.
THEOREM StoreIsSettled == Spec => []SettledAgreement
  <1>1. AtomicInv => SettledAgreement
    BY DEF AtomicInv, Agreeing, SettledAgreement, Undisturbed, Activated, Critical
  <1>2. QED
    BY <1>1, AtomicInvariant, PTL

-----------------------------------------------------------------------------
(* What is served. *)

LEMMA OnlyOne ==
  ASSUME Faultless, NEW p \in Proc
  PROVE  Proc = {p}
  BY FS_Singleton, ProcAssumption DEF Faultless

\* Without a failing read, what is installed is healthy.
LEMMA IntactIsHealthy ==
  ASSUME TypeInv, InstalledInv, [Next]_vars, Faultless', NEW g \in Pointers
  PROVE  ~Unhealthy(g)
  <1>1. g \in installed
    BY DEF InstalledInv, PointersInstalled
  <1>2. ~HealthFault
    BY FaultsCount, BoundAssumption DEF Faultless, TypeInv, TypeOK, HealthFault
  <1>3. QED
    BY <1>1, <1>2 DEF Unhealthy

LEMMA ServedUnlocked ==
  ASSUME TypeInv, LockInv, InstalledInv, Resting, Unlocked, [Next]_vars, Faultless',
         ~WriteFault, NEW p \in Proc, Proc = {p}, ServedFor(p)
  PROVE  ServedFor(p)'
  <1> USE DEF TypeInv, TypeOK, ServedFor, Ahead, Critical, Installing, Call, Goto
  <1>0. /\ state' = state /\ pc \in [Proc -> Label] /\ goal \in [Proc -> Goal] /\ model \in [Proc -> Target]
        /\ work \in [Proc -> Locals] /\ Blank.ok = FALSE
    BY UnlockedFrame DEF Blank
  <1>1. CASE Start(p) \/ Request(p) \/ Exit(p)
    BY <1>0, <1>1 DEF Start, Request, Exit
  <1>2. CASE ProbeActive(p)
    BY <1>0, <1>2 DEF ProbeActive, Fail, Goal
  <1>3. CASE ResolveModel(p)
    <2>1. state.active # None => ~Unhealthy(state.active)
      BY IntactIsHealthy DEF Pointers
    <2>2. QED
      BY <1>0, <1>3, <2>1 DEF ResolveModel, Fail, Goal
  <1>4. CASE Kill(p)
    BY <1>0, <1>4 DEF Kill
  <1>5. CASE AcquireRuntimeLock(p)
    BY <1>0, <1>5 DEF AcquireRuntimeLock, Goal
  <1>6. CASE LockRefused(p)
    BY <1>0, <1>6 DEF LockRefused, Fail, Goal
  <1>7. CASE Release(p)
    <2>1. CASE work[p].ok
      BY <1>0, <1>7, <2>1 DEF Release, Succeed, Goal
    <2>2. CASE ~work[p].ok
      BY <1>0, <1>7, <2>2 DEF Release, Fail, Goal
    <2>3. QED
      BY <2>1, <2>2
  <1>8. CASE AdminRecovery \/ Deposit \/ UNCHANGED vars
    BY <1>0, <1>8 DEF AdminRecovery, Deposit, volatile, vars
  <1>9. QED
    BY <1>1, <1>2, <1>3, <1>4, <1>5, <1>6, <1>7, <1>8 DEF Unlocked

LEMMA ServedLocked ==
  ASSUME TypeInv, LockInv, InstalledInv, Fresh, [Next]_vars, Faultless', ~WriteFault,
         NEW p \in Proc, Locked(p), ServedFor(p)
  PROVE  ServedFor(p)'
  <1>0. /\ pc[p] \in Critical /\ pc'[p] \in Critical /\ UNCHANGED <<goal, model>>
        /\ goal[p] \in {"update", "rollback", "boot"} /\ goal[p] \in Goal
    <2>1. pc[p] \in Critical /\ pc'[p] \in Critical /\ UNCHANGED <<goal, model>>
      BY LockedFrame
    <2>2. QED
      BY <2>1 DEF ServedFor, Critical, TypeInv, TypeOK, Goal
  <1>h. \A g \in Pointers : ~Unhealthy(g)
    BY IntactIsHealthy
  <1>s. state.active # None => ~Unhealthy(state.active)
    BY <1>h DEF Pointers
  <1>c. control # None => ~Unhealthy(control)
    BY <1>h DEF Pointers
  <1>t. None \notin Pack
    BY PackAssumption
  <1> USE DEF ServedFor, Ahead, Installing, Critical, Kept, AllKept
  <1>1. CASE GuardTrustedTime(p)
    BY <1>0, <1>1, GuardEffect
  <1>2. CASE VerifyPack(p)
    BY <1>0, <1>2, VerifyEffect
  <1>3. CASE MarkRollbackTarget(p)
    BY <1>0, <1>3, MarkEffect
  <1>4. CASE StageGeneration(p)
    BY <1>0, <1>4, StageEffect
  <1>5. CASE AdvanceHighest(p)
    <2>1. state = work[p].old
      BY <1>5, AdvanceEffect DEF Fresh, FreshFor
    <2>2. QED
      BY <1>0, <1>5, <2>1, AdvanceEffect
  <1>6. CASE ActivateGeneration(p)
    BY <1>0, <1>6, <1>t, ActivateEffect
  <1>7. CASE ConfirmActivation(p)
    <2>1. work[p].pack \in Pack /\ state = ActiveState(p)
      BY <1>7, ConfirmEffect DEF Fresh, FreshFor, TypeInv, PackKnown
    <2>2. state.active \in Pack
      BY <2>1, Typed, ActiveStateType
    <2>3. QED
      BY <1>0, <1>7, <1>s, <1>t, <2>2, ConfirmEffect
  <1>8. CASE PromoteLKG(p)
    BY <1>0, <1>8, <1>t, PromoteEffect
  <1>9. CASE RestoreControl(p)
    BY <1>0, <1>9, RestoreEffect
  <1>10. CASE ComparePending(p) \/ TakePending(p)
    BY <1>0, <1>10, ConsumeEffect
  <1>11. CASE ReportControl(p)
    BY <1>0, <1>11, <1>c, ReportEffect
  <1>12. CASE SwapRollbackTarget(p)
    BY <1>0, <1>12, <1>t, SwapEffect
  <1>13. CASE SwitchToTarget(p)
    BY <1>0, <1>13, SwitchEffect
  <1>14. CASE SettleRollback(p)
    BY <1>0, <1>14, <1>s, SettleEffect
  <1>15. CASE RevertActivation(p) \/ RevertSwitch(p)
    BY <1>15, RevertEffect, UnswitchEffect
  <1>16. QED
    BY <1>1, <1>2, <1>3, <1>4, <1>5, <1>6, <1>7, <1>8, <1>9, <1>10, <1>11, <1>12, <1>13, <1>14, <1>15
    DEF Locked

LEMMA ServedStep ==
  TypeInv /\ LockInv /\ Fresh /\ InstalledInv /\ Resting /\ ServedInv /\ [Next]_vars => ServedInv'
  <1> SUFFICES ASSUME TypeInv, LockInv, Fresh, InstalledInv, Resting, ServedInv, [Next]_vars, Faultless',
                      NEW p \in Proc
               PROVE  ServedFor(p)'
    BY DEF ServedInv
  <1>1. Faultless /\ ServedFor(p) /\ Proc = {p}
    BY FaultsCount, OnlyOne DEF ServedInv
  <1>2. ~WriteFault
    BY FaultsCount, BoundAssumption DEF Faultless, TypeInv, TypeOK, WriteFault
  <1>3. QED
    BY <1>1, <1>2, ServedUnlocked, ServedLocked, StepKinds

\* AgreementAtRest: between operations the active generation is the last known
\* good, and what a lone process serves is the active generation, whatever was
\* killed before, as long as no operation fails (installVerifiedGenerationLocked,
\* Runtime.Handle).
THEOREM StoreAgrees == Spec => []AgreementAtRest
  <1> DEFINE Inv == TypeInv /\ LockInv /\ Fresh /\ InstalledInv /\ Resting /\ ServedInv
  <1>1. Init => InstalledInv /\ Resting /\ ServedInv
    <2>1. Init => InstalledInv /\ Resting
      BY DEF Init, InstalledInv, PointersInstalled, SavedInstalled, Pointers, Saved, Advanced,
        Resting, Blank, DefaultRuntimeState
    <2>2. Init => ServedInv
      BY DEF Init, ServedInv, ServedFor, Ahead, Installing, Critical, Blank, DefaultRuntimeState
    <2>3. QED
      BY <2>1, <2>2
  <1>2. Inv /\ [Next]_vars => InstalledInv' /\ Resting' /\ ServedInv'
    BY InstalledStep, RestingStep, ServedStep
  <1>3. Spec => []Inv
    BY <1>1, <1>2, Invariants2, PTL DEF Spec
  <1>4. Inv => ServedIsActive
    BY DEF ServedInv, ServedFor, Faultless, ServedIsActive
  <1>5. QED
    BY <1>3, <1>4, StoreIsSettled, PTL DEF AgreementAtRest
=============================================================================
