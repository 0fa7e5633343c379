------------------------- MODULE EffectWorkerProofs -------------------------
(***************************************************************************)
(* Theorems about EffectWorker, for every set of slots, threads and        *)
(* effects and every value of the bounds.                                  *)
(***************************************************************************)
EXTENDS EffectWorker, TLAPS

USE TypesAssumption, WorkerAssumption

\* A transaction of commands or recovery keeps the types.
LEMMA WriteType ==
    ASSUME TypeOK, NEW E \in SUBSET Effects, NEW t \in Threads, NEW types, Write(E, t, types)
    PROVE  TypeOK'
  <1>1. status' \in [Effects -> Statuses]
    BY DEF TypeOK, OutboxTypeOK, Write, EnqueueThenCancel, AfterInsert, Statuses, Settled, Unsettled
  <1>2. nextRow' \in Nat \ {0} /\ rowid' \in [Effects -> Nat] /\ attempts' \in [Effects -> Nat]
        /\ due' \in [Effects -> BOOLEAN]
    BY DEF TypeOK, OutboxTypeOK, Write, EnqueueThenCancel
  <1>3. lease' \in [Effects -> Nat] /\ born' \in [Effects -> Nat]
    BY DEF TypeOK, OutboxTypeOK, Write, EnqueueThenCancel
  <1>4. toSignal' \in SUBSET Effects
    BY DEF TypeOK, Write, Cancelled, UnsettledOf
  <1> QED
    BY <1>1, <1>2, <1>3, <1>4 DEF TypeOK, OutboxTypeOK, Write, EnqueueThenCancel, workerVars

\* So does a slot that moves on, returns to the loop, or all slots stopping.
SlotTypes == /\ pc \in [Slots -> Stages]
             /\ held \in [Slots -> Effects \cup {NoEffect}]
             /\ deferred \in [Slots -> BOOLEAN]
             /\ outcome \in [Slots -> Outcomes]
             /\ unheard \in [Slots -> BOOLEAN]
             /\ signals \in [Effects -> Slots \cup {NoSlot}]

LEMMA ReleaseType ==
    ASSUME TypeOK, NEW s \in Slots, Release(s)
    PROVE  SlotTypes'
  <1>1. "idle" \in Stages /\ "none" \in Outcomes
    BY DEF Stages, Outcomes
  <1> QED
    BY <1>1 DEF Release, ClearSignal, TypeOK, OutboxTypeOK, SlotTypes

LEMMA AfterSettleType ==
    ASSUME TypeOK, NEW s \in Slots, AfterSettle(s)
    PROVE  SlotTypes'
  <1>1. "unsignal" \in Stages /\ "none" \in Outcomes
    BY DEF Stages, Outcomes
  <1> QED
    BY <1>1 DEF AfterSettle, TypeOK, OutboxTypeOK, SlotTypes

LEMMA GotoType ==
    ASSUME TypeOK, NEW s \in Slots, NEW stage \in Stages, Goto(s, stage)
    PROVE  /\ pc' \in [Slots -> Stages]
           /\ UNCHANGED <<held, deferred, outcome, unheard>>
  BY DEF Goto, TypeOK

LEMMA SlotsStopType ==
    ASSUME TypeOK, SlotsStop
    PROVE  SlotTypes'
  BY DEF SlotsStop, SlotTypes, Stages, Outcomes

\* The table keeps its types under claims and settlements.
TableTypes == /\ status \in [Effects -> Statuses]
              /\ attempts \in [Effects -> Nat]
              /\ lease \in [Effects -> Nat]
              /\ due \in [Effects -> BOOLEAN]
              /\ rowid \in [Effects -> Nat]
              /\ nextRow \in Nat \ {0}

LEMMA ClaimRowType ==
    ASSUME TypeOK, NEW e \in Effects, ClaimRow(e, incarnation)
    PROVE  TableTypes'
  BY DEF TypeOK, OutboxTypeOK, TableTypes, ClaimRow, Statuses, Unsettled

LEMMA FinishType ==
    ASSUME TypeOK, NEW e, NEW to \in Settled, Finish(e, incarnation, to)
    PROVE  TableTypes'
  BY DEF TypeOK, OutboxTypeOK, TableTypes, Finish, Statuses

LEMMA RetryType ==
    ASSUME TypeOK, NEW e, NEW delayed \in BOOLEAN, Retry(e, incarnation, delayed)
    PROVE  TableTypes'
  <1>1. due' \in [Effects -> BOOLEAN]
    <2>1. PICK b \in BOOLEAN : due' = [due EXCEPT ![e] = b]
      BY Zenon DEF Retry
    <2> QED
      BY <2>1 DEF TypeOK, OutboxTypeOK
  <1>2. /\ status' \in [Effects -> Statuses]
        /\ lease' \in [Effects -> Nat]
        /\ UNCHANGED <<attempts, rowid, nextRow>>
    BY DEF Retry, TypeOK, OutboxTypeOK, Statuses, Unsettled
  <1> QED
    BY <1>1, <1>2 DEF TypeOK, OutboxTypeOK, TableTypes

LEMMA TypeFromParts ==
    ASSUME TableTypes', SlotTypes', phase' \in Phases, incarnation' \in Nat,
           born' \in [Effects -> Nat], toSignal' \in SUBSET Effects, faults' \in Nat
    PROVE  TypeOK'
  BY DEF TypeOK, OutboxTypeOK, TableTypes, SlotTypes

LEMMA TypeInit == Init => TypeOK
  BY DEF Init, OutboxInit, SlotsIdle, TypeOK, OutboxTypeOK, Statuses, Phases, Stages, Outcomes

LEMMA TypeStep == TypeOK /\ [Next]_vars => TypeOK'
  <1> SUFFICES ASSUME TypeOK, [Next]_vars PROVE TypeOK'
    OBVIOUS
  <1>0. /\ phase \in Phases /\ incarnation \in Nat /\ born \in [Effects -> Nat]
        /\ toSignal \in SUBSET Effects /\ faults \in Nat
        /\ {"succeeded", "failed"} \subseteq Settled
        /\ \A s \in Slots : pc[s] \in Holding => held[s] \in Effects \cup {NoEffect}
        /\ TableTypes /\ SlotTypes
    BY DEF TypeOK, OutboxTypeOK, Settled, TableTypes, SlotTypes
  <1>1. ASSUME NEW e \in Effects, CommitCommand(e) PROVE TypeOK'
    BY <1>1, WriteType DEF CommitCommand, TypesAssumption
  <1>2. ASSUME NEW e \in Continuations, PrepareContinuation(e) PROVE TypeOK'
    BY <1>2, WriteType DEF PrepareContinuation, Continuations, TypesAssumption
  <1>3. ASSUME NEW t \in Threads, NEW E \in Batches(t), CommitInterrupt(E, t) PROVE TypeOK'
    <2>1. E \in SUBSET Effects
      BY DEF Batches
    <2> QED
      BY <1>3, <2>1, WriteType DEF CommitInterrupt
  <1>4. ASSUME NEW t \in Threads, NEW E \in Batches(t), ReconcileThread(E, t) PROVE TypeOK'
    <2>1. E \in SUBSET Effects
      BY DEF Batches
    <2> QED
      BY <1>4, <2>1, WriteType DEF ReconcileThread
  <1>5. ASSUME NEW s \in Slots, Fault(s) PROVE TypeOK'
    <2>1. "requeue" \in Stages /\ "terminalize" \in Stages
      BY DEF Stages
    <2>2. pc' \in [Slots -> Stages] /\ UNCHANGED <<held, deferred, outcome, unheard>>
      BY <1>5, <2>1, GotoType DEF Fault
    <2> QED
      BY <1>5, <1>0, <2>2 DEF Fault, rest, outboxVars, TypeOK, OutboxTypeOK
  <1>6. ASSUME NEW s \in Slots, Abandon(s) PROVE TypeOK'
    BY <1>6, <1>0, ReleaseType, TypeFromParts DEF Abandon, rest, TableTypes
  <1>7. ASSUME NEW e \in Effects, Prune(e) \/ Tick(e) \/ SignalCancellation(e) \/ LoseSignal(e) PROVE TypeOK'
    <2> USE DEF TypeOK, OutboxTypeOK, Statuses
    <2> QED
      BY <1>7 DEF Prune, PruneRow, Tick, BecomesDue, SignalCancellation, LoseSignal, workerVars, outboxVars
  <1>8. CASE Shutdown \/ Crash
    BY <1>8, <1>0, SlotsStopType, TypeFromParts DEF Shutdown, Crash, TableTypes, Phases
  <1>9. CASE Boot \/ RetireLost \/ RequeueLost
    <2>1. CASE Boot
      BY <2>1 DEF Boot, outboxVars, workerVars, TypeOK, OutboxTypeOK, Phases
    <2>2. CASE RetireLost
      BY <2>2, <1>0, TypeFromParts
      DEF RetireLost, RetireProcessBound, workerVars, TableTypes, SlotTypes, Phases, Statuses, Settled
    <2>3. CASE RequeueLost
      BY <2>3, <1>0, TypeFromParts
      DEF RequeueLost, RequeueReplaySafe, workerVars, TableTypes, SlotTypes, Phases, Statuses, Unsettled
    <2> QED
      BY <1>9, <2>1, <2>2, <2>3
  <1>10. ASSUME NEW s \in Slots, NEW e \in Effects, Claim(s, e) \/ ClaimUndecodable(s, e) PROVE TypeOK'
    <2>1. TableTypes'
      BY <1>10, ClaimRowType DEF Claim, ClaimUndecodable
    <2>2. SlotTypes'
      BY <1>10, <1>0 DEF Claim, ClaimUndecodable, SlotTypes, workerVars, Stages
    <2> QED
      BY <1>10, <1>0, <2>1, <2>2, TypeFromParts DEF Claim, ClaimUndecodable, rest
  <1>11. ASSUME NEW s \in Slots, Arm(s) \/ Execute(s) PROVE TypeOK'
    <2>1. "armed" \in Stages /\ "executing" \in Stages
      BY DEF Stages
    <2>2. SlotTypes'
      BY <1>11, <1>0, <2>1, GotoType DEF Arm, Execute, SetSignal, SlotTypes, outboxVars
    <2>3. TableTypes'
      BY <1>11, <1>0 DEF Arm, Execute, TableTypes, outboxVars
    <2> QED
      BY <1>11, <1>0, <2>2, <2>3, TypeFromParts DEF Arm, Execute, rest
  <1>12. ASSUME NEW s \in Slots, RecheckCancelled(s) \/ ExecutionCancelled(s) \/ SettleNothing(s) \/ Unsignal(s)
         PROVE TypeOK'
    BY <1>12, <1>0, ReleaseType, TypeFromParts
    DEF RecheckCancelled, ExecutionCancelled, SettleNothing, Unsignal, rest, TableTypes
  <1>13. ASSUME NEW s \in Slots, NEW how \in Outcomes \ {"none"}, ExecutorReturns(s, how) PROVE TypeOK'
    <2>1. SlotTypes'
      BY <1>13, <1>0 DEF ExecutorReturns, ClearSignal, SlotTypes, Stages
    <2> QED
      BY <1>13, <1>0, <2>1, TypeFromParts DEF ExecutorReturns, rest, TableTypes
  <1>14. ASSUME NEW s \in Slots, SettleSucceed(s) \/ SettleFail(s) \/ SettleRetry(s)
                                  \/ Requeue(s) \/ Terminalize(s) PROVE TypeOK'
    <2>1. SlotTypes'
      BY <1>14, AfterSettleType DEF SettleSucceed, SettleFail, SettleRetry, Requeue, Terminalize
    <2>2. TableTypes'
      <3>1. CASE SettleSucceed(s) \/ SettleFail(s) \/ Terminalize(s)
        BY <3>1, <1>0, FinishType DEF SettleSucceed, SettleFail, Terminalize
      <3>2. CASE SettleRetry(s) \/ Requeue(s)
        BY <3>2, <1>0, RetryType DEF SettleRetry, Requeue
      <3> QED
        BY <1>14, <3>1, <3>2
    <2> QED
      BY <1>14, <1>0, <2>1, <2>2, TypeFromParts
      DEF SettleSucceed, SettleFail, SettleRetry, Requeue, Terminalize, rest
  <1>15. CASE UNCHANGED vars
    BY <1>15 DEF vars, outboxVars, workerVars, TypeOK, OutboxTypeOK
  <1> QED
    BY <1>1, <1>2, <1>3, <1>4, <1>5, <1>6, <1>7, <1>8, <1>9, <1>10, <1>11, <1>12, <1>13, <1>14, <1>15
    DEF Next, Environment, SlotStep

\* Every variable keeps its type.
THEOREM TypeCorrect == Spec => []TypeOK
  BY TypeInit, TypeStep, PTL DEF Spec

-----------------------------------------------------------------------------
(* Claims.                                                                 *)

\* A slot outside the loop holds an effect of a live server, a slot in the
\* loop holds none, and no two slots owe a settlement to the same row.
Claims ==
    /\ \A s \in Slots : /\ pc[s] = "idle" => held[s] = NoEffect
                        /\ pc[s] # "idle" => held[s] \in Effects /\ phase = "up"
    /\ ClaimIsKept

LEMMA WriteKeepsClaims ==
    ASSUME TypeOK, Claims, NEW t \in Threads, NEW E \in SUBSET Effects, NEW types,
           Write(E, t, types)
    PROVE  Claims'
  <1>1. UNCHANGED <<pc, held, phase, incarnation>>
    BY DEF Write, workerVars
  <1>2. ASSUME NEW e \in Effects, status[e] = "cancelled"
        PROVE  status'[e] = "cancelled"
    BY <1>2 DEF Write, EnqueueThenCancel, Cancelled, UnsettledOf, AfterInsert, Inserted, Unsettled
  <1>3. ASSUME NEW e \in Effects, Owns(e, incarnation)
        PROVE  status'[e] = "cancelled" \/ Owns(e, incarnation)'
    BY <1>3, <1>1 DEF Write, EnqueueThenCancel, AfterInsert, Inserted, Owns
  <1> QED
    BY <1>1, <1>2, <1>3 DEF Claims, ClaimIsKept, Holding, Stages

LEMMA ClaimsStep == TypeOK /\ Claims /\ [Next]_vars => Claims'
<1> SUFFICES ASSUME TypeOK, Claims, [Next]_vars PROVE Claims'
  OBVIOUS
<1>1. ASSUME NEW e \in Effects, CommitCommand(e) PROVE Claims'
  BY <1>1, WriteKeepsClaims DEF CommitCommand
<1>2. ASSUME NEW e \in Continuations, PrepareContinuation(e) PROVE Claims'
  BY <1>2, WriteKeepsClaims DEF PrepareContinuation, Continuations
<1>3. ASSUME NEW t \in Threads, NEW E \in Batches(t), CommitInterrupt(E, t) \/ ReconcileThread(E, t)
      PROVE Claims'
  <2>1. E \in SUBSET Effects
    BY DEF Batches
  <2> QED
    BY <1>3, <2>1, WriteKeepsClaims DEF CommitInterrupt, ReconcileThread
<1> USE DEF Claims, ClaimIsKept, Holding, Stages
<1>4. ASSUME NEW s \in Slots, Fault(s) PROVE Claims'
  BY <1>4 DEF Fault, Goto, rest, outboxVars, Owns, TypeOK
<1>5. ASSUME NEW s \in Slots, Abandon(s) PROVE Claims'
  BY <1>5 DEF Abandon, Release, rest, Owns, TypeOK
<1>6. ASSUME NEW e \in Effects, Prune(e) PROVE Claims'
  BY <1>6 DEF Prune, PruneRow, workerVars, Owns, TypeOK, OutboxTypeOK
<1>7. ASSUME NEW e \in Effects, Tick(e) \/ SignalCancellation(e) \/ LoseSignal(e) PROVE Claims'
  BY <1>7 DEF Tick, BecomesDue, SignalCancellation, LoseSignal, workerVars, outboxVars, Owns
<1>8. CASE Shutdown \/ Crash
  BY <1>8 DEF Shutdown, Crash, SlotsStop
<1>9. CASE Boot \/ RetireLost \/ RequeueLost
  BY <1>9 DEF Boot, RetireLost, RequeueLost, workerVars
<1>10. ASSUME NEW s \in Slots, NEW e \in Effects, Claim(s, e) PROVE Claims'
  BY <1>10 DEF Claim, Claimable, Unblocked, ClaimRow, rest, Owns, TypeOK, OutboxTypeOK
<1>11. ASSUME NEW s \in Slots, NEW e \in Effects, ClaimUndecodable(s, e) PROVE Claims'
  BY <1>11 DEF ClaimUndecodable, Claimable, Unblocked, ClaimRow, rest, workerVars, Owns, TypeOK, OutboxTypeOK
<1>12. ASSUME NEW s \in Slots, Arm(s) \/ Execute(s) PROVE Claims'
  BY <1>12 DEF Arm, Execute, Goto, rest, outboxVars, Owns, TypeOK
<1>13. ASSUME NEW s \in Slots, RecheckCancelled(s) \/ ExecutionCancelled(s) \/ SettleNothing(s) \/ Unsignal(s)
       PROVE Claims'
  BY <1>13 DEF RecheckCancelled, ExecutionCancelled, SettleNothing, Unsignal, Release, rest, Owns, TypeOK
<1>14. ASSUME NEW s \in Slots, NEW how \in Outcomes, ExecutorReturns(s, how) PROVE Claims'
  BY <1>14 DEF ExecutorReturns, rest, Owns, TypeOK
<1>15. ASSUME NEW s \in Slots, SettleSucceed(s) \/ SettleFail(s) \/ SettleRetry(s)
                                \/ Requeue(s) \/ Terminalize(s) PROVE Claims'
  <2>1. /\ pc[s] \in Holding /\ held[s] \in Effects /\ phase = "up"
        /\ \A e \in Effects \ {held[s]} : status'[e] = status[e] /\ lease'[e] = lease[e]
        /\ UNCHANGED <<incarnation, phase>>
    BY <1>15 DEF SettleSucceed, SettleFail, SettleRetry, Requeue, Terminalize, Finish, Retry, rest,
                 TypeOK, OutboxTypeOK
  <2>2. AfterSettle(s)
    BY <1>15 DEF SettleSucceed, SettleFail, SettleRetry, Requeue, Terminalize
  <2>3. /\ \A r \in Slots \ {s} : pc'[r] = pc[r] /\ held'[r] = held[r]
        /\ pc'[s] = "unsignal" /\ held'[s] = held[s]
    BY <2>2 DEF AfterSettle, TypeOK
  <2> QED
    BY <2>1, <2>3 DEF Owns
<1>16. CASE UNCHANGED vars
  BY <1>16 DEF vars, outboxVars, workerVars, Owns
<1> QED
  BY <1>1, <1>2, <1>3, <1>4, <1>5, <1>6, <1>7, <1>8, <1>9, <1>10, <1>11, <1>12, <1>13, <1>14, <1>15, <1>16
  DEF Next, Environment, SlotStep

LEMMA ClaimsInit == Init => Claims
  BY DEF Init, SlotsIdle, Claims, ClaimIsKept, Holding, Stages

\* While a server lives no slot ever loses a claim to another slot.
THEOREM ClaimsAreKept == Spec => []ClaimIsKept
<1>1. Spec => [](TypeOK /\ Claims)
  BY ClaimsInit, TypeInit, TypeStep, ClaimsStep, PTL DEF Spec
<1> QED
  BY <1>1, PTL DEF Claims
-----------------------------------------------------------------------------
(* Work for a provider process stays with its server process.              *)

\* Once a new process has retired what the last one left, every unsettled row
\* and every claim of a process-bound effect is its own.
Bound == {e \in Effects : TypeOf[e] \in ProcessBound}

OwnWork ==
    /\ phase \notin {"down", "recovering"} =>
          \A e \in Bound : status[e] \in Unsettled => born[e] = incarnation
    /\ \A s \in Slots : pc[s] \in Holding /\ held[s] \in Bound => born[held[s]] = incarnation

\* Steps that neither insert a row nor make a settled one unsettled again.
LEMMA QuietOwnWork ==
    ASSUME TypeOK, OwnWork, UNCHANGED <<born, incarnation>>,
           phase' \in {"down", "recovering"} \/ phase' = phase,
           \A e \in Effects : status'[e] \in Unsettled => status[e] \in Unsettled,
           \A s \in Slots : pc'[s] \in Holding => pc[s] \in Holding /\ held'[s] = held[s]
    PROVE  OwnWork'
  BY DEF OwnWork, Bound

LEMMA WriteOwnWork ==
    ASSUME TypeOK, Claims, OwnWork, NEW t \in Threads, NEW E \in SUBSET Effects, NEW types,
           Write(E, t, types), phase \in {"down", "recovering"} => E \cap Bound = {}
    PROVE  OwnWork'
  <1>1. UNCHANGED <<pc, held, phase, incarnation>>
    BY DEF Write, workerVars
  <1>2. ASSUME NEW e \in Effects
        PROVE  /\ e \in Inserted(E) => born'[e] = incarnation
               /\ e \notin Inserted(E) => born'[e] = born[e]
               /\ status'[e] \in Unsettled => e \in Inserted(E) \/ status[e] \in Unsettled
    BY DEF Write, EnqueueThenCancel, AfterInsert, Unsettled
  <1>3. \A s \in Slots : pc[s] \in Holding => held[s] \in Effects \ Inserted(E)
    <2>1. ASSUME NEW s \in Slots, pc[s] \in Holding PROVE held[s] \in Effects \ Inserted(E)
      <3>1. held[s] \in Effects /\ status[held[s]] \notin {"absent", "pruned"}
        BY <2>1 DEF Claims, ClaimIsKept, Owns, Holding
      <3> QED
        BY <3>1 DEF Inserted
    <2> QED
      BY <2>1
  <1> QED
    BY <1>1, <1>2, <1>3 DEF OwnWork, Bound

LEMMA OwnWorkStep == TypeOK /\ Claims /\ OwnWork /\ [Next]_vars => OwnWork'
<1> SUFFICES ASSUME TypeOK, Claims, OwnWork, [Next]_vars PROVE OwnWork'
  OBVIOUS
<1>1. ASSUME NEW e \in Effects, CommitCommand(e) PROVE OwnWork'
  BY <1>1, WriteOwnWork DEF CommitCommand, Serving, TypesAssumption
<1>2. ASSUME NEW e \in Continuations, PrepareContinuation(e) PROVE OwnWork'
  BY <1>2, WriteOwnWork DEF PrepareContinuation, Continuations, TypesAssumption
<1>3. ASSUME NEW t \in Threads, NEW E \in Batches(t), CommitInterrupt(E, t) \/ ReconcileThread(E, t)
      PROVE OwnWork'
  <2>1. E \in SUBSET Effects
    BY DEF Batches
  <2>2. Continuations \cap Bound = {}
    BY DEF Continuations, Bound, ProcessBound
  <2> QED
    BY <1>3, <2>1, <2>2, WriteOwnWork DEF CommitInterrupt, ReconcileThread, Serving
<1>4. ASSUME NEW s \in Slots, Fault(s) \/ Abandon(s) \/ Arm(s) \/ Execute(s) \/ RecheckCancelled(s)
                               \/ ExecutionCancelled(s) \/ SettleNothing(s) \/ Unsignal(s)
                               \/ \E how \in Outcomes \ {"none"} : ExecutorReturns(s, how)
      PROVE OwnWork'
  <2>1. UNCHANGED <<status, phase, born, incarnation>>
    BY <1>4 DEF Fault, Abandon, Arm, Execute, RecheckCancelled, ExecutionCancelled, SettleNothing,
                Unsignal, ExecutorReturns, outboxVars, rest
  <2>2. \A r \in Slots : pc'[r] \in Holding => pc[r] \in Holding /\ held'[r] = held[r]
    BY <1>4 DEF Fault, Abandon, Arm, Execute, RecheckCancelled, ExecutionCancelled, SettleNothing,
                Unsignal, ExecutorReturns, Release, Goto, Holding, Stages, TypeOK
  <2> QED
    BY <2>1, <2>2, QuietOwnWork
<1>5. ASSUME NEW e \in Effects, Tick(e) \/ SignalCancellation(e) \/ LoseSignal(e) PROVE OwnWork'
  BY <1>5 DEF Tick, BecomesDue, SignalCancellation, LoseSignal, outboxVars, workerVars, OwnWork
<1>6. ASSUME NEW e \in Effects, Prune(e) PROVE OwnWork'
  <2>1. /\ UNCHANGED <<phase, born, incarnation, pc, held>>
        /\ \A f \in Effects : status'[f] \in Unsettled => status[f] \in Unsettled
    BY <1>6 DEF Prune, PruneRow, workerVars, Unsettled, TypeOK, OutboxTypeOK
  <2> QED
    BY <2>1, QuietOwnWork
<1>7. CASE Shutdown \/ Crash
  BY <1>7 DEF Shutdown, Crash, SlotsStop, OwnWork, Holding
<1>8. CASE Boot
  <2>1. \A s \in Slots : pc[s] = "idle"
    BY <1>8 DEF Boot, Claims, TypeOK
  <2> QED
    BY <1>8, <2>1 DEF Boot, workerVars, OwnWork, Holding
<1>9. CASE RetireLost
  <2>1. \A s \in Slots : pc'[s] = "idle"
    BY <1>9 DEF RetireLost, Claims, workerVars, TypeOK
  <2>2. \A e \in Bound : status'[e] \notin Unsettled
    BY <1>9 DEF RetireLost, RetireProcessBound, Bound, Unsettled
  <2> QED
    BY <2>1, <2>2 DEF OwnWork, Holding
<1>10. CASE RequeueLost
  <2>1. \A s \in Slots : pc'[s] = "idle"
    BY <1>10 DEF RequeueLost, Claims, workerVars, TypeOK
  <2>2. /\ UNCHANGED <<born, incarnation>> /\ phase \notin {"down", "recovering"}
        /\ \A e \in Effects : status'[e] \in Unsettled => status[e] \in Unsettled
    BY <1>10 DEF RequeueLost, RequeueReplaySafe, Unsettled
  <2> QED
    BY <2>1, <2>2 DEF OwnWork, Holding, Bound
<1>11. ASSUME NEW s \in Slots, NEW e \in Effects, Claim(s, e) \/ ClaimUndecodable(s, e) PROVE OwnWork'
  <2>1. /\ UNCHANGED <<born, incarnation, phase>> /\ phase = "up" /\ status[e] \in Unsettled
        /\ \A f \in Effects : status'[f] \in Unsettled => status[f] \in Unsettled
        /\ \A r \in Slots : \/ pc'[r] = pc[r] /\ held'[r] = held[r]
                            \/ held'[r] = e
    BY <1>11 DEF Claim, ClaimUndecodable, Claimable, Unblocked, ClaimRow, Unsettled, workerVars, rest,
                 TypeOK, OutboxTypeOK
  <2> QED
    BY <2>1 DEF OwnWork, Bound
<1>12. ASSUME NEW s \in Slots, SettleSucceed(s) \/ SettleFail(s) \/ SettleRetry(s)
                                \/ Requeue(s) \/ Terminalize(s) PROVE OwnWork'
  <2>1. /\ UNCHANGED <<born, incarnation, phase>>
        /\ \A f \in Effects : status'[f] \in Unsettled => status[f] \in Unsettled
    BY <1>12 DEF SettleSucceed, SettleFail, SettleRetry, Requeue, Terminalize, Finish, Retry, Owns, rest,
                 Unsettled, TypeOK, OutboxTypeOK
  <2>2. AfterSettle(s)
    BY <1>12 DEF SettleSucceed, SettleFail, SettleRetry, Requeue, Terminalize
  <2>3. \A r \in Slots : pc'[r] \in Holding => pc[r] \in Holding /\ held'[r] = held[r]
    BY <2>2 DEF AfterSettle, Holding, TypeOK
  <2> QED
    BY <2>1, <2>3, QuietOwnWork
<1>13. CASE UNCHANGED vars
  BY <1>13 DEF vars, outboxVars, workerVars, OwnWork
<1> QED
  BY <1>1, <1>2, <1>3, <1>4, <1>5, <1>6, <1>7, <1>8, <1>9, <1>10, <1>11, <1>12, <1>13
  DEF Next, Environment, SlotStep

\* No effect meant for a provider process runs in a later server process,
\* wherever the earlier one was lost or shut down: recovery retires every such
\* row before a slot can claim it or a command can add another.
THEOREM WorkStaysWithItsProcess == Spec => []NeverReplayedAcrossProcesses
<1>1. Init => OwnWork
  BY DEF Init, OutboxInit, SlotsIdle, OwnWork, Holding, Unsettled
<1>2. Claims /\ OwnWork => NeverReplayedAcrossProcesses
  BY DEF NeverReplayedAcrossProcesses, OwnWork, Bound, Holding, Stages, Claims
<1>3. Spec => [](TypeOK /\ Claims /\ OwnWork)
  BY <1>1, ClaimsInit, TypeInit, TypeStep, ClaimsStep, OwnWorkStep, PTL DEF Spec
<1> QED
  BY <1>2, <1>3, PTL
-----------------------------------------------------------------------------
(* Cancellations reach the executor.                                       *)

\* The entry of a claim is there from Arm to the end of the execution, unless
\* the slot of an earlier claim of the same row deletes it.
Reachable ==
    /\ \A s \in Slots : pc[s] \in {"armed", "executing"} => signals[held[s]] = s \/ unheard[s]
    /\ CancellationReachesExecutor

LEMMA ReachableStep == TypeOK /\ Claims /\ Reachable /\ [Next]_vars => Reachable'
<1> SUFFICES ASSUME TypeOK, Claims, Reachable, [Next]_vars PROVE Reachable'
  OBVIOUS
<1> DEFINE AtRisk(s) == pc[s] \in {"armed", "executing"}
<1>0. \A s, r \in Slots : s # r /\ AtRisk(s) /\ pc[r] \in Holding =>
          /\ held[s] \in Effects /\ held[r] \in Effects /\ held[s] # held[r]
  BY DEF Claims, ClaimIsKept, Holding, Stages, TypeOK
<1>a. \A s \in Slots : AtRisk(s) => held[s] \in Effects /\ phase = "up"
  BY DEF Claims
\* A write signals what it cancels.
<1>1. ASSUME NEW E \in SUBSET Effects, NEW t \in Threads, NEW types, Write(E, t, types)
      PROVE  Reachable'
  <2>1. UNCHANGED <<pc, held, deferred, unheard, signals>>
    BY <1>1 DEF Write, workerVars
  <2>2. \A e \in Effects : status'[e] = "cancelled" => status[e] = "cancelled" \/ e \in toSignal'
    BY <1>1 DEF Write, EnqueueThenCancel, AfterInsert
  <2>3. toSignal \subseteq toSignal'
    BY <1>1 DEF Write
  <2> QED
    BY <1>a, <2>1, <2>2, <2>3 DEF Reachable, CancellationReachesExecutor
<1>2. ASSUME NEW e \in Effects, CommitCommand(e) PROVE Reachable'
  BY <1>1, <1>2 DEF CommitCommand, TypesAssumption
<1>3. ASSUME NEW e \in Continuations, PrepareContinuation(e) PROVE Reachable'
  BY <1>1, <1>3 DEF PrepareContinuation, Continuations, TypesAssumption
<1>4. ASSUME NEW t \in Threads, NEW E \in Batches(t), CommitInterrupt(E, t) \/ ReconcileThread(E, t)
      PROVE Reachable'
  <2>1. E \in SUBSET Effects
    BY DEF Batches
  <2> QED
    BY <1>1, <1>4, <2>1 DEF CommitInterrupt, ReconcileThread
\* The slot that leaves clears the entry of its effect; if it is that of a
\* later claim, the slot of that claim is unheard from now on.
<1>5. ASSUME NEW s \in Slots, pc[s] # "idle", Release(s), UNCHANGED toSignal,
             \A e \in Effects \ {held[s]} : status'[e] = status[e]
      PROVE  Reachable'
  <2>1. /\ pc'[s] = "idle" /\ held[s] \in Effects
        /\ \A r \in Slots \ {s} : /\ pc'[r] = pc[r] /\ held'[r] = held[r] /\ deferred'[r] = deferred[r]
                                  /\ unheard[r] \/ signals[held[s]] = r => unheard'[r]
        /\ \A e \in Effects \ {held[s]} : signals'[e] = signals[e]
    BY <1>5 DEF Release, ClearSignal, Claims, TypeOK, OutboxTypeOK
  <2>2. ASSUME NEW r \in Slots \ {s}, AtRisk(r), held[r] = held[s] PROVE unheard'[r]
    BY <2>1, <2>2 DEF Reachable
  <2>3. ASSUME NEW r \in Slots \ {s}, AtRisk(r), held[r] # held[s]
        PROVE  /\ signals'[held'[r]] = r \/ unheard'[r]
               /\ pc'[r] = "executing" /\ status'[held'[r]] = "cancelled" =>
                     \/ deferred'[r]
                     \/ held'[r] \in toSignal' /\ signals'[held'[r]] = r
                     \/ unheard'[r]
    <3>1. held[r] \in Effects \ {held[s]}
      BY <1>a, <2>3
    <3>2. /\ pc'[r] = pc[r] /\ held'[r] = held[r] /\ deferred'[r] = deferred[r] /\ toSignal' = toSignal
          /\ status'[held[r]] = status[held[r]] /\ signals'[held[r]] = signals[held[r]]
          /\ unheard[r] => unheard'[r]
      BY <1>5, <2>1, <3>1
    <3> QED
      BY <2>3, <3>2, Zenon DEF Reachable, CancellationReachesExecutor
  <2> QED
    BY <2>1, <2>2, <2>3 DEF Reachable, CancellationReachesExecutor
<1>6. ASSUME NEW s \in Slots, Abandon(s) \/ RecheckCancelled(s) \/ ExecutionCancelled(s)
                               \/ SettleNothing(s) \/ Unsignal(s)
      PROVE Reachable'
  BY <1>5, <1>6 DEF Abandon, RecheckCancelled, ExecutionCancelled, SettleNothing, Unsignal, rest
<1>7. ASSUME NEW s \in Slots, SettleSucceed(s) \/ SettleFail(s) \/ SettleRetry(s)
                               \/ Requeue(s) \/ Terminalize(s) PROVE Reachable'
  <2>1. /\ pc[s] \in Holding /\ UNCHANGED toSignal
        /\ \A e \in Effects \ {held[s]} : status'[e] = status[e]
    BY <1>7 DEF SettleSucceed, SettleFail, SettleRetry, Requeue, Terminalize, Finish, Retry, rest,
                Holding, Stages, TypeOK, OutboxTypeOK
  <2>2. AfterSettle(s)
    BY <1>7 DEF SettleSucceed, SettleFail, SettleRetry, Requeue, Terminalize
  <2>3. /\ pc'[s] = "unsignal" /\ UNCHANGED <<held, signals>>
        /\ \A r \in Slots \ {s} : /\ pc'[r] = pc[r] /\ deferred'[r] = deferred[r]
                                  /\ unheard'[r] = unheard[r]
    BY <2>2 DEF AfterSettle, TypeOK
  <2> QED
    BY <1>0, <2>1, <2>3 DEF Reachable, CancellationReachesExecutor
<1>8. ASSUME NEW s \in Slots, Arm(s) PROVE Reachable'
  <2>1. /\ pc[s] = "claimed" /\ held[s] \in Effects /\ pc'[s] = "armed" /\ signals'[held[s]] = s
        /\ UNCHANGED <<status, held, deferred, unheard, toSignal>> /\ pc[s] \in Holding
        /\ \A r \in Slots \ {s} : pc'[r] = pc[r]
        /\ \A e \in Effects \ {held[s]} : signals'[e] = signals[e]
    BY <1>8 DEF Arm, SetSignal, Goto, rest, Claims, Holding, Stages, TypeOK, OutboxTypeOK
  <2> QED
    BY <1>0, <2>1 DEF Reachable, CancellationReachesExecutor
<1>9. ASSUME NEW s \in Slots, Execute(s) \/ Fault(s) PROVE Reachable'
  <2>1. /\ UNCHANGED <<status, signals, held, deferred, unheard, toSignal>>
        /\ \A r \in Slots \ {s} : pc'[r] = pc[r]
        /\ pc'[s] \in {"armed", "executing"} =>
              pc'[s] = "executing" /\ pc[s] = "armed" /\ status[held[s]] # "cancelled"
    BY <1>9 DEF Execute, Fault, Goto, outboxVars, rest, TypeOK
  <2> QED
    BY <2>1 DEF Reachable, CancellationReachesExecutor
<1>10. ASSUME NEW s \in Slots, NEW how \in Outcomes, ExecutorReturns(s, how) PROVE Reachable'
  <2>1. /\ pc[s] \in Holding /\ pc'[s] = "settling" /\ held[s] \in Effects
        /\ UNCHANGED <<status, held, deferred, toSignal>>
        /\ \A r \in Slots \ {s} : pc'[r] = pc[r] /\ unheard'[r] = unheard[r]
        /\ \A e \in Effects \ {held[s]} : signals'[e] = signals[e]
    BY <1>10 DEF ExecutorReturns, ClearSignal, rest, Claims, Holding, Stages, TypeOK, OutboxTypeOK
  <2> QED
    BY <1>0, <2>1 DEF Reachable, CancellationReachesExecutor
<1>11. ASSUME NEW s \in Slots, NEW e \in Effects, Claim(s, e) \/ ClaimUndecodable(s, e) PROVE Reachable'
  <2>1. /\ UNCHANGED <<signals, deferred, unheard, toSignal>>
        /\ \A f \in Effects : status'[f] = "cancelled" => status[f] = "cancelled"
        /\ \A r \in Slots : \/ pc'[r] = pc[r] /\ held'[r] = held[r]
                            \/ pc'[r] = "claimed"
    BY <1>11 DEF Claim, ClaimUndecodable, ClaimRow, rest, workerVars, TypeOK, OutboxTypeOK
  <2> QED
    BY <1>a, <2>1 DEF Reachable, CancellationReachesExecutor
<1>12. ASSUME NEW e \in Effects, SignalCancellation(e) PROVE Reachable'
  <2>1. /\ UNCHANGED <<status, signals, pc, held, unheard>> /\ toSignal' = toSignal \ {e}
        /\ \A s \in Slots : deferred'[s] = (deferred[s] \/ signals[e] = s)
    BY <1>12 DEF SignalCancellation, outboxVars
  <2> QED
    BY ZenonT(40), <2>1 DEF Reachable, CancellationReachesExecutor
<1>17. ASSUME NEW e \in Effects, LoseSignal(e) PROVE Reachable'
  <2>1. /\ UNCHANGED <<status, signals, pc, held, deferred>> /\ toSignal' = toSignal \ {e}
        /\ \A s \in Slots : unheard'[s] = (unheard[s] \/ held[s] = e)
    BY <1>17 DEF LoseSignal, outboxVars
  <2> QED
    BY ZenonT(40), <2>1 DEF Reachable, CancellationReachesExecutor
<1>13. ASSUME NEW e \in Effects, Tick(e) PROVE Reachable'
  BY <1>13 DEF Tick, BecomesDue, workerVars, Reachable, CancellationReachesExecutor
<1>14. ASSUME NEW e \in Effects, Prune(e) PROVE Reachable'
  <2>1. /\ UNCHANGED <<signals, pc, held, deferred, unheard, toSignal>>
        /\ \A f \in Effects : status'[f] = "cancelled" => status[f] = "cancelled"
    BY <1>14 DEF Prune, PruneRow, workerVars, TypeOK, OutboxTypeOK
  <2> QED
    BY <1>a, <2>1 DEF Reachable, CancellationReachesExecutor
\* The rest happens while every slot is in its loop, or takes it there.
<1>15. CASE Shutdown \/ Crash \/ Boot \/ RetireLost \/ RequeueLost
  <2>1. \A s \in Slots : pc'[s] = "idle"
    BY <1>15 DEF Shutdown, Crash, SlotsStop, Boot, RetireLost, RequeueLost, workerVars, Claims, TypeOK
  <2> QED
    BY <2>1 DEF Reachable, CancellationReachesExecutor
<1>16. CASE UNCHANGED vars
  BY <1>16 DEF vars, outboxVars, workerVars, Reachable, CancellationReachesExecutor
<1> QED
  BY <1>2, <1>3, <1>4, <1>6, <1>7, <1>8, <1>9, <1>10, <1>11, <1>12, <1>13, <1>14, <1>15, <1>16, <1>17
  DEF Next, Environment, SlotStep

\* A committed cancellation is never lost between the claim, the registration
\* of the Deferred and the re-read of the row: an executor it does not reach is
\* one whose signal was never sent, the fiber that committed it having been
\* interrupted, or one whose Deferred an earlier claim of its row deleted.
THEOREM CancellationsReachExecutors == Spec => []CancellationReachesExecutor
<1>1. Init => Reachable
  BY DEF Init, SlotsIdle, Reachable, CancellationReachesExecutor
<1>2. Spec => [](TypeOK /\ Claims /\ Reachable)
  BY <1>1, ClaimsInit, TypeInit, TypeStep, ClaimsStep, ReachableStep, PTL DEF Spec
<1>3. Reachable => CancellationReachesExecutor
  BY DEF Reachable
<1> QED
  BY <1>2, <1>3, PTL
-----------------------------------------------------------------------------
(* Retries end.                                                            *)

Most == MaxAttempts + faults + (incarnation - 1)

\* A row that waits may still be tried: it was given back on an attempt before
\* the last, by a failed statement, or by a recovery.  What a shutdown gives
\* back waits for the next process.
Tries ==
    /\ RetriesAreBounded
    /\ phase # "down" =>
          /\ incarnation > 0
          /\ \A e \in Effects : status[e] = "pending" => attempts[e] < Most
    /\ phase \in {"recovering", "requeuing"} =>
          \A e \in Effects : status[e] = "running" => attempts[e] < Most
    /\ \A s \in Slots : pc[s] = "requeue" => attempts[held[s]] < Most

\* A failed statement raises the limit by one.
LEMMA MostGrows ==
    ASSUME faults \in Nat, incarnation \in Nat, incarnation' = incarnation, faults' \in {faults, faults + 1}
    PROVE  Most \in Int /\ Most' \in Int /\ Most' = Most + (faults' - faults) /\ Most <= Most'
  <1>1. MaxAttempts \in Nat /\ faults' \in Int
    BY WorkerAssumption
  <1>2. Most \in Int /\ Most' \in Int
    BY <1>1 DEF Most
  <1>3. Most' = Most + (faults' - faults)
    BY <1>1 DEF Most
  <1>4. CASE faults' = faults
    BY <1>2, <1>3, <1>4
  <1>5. CASE faults' = faults + 1
    BY <1>2, <1>3, <1>5
  <1>6. Most <= Most'
    BY <1>4, <1>5
  <1> QED
    BY <1>2, <1>3, <1>6

\* Steps that give no row back and count no attempt.
LEMMA QuietTries ==
    ASSUME TypeOK, Claims, Tries, UNCHANGED incarnation, faults' \in {faults, faults + 1},
           \A e \in Effects : attempts'[e] \in {attempts[e], 0},
           phase' \in {phase, "down"} \/ (phase # "down" /\ phase' \in {"stopping", "up", "closing"}),
           \A e \in Effects : \/ status'[e] = status[e]
                              \/ status'[e] \notin {"pending", "running"}
                              \/ status'[e] = "pending" /\ attempts'[e] < Most /\ phase # "down",
           \A s \in Slots : pc'[s] = "requeue" =>
                held'[s] \in Effects /\ (attempts[held'[s]] < Most \/ faults' = faults + 1)
    PROVE  Tries'
  <1>1. Most \in Int /\ Most' \in Int /\ Most' = Most + (faults' - faults) /\ Most <= Most'
    BY MostGrows DEF TypeOK
  <1>2. \A e \in Effects : /\ attempts[e] \in Nat /\ attempts[e] <= Most
                            /\ attempts'[e] \in Nat /\ attempts'[e] <= attempts[e]
    BY DEF TypeOK, OutboxTypeOK, Tries, RetriesAreBounded, Most
  <1>3. \A s \in Slots : pc'[s] = "requeue" => attempts'[held'[s]] < Most'
    BY <1>1, <1>2 DEF TypeOK
  <1>4. RetriesAreBounded'
    <2>1. RetriesAreBounded' <=> \A e \in Effects : attempts'[e] <= Most'
      BY Zenon DEF RetriesAreBounded, Most
    <2> HIDE DEF Most
    <2>2. \A e \in Effects : attempts'[e] <= Most'
      BY <1>1, <1>2
    <2> QED
      BY <2>1, <2>2
  <1> HIDE DEF Most
  <1>5. phase' # "down" => phase # "down" /\ incarnation' > 0
    BY DEF Tries
  <1>6. ASSUME phase' # "down", NEW e \in Effects, status'[e] = "pending"
        PROVE  attempts'[e] < Most'
    <2>1. attempts'[e] < Most
      BY <1>2, <1>5, <1>6, <1>1 DEF Tries
    <2> QED
      BY <1>1, <1>2, <2>1
  <1>7. ASSUME phase' \in {"recovering", "requeuing"}, NEW e \in Effects, status'[e] = "running"
        PROVE  attempts'[e] < Most'
    <2>1. phase \in {"recovering", "requeuing"} /\ status[e] = "running"
      BY <1>7
    <2>2. attempts[e] < Most
      BY <2>1 DEF Tries
    <2>3. attempts'[e] < Most
      BY <1>1, <1>2, <2>2
    <2> QED
      BY <1>1, <1>2, <2>3
  <1> QED
    BY <1>3, <1>4, <1>5, <1>6, <1>7, Zenon DEF Tries

\* A new row has not been tried, in a process that is not the zeroth.
LEMMA WriteTries ==
    ASSUME TypeOK, Claims, Tries, NEW t \in Threads, NEW E \in SUBSET Effects, NEW types,
           Write(E, t, types), phase # "down"
    PROVE  Tries'
  <1>1. /\ UNCHANGED <<incarnation, phase, faults, pc, held>>
        /\ \A e \in Effects : attempts'[e] \in {attempts[e], 0} /\ (e \in Inserted(E) => attempts'[e] = 0)
    BY DEF Write, EnqueueThenCancel, workerVars
  <1>2. Most > 0
    BY WorkerAssumption DEF TypeOK, Tries, Most
  <1>3. \A e \in Effects : \/ status'[e] = status[e]
                           \/ status'[e] \notin {"pending", "running"}
                           \/ status'[e] = "pending" /\ attempts'[e] < Most
    BY <1>1, <1>2 DEF Write, EnqueueThenCancel, AfterInsert
  <1>4. \A s \in Slots : pc'[s] = "requeue" => held'[s] \in Effects /\ attempts[held'[s]] < Most
    BY <1>1 DEF Claims, Tries
  <1> QED
    BY <1>1, <1>3, <1>4, QuietTries

LEMMA TriesStep == TypeOK /\ Claims /\ Tries /\ [Next]_vars => Tries'
<1> SUFFICES ASSUME TypeOK, Claims, Tries, [Next]_vars PROVE Tries'
  OBVIOUS
<1>0. /\ \A s \in Slots : pc[s] # "idle" => held[s] \in Effects /\ phase = "up"
      /\ \A s \in Slots : pc[s] = "requeue" => attempts[held[s]] < Most
  BY DEF Claims, Tries
<1>1. ASSUME NEW e \in Effects, CommitCommand(e) PROVE Tries'
  BY <1>1, WriteTries DEF CommitCommand, Serving, TypesAssumption
<1>2. ASSUME NEW e \in Continuations, PrepareContinuation(e) PROVE Tries'
  BY <1>2, WriteTries DEF PrepareContinuation, Continuations, TypesAssumption
<1>3. ASSUME NEW t \in Threads, NEW E \in Batches(t), CommitInterrupt(E, t) \/ ReconcileThread(E, t)
      PROVE Tries'
  <2>1. E \in SUBSET Effects
    BY DEF Batches
  <2> QED
    BY <1>3, <2>1, WriteTries DEF CommitInterrupt, ReconcileThread, Serving
\* Only a failed statement sends a slot to requeue its claim.
<1>4. ASSUME NEW s \in Slots, Fault(s) \/ Abandon(s) \/ Arm(s) \/ Execute(s) \/ RecheckCancelled(s)
                               \/ ExecutionCancelled(s) \/ SettleNothing(s) \/ Unsignal(s)
                               \/ \E how \in Outcomes \ {"none"} : ExecutorReturns(s, how)
      PROVE Tries'
  <2>1. UNCHANGED <<status, attempts, phase, incarnation>> /\ faults' \in {faults, faults + 1}
    BY <1>4 DEF Fault, Abandon, Arm, Execute, RecheckCancelled, ExecutionCancelled, SettleNothing, Unsignal,
                ExecutorReturns, outboxVars, rest
  <2>2. \A r \in Slots : pc'[r] = "requeue" =>
            /\ pc[r] # "idle" /\ held'[r] = held[r]
            /\ pc[r] = "requeue" \/ faults' = faults + 1
    BY <1>4 DEF Fault, Abandon, Arm, Execute, RecheckCancelled, ExecutionCancelled, SettleNothing, Unsignal,
                ExecutorReturns, Release, Goto, TypeOK
  <2> QED
    BY <1>0, <2>1, <2>2, QuietTries
<1>5. ASSUME NEW e \in Effects, Tick(e) \/ SignalCancellation(e) \/ LoseSignal(e) PROVE Tries'
  <2>1. UNCHANGED <<status, attempts, phase, incarnation, faults, pc, held>>
    BY <1>5 DEF Tick, BecomesDue, SignalCancellation, LoseSignal, outboxVars, workerVars
  <2> QED
    BY <1>0, <2>1, QuietTries
<1>6. ASSUME NEW e \in Effects, Prune(e) PROVE Tries'
  <2>1. /\ UNCHANGED <<attempts, phase, incarnation, faults, pc, held>>
        /\ \A f \in Effects : status'[f] = status[f] \/ status'[f] = "pruned"
    BY <1>6 DEF Prune, PruneRow, workerVars, TypeOK, OutboxTypeOK
  <2> QED
    BY <1>0, <2>1, QuietTries
<1>7. CASE Shutdown \/ Crash
  <2>1. /\ UNCHANGED <<status, attempts, incarnation, faults>> /\ \A s \in Slots : pc'[s] = "idle"
        /\ phase' = "down" \/ (phase = "up" /\ phase' = "stopping")
    BY <1>7 DEF Shutdown, Crash, SlotsStop
  <2> QED
    BY <2>1, QuietTries
\* The next process may try once more whatever it finds.
<1>8. CASE Boot
  <2>1. /\ UNCHANGED <<status, attempts, faults, pc, held>> /\ incarnation' = incarnation + 1
        /\ phase = "down" /\ phase' = "recovering"
    BY <1>8 DEF Boot, outboxVars, workerVars
  <2>2. \A s \in Slots : pc'[s] = "idle"
    BY <2>1 DEF Claims, TypeOK
  <2>3. \A e \in Effects : attempts[e] \in Nat /\ attempts[e] <= Most
    BY DEF TypeOK, OutboxTypeOK, Tries, RetriesAreBounded, Most
  <2>4. Most \in Int /\ Most' = Most + 1
    BY <2>1, WorkerAssumption DEF TypeOK, Most
  <2>5. RetriesAreBounded'
    BY <2>1, <2>3, <2>4 DEF RetriesAreBounded, Most
  <2>6. incarnation' > 0
    BY <2>1 DEF TypeOK
  <2> HIDE DEF Most
  <2> QED
    BY <2>1, <2>2, <2>3, <2>4, <2>5, <2>6 DEF Tries
<1>9. CASE RetireLost
  <2>1. /\ UNCHANGED <<attempts, incarnation, faults>>
        /\ \A e \in Effects : status'[e] = status[e] \/ status'[e] = "cancelled"
        /\ \/ phase = "recovering" /\ phase' = "requeuing"
           \/ phase = "stopping" /\ phase' = "closing"
    BY <1>9 DEF RetireLost, RetireProcessBound
  <2>2. \A s \in Slots : pc'[s] = "idle"
    BY <1>9 DEF RetireLost, workerVars, Claims, TypeOK
  <2>3. Most' = Most /\ RetriesAreBounded'
    BY <2>1 DEF Most, Tries, RetriesAreBounded
  <2> HIDE DEF Most
  <2> QED
    BY <2>1, <2>2, <2>3 DEF Tries
<1>10. CASE RequeueLost
  <2>1. /\ UNCHANGED <<attempts, incarnation, faults>>
        /\ \A e \in Effects : \/ status'[e] = status[e]
                              \/ status[e] = "running" /\ status'[e] = "pending"
        /\ \/ phase = "requeuing" /\ phase' = "up"
           \/ phase = "closing" /\ phase' = "down"
    BY <1>10 DEF RequeueLost, RequeueReplaySafe
  <2>2. \A s \in Slots : pc'[s] = "idle"
    BY <1>10 DEF RequeueLost, workerVars, Claims, TypeOK
  <2>3. Most' = Most /\ RetriesAreBounded'
    BY <2>1 DEF Most, Tries, RetriesAreBounded
  <2> HIDE DEF Most
  <2> QED
    BY <2>1, <2>2, <2>3 DEF Tries
\* A claimed row waited, so this attempt is within the bound.
<1>11. ASSUME NEW s \in Slots, NEW e \in Effects, Claim(s, e) \/ ClaimUndecodable(s, e) PROVE Tries'
  <2>1. /\ phase = "up" /\ status[e] = "pending" /\ status'[e] = "running"
        /\ attempts'[e] = attempts[e] + 1
        /\ \A f \in Effects \ {e} : status'[f] = status[f] /\ attempts'[f] = attempts[f]
        /\ UNCHANGED <<phase, incarnation, faults>>
        /\ \A r \in Slots : pc'[r] = "requeue" => pc[r] = "requeue" /\ held'[r] = held[r]
    BY <1>11 DEF Claim, ClaimUndecodable, Claimable, Unblocked, ClaimRow, rest, workerVars,
                 TypeOK, OutboxTypeOK
  <2>2. Most \in Int /\ Most' = Most /\ attempts[e] < Most /\ attempts[e] \in Nat
    BY <2>1, WorkerAssumption DEF TypeOK, OutboxTypeOK, Most, Tries
  <2>3. RetriesAreBounded'
    BY <2>1, <2>2 DEF RetriesAreBounded, Tries, Most
  <2>4. \A r \in Slots : pc[r] = "requeue" => held[r] \in Effects \ {e}
    BY <1>0, <2>1 DEF Claims, ClaimIsKept, Holding, Stages, Owns
  <2> HIDE DEF Most
  <2> QED
    BY <2>1, <2>2, <2>3, <2>4 DEF Tries
<1>12. ASSUME NEW s \in Slots, SettleSucceed(s) \/ SettleFail(s) \/ Terminalize(s) PROVE Tries'
  <2>1. /\ UNCHANGED <<attempts, phase, incarnation, faults>>
        /\ \A e \in Effects : status'[e] = status[e] \/ status'[e] \in {"succeeded", "failed"}
    BY <1>12 DEF SettleSucceed, SettleFail, Terminalize, Finish, rest, TypeOK, OutboxTypeOK
  <2>2. AfterSettle(s)
    BY <1>12 DEF SettleSucceed, SettleFail, Terminalize
  <2>3. \A r \in Slots : pc'[r] = "requeue" => pc[r] = "requeue" /\ held'[r] = held[r]
    BY <2>2 DEF AfterSettle, TypeOK
  <2> QED
    BY <1>0, <2>1, <2>3, QuietTries
<1>13. ASSUME NEW s \in Slots, SettleRetry(s) \/ Requeue(s) PROVE Tries'
  <2>1. /\ UNCHANGED <<attempts, phase, incarnation, faults>> /\ pc[s] # "idle"
        /\ held[s] \in Effects /\ status'[held[s]] = "pending"
        /\ \A e \in Effects \ {held[s]} : status'[e] = status[e]
    BY <1>0, <1>13 DEF SettleRetry, Requeue, Retry, rest, TypeOK, OutboxTypeOK
  <2>2. phase = "up" /\ incarnation > 0
    BY <1>0, <2>1 DEF Tries
  <2>3. attempts[held[s]] < Most
    <3>1. CASE SettleRetry(s)
      <4>1. attempts[held[s]] < MaxAttempts
        BY <2>1, <3>1, WorkerAssumption DEF SettleRetry, LastAttempt, TypeOK, OutboxTypeOK
      <4> QED
        BY <2>1, <2>2, <4>1, WorkerAssumption DEF Most, TypeOK, OutboxTypeOK
    <3>2. CASE Requeue(s)
      BY <1>0, <3>2 DEF Requeue
    <3> QED
      BY <1>13, <3>1, <3>2
  <2>4. AfterSettle(s)
    BY <1>13 DEF SettleRetry, Requeue
  <2>5. \A r \in Slots : pc'[r] = "requeue" => pc[r] = "requeue" /\ held'[r] = held[r]
    BY <2>4 DEF AfterSettle, TypeOK
  <2> QED
    BY <1>0, <2>1, <2>2, <2>3, <2>5, QuietTries
<1>14. CASE UNCHANGED vars
  BY <1>0, <1>14, QuietTries DEF vars, outboxVars, workerVars
<1> QED
  BY <1>1, <1>2, <1>3, <1>4, <1>5, <1>6, <1>7, <1>8, <1>9, <1>10, <1>11, <1>12, <1>13, <1>14
  DEF Next, Environment, SlotStep

\* No row is tried more often than its attempts, the failed statements and the
\* lost processes allow.
THEOREM RetriesEnd == Spec => []RetriesAreBounded
<1>1. Init => Tries
  BY WorkerAssumption DEF Init, OutboxInit, SlotsIdle, Tries, RetriesAreBounded
<1>2. Spec => [](TypeOK /\ Claims /\ Tries)
  BY <1>1, ClaimsInit, TypeInit, TypeStep, ClaimsStep, TriesStep, PTL DEF Spec
<1>3. Tries => RetriesAreBounded
  BY DEF Tries
<1> QED
  BY <1>2, <1>3, PTL
-----------------------------------------------------------------------------
(* The order of the rows.                                                  *)

\* What one step may do to the table; cancel is what a transaction cancels.
TableStep ==
    \/ UNCHANGED <<status, rowid, nextRow>>
    \/ \E t \in Threads : \E E \in Batches(t), cancel \in {{}, InterruptedTypes, ProcessBound} :
          EnqueueThenCancel(E, t, cancel) /\ \A e \in E : status[e] = "pruned" => e \in Continuations
    \/ \E e \in Effects : Claimable(e) /\ ClaimRow(e, incarnation)
    \/ \E e \in Effects : \E to \in Settled : Finish(e, incarnation, to)
    \/ \E e \in Effects : \E delayed \in BOOLEAN : Retry(e, incarnation, delayed)
    \/ RetireProcessBound
    \/ RequeueReplaySafe
    \/ \E e \in Effects : PruneRow(e)

LEMMA NextIsTableStep == TypeOK /\ Claims /\ [Next]_vars => TableStep
<1> SUFFICES ASSUME TypeOK, Claims, [Next]_vars PROVE TableStep
  OBVIOUS
<1>1. ASSUME NEW e \in Effects, CommitCommand(e) PROVE TableStep
  <2>1. /\ EnqueueThenCancel({e}, ThreadOf[e], {}) /\ ThreadOf[e] \in Threads /\ {e} \in Batches(ThreadOf[e])
        /\ status[e] # "pruned"
    BY <1>1 DEF CommitCommand, Write, Batches, TypesAssumption
  <2> QED
    BY <2>1 DEF TableStep
<1>2. ASSUME NEW e \in Continuations, PrepareContinuation(e) PROVE TableStep
  <2>1. /\ EnqueueThenCancel({e}, ThreadOf[e], {}) /\ ThreadOf[e] \in Threads /\ {e} \in Batches(ThreadOf[e])
        /\ e \in Continuations
    BY <1>2 DEF PrepareContinuation, Continuations, Write, Batches, TypesAssumption
  <2> QED
    BY <2>1 DEF TableStep
<1>3. ASSUME NEW t \in Threads, NEW E \in Batches(t), CommitInterrupt(E, t) \/ ReconcileThread(E, t)
      PROVE TableStep
  BY <1>3 DEF CommitInterrupt, ReconcileThread, Write, TableStep
<1>4. ASSUME NEW s \in Slots, Fault(s) \/ Abandon(s) \/ Arm(s) \/ Execute(s) \/ RecheckCancelled(s)
                               \/ ExecutionCancelled(s) \/ SettleNothing(s) \/ Unsignal(s)
                               \/ \E how \in Outcomes \ {"none"} : ExecutorReturns(s, how) PROVE TableStep
  <2>1. UNCHANGED <<status, rowid, nextRow>>
    BY <1>4 DEF Fault, Abandon, Arm, Execute, RecheckCancelled, ExecutionCancelled, SettleNothing, Unsignal,
                ExecutorReturns, outboxVars
  <2> QED
    BY <2>1 DEF TableStep
<1>5. ASSUME NEW e \in Effects, Tick(e) \/ SignalCancellation(e) \/ LoseSignal(e) PROVE TableStep
  BY <1>5 DEF Tick, BecomesDue, SignalCancellation, LoseSignal, outboxVars, TableStep
<1>6. ASSUME NEW e \in Effects, Prune(e) PROVE TableStep
  BY <1>6 DEF Prune, TableStep
<1>7. CASE Shutdown \/ Crash \/ Boot \/ UNCHANGED vars
  BY <1>7 DEF Shutdown, Crash, Boot, vars, outboxVars, TableStep
<1>8. CASE RetireLost \/ RequeueLost
  BY <1>8 DEF RetireLost, RequeueLost, TableStep
<1>9. ASSUME NEW s \in Slots, NEW e \in Effects, Claim(s, e) \/ ClaimUndecodable(s, e) PROVE TableStep
  BY <1>9 DEF Claim, ClaimUndecodable, TableStep
<1>10. ASSUME NEW s \in Slots, SettleSucceed(s) \/ SettleFail(s) \/ SettleRetry(s)
                                \/ Requeue(s) \/ Terminalize(s) PROVE TableStep
  <2>1. held[s] \in Effects
    BY <1>10 DEF Claims, SettleSucceed, SettleFail, SettleRetry, Requeue, Terminalize
  <2>2. "succeeded" \in Settled /\ "failed" \in Settled
    BY DEF Settled
  <2> QED
    BY <1>10, <2>1, <2>2 DEF SettleSucceed, SettleFail, SettleRetry, Requeue, Terminalize, TableStep
<1> QED
  BY <1>1, <1>2, <1>3, <1>4, <1>5, <1>6, <1>7, <1>8, <1>9, <1>10 DEF Next, Environment, SlotStep

\* Rows are numbered in the order of their insertion.
Numbered ==
    /\ \A e \in Effects : /\ rowid[e] < nextRow
                          /\ status[e] = "absent" <=> rowid[e] = 0
    /\ \A e, f \in Effects : rowid[e] = rowid[f] /\ rowid[e] # 0 => e = f

LEMMA InsertIsNumbered ==
    ASSUME TypeOK, Numbered, NEW t \in Threads, NEW E \in Batches(t), NEW cancel,
           EnqueueThenCancel(E, t, cancel)
    PROVE  Numbered'
  <1>1. \A e, f \in Inserted(E) : e = f
    BY DEF Batches, Inserted
  <1>2. /\ \A e \in Effects : rowid'[e] = IF e \in Inserted(E) THEN nextRow ELSE rowid[e]
        /\ nextRow' = IF Inserted(E) = {} THEN nextRow ELSE nextRow + 1
        /\ \A e \in Effects : status'[e] = "absent" <=> (status[e] = "absent" /\ e \notin Inserted(E))
        /\ Inserted(E) \subseteq Effects
    BY DEF EnqueueThenCancel, Inserted, AfterInsert, Cancelled, UnsettledOf, Unsettled, Batches
  <1> QED
    BY <1>1, <1>2 DEF Numbered, TypeOK, OutboxTypeOK

LEMMA NumberedStep == TypeOK /\ Numbered /\ TableStep => Numbered'
<1> SUFFICES ASSUME TypeOK, Numbered, TableStep PROVE Numbered'
  OBVIOUS
<1>1. ASSUME UNCHANGED <<rowid, nextRow>>, \A e \in Effects : status'[e] = "absent" <=> status[e] = "absent"
      PROVE  Numbered'
  BY <1>1 DEF Numbered
<1>2. ASSUME NEW t \in Threads, NEW E \in Batches(t), NEW cancel, EnqueueThenCancel(E, t, cancel)
      PROVE  Numbered'
  BY <1>2, InsertIsNumbered
<1>3. ASSUME NEW e \in Effects, Claimable(e), ClaimRow(e, incarnation) PROVE Numbered'
  <2>1. UNCHANGED <<rowid, nextRow>> /\ \A f \in Effects : status'[f] = "absent" <=> status[f] = "absent"
    BY <1>3 DEF Claimable, Unblocked, ClaimRow, TypeOK, OutboxTypeOK
  <2> QED
    BY <2>1, <1>1
<1>6. ASSUME NEW e \in Effects, \/ \E to \in Settled : Finish(e, incarnation, to)
                               \/ \E delayed \in BOOLEAN : Retry(e, incarnation, delayed)
                               \/ PruneRow(e)
      PROVE  Numbered'
  <2>1. UNCHANGED <<rowid, nextRow>> /\ \A f \in Effects : status'[f] = "absent" <=> status[f] = "absent"
    BY <1>6 DEF Finish, Retry, PruneRow, Owns, Settled, TypeOK, OutboxTypeOK
  <2> QED
    BY <2>1, <1>1
<1>4. CASE RetireProcessBound \/ RequeueReplaySafe
  <2>1. UNCHANGED <<rowid, nextRow>> /\ \A e \in Effects : status'[e] = "absent" <=> status[e] = "absent"
    BY <1>4 DEF RetireProcessBound, RequeueReplaySafe, Unsettled
  <2> QED
    BY <2>1, <1>1
<1>5. CASE UNCHANGED <<status, rowid, nextRow>>
  BY <1>5 DEF Numbered
<1> QED
  BY <1>2, <1>3, <1>4, <1>5, <1>6 DEF TableStep

LEMMA OrderStep == TypeOK /\ Numbered /\ LaneOrder /\ TableStep => LaneOrder'
<1> SUFFICES ASSUME TypeOK, Numbered, LaneOrder, TableStep PROVE LaneOrder'
  OBVIOUS
<1> USE DEF LaneOrder, Unsettled
<1>1. CASE UNCHANGED <<status, rowid, nextRow>>
  BY <1>1
<1>2. ASSUME NEW t \in Threads, NEW E \in Batches(t), NEW cancel, EnqueueThenCancel(E, t, cancel)
      PROVE  LaneOrder'
  <2>1. \A e \in Effects :
           /\ rowid'[e] = IF e \in Inserted(E) THEN nextRow ELSE rowid[e]
           /\ e \in Inserted(E) => status'[e] \in {"pending", "cancelled"}
           /\ e \notin Inserted(E) => status'[e] \in {status[e], "cancelled"}
    BY <1>2 DEF EnqueueThenCancel, AfterInsert
  <2> QED
    BY <2>1 DEF Numbered, TypeOK, OutboxTypeOK
<1>3. ASSUME NEW e \in Effects, Claimable(e), ClaimRow(e, incarnation) PROVE LaneOrder'
  <2>1. \A f \in Effects : f # e => status'[f] = status[f]
    BY <1>3 DEF ClaimRow, TypeOK, OutboxTypeOK
  <2>2. \A f \in Effects :
           SameLane(e, f) => status[f] # "running" /\ (status[f] = "pending" => rowid[e] <= rowid[f])
    BY <1>3 DEF Claimable, Unblocked, TypeOK, OutboxTypeOK
  <2>3. \A f \in Effects : SameLane(f, e) => SameLane(e, f)
    BY DEF SameLane
  <2>4. rowid' = rowid /\ rowid \in [Effects -> Nat] /\ status[e] = "pending"
    BY <1>3 DEF ClaimRow, Claimable, Unblocked, TypeOK, OutboxTypeOK
  <2>5. ASSUME NEW f \in Effects, f # e, SameLane(e, f), status'[f] \in Unsettled
        PROVE  rowid'[e] < rowid'[f] /\ status'[f] = "pending"
    <3>1. status[f] = "pending" /\ status'[f] = "pending" /\ rowid[e] <= rowid[f]
      BY <2>1, <2>2, <2>5
    <3>2. rowid[e] # rowid[f]
      BY <2>4, <2>5, <3>1 DEF Numbered
    <3> QED
      BY <2>4, <3>1, <3>2
  <2>6. ASSUME NEW f \in Effects, NEW g \in Effects, f # e, f # g, SameLane(f, g), status'[f] = "running",
               status'[g] \in Unsettled
        PROVE  rowid'[f] < rowid'[g] /\ status'[g] = "pending"
    <3>1. status[f] = "running" /\ g # e
      BY <2>1, <2>2, <2>3, <2>6
    <3> QED
      BY <2>1, <2>4, <2>6, <3>1
  <2> QED
    BY <2>5, <2>6
<1>4. ASSUME NEW e \in Effects, \/ \E to \in Settled : Finish(e, incarnation, to)
                               \/ \E delayed \in BOOLEAN : Retry(e, incarnation, delayed)
                               \/ PruneRow(e)
      PROVE  LaneOrder'
  <2>1. /\ UNCHANGED rowid
        /\ \A f \in Effects : f # e => status'[f] = status[f]
        /\ status'[e] \notin {"running", "pending"} \/ (status[e] = "running" /\ status'[e] = "pending")
    BY <1>4 DEF Finish, Retry, PruneRow, Owns, Settled, TypeOK, OutboxTypeOK
  <2>2. \A f \in Effects : SameLane(f, e) => SameLane(e, f)
    BY DEF SameLane
  <2> QED
    BY <2>1, <2>2
<1>5. CASE RetireProcessBound \/ RequeueReplaySafe
  <2>1. UNCHANGED rowid /\ \A e \in Effects : \/ status'[e] \in {status[e], "cancelled"}
                                            \/ (status[e] = "running" /\ status'[e] = "pending")
    BY <1>5 DEF RetireProcessBound, RequeueReplaySafe
  <2>2. \A e, f \in Effects : SameLane(f, e) => SameLane(e, f)
    BY DEF SameLane
  <2> QED
    BY <2>1, <2>2
<1> QED
  BY <1>1, <1>2, <1>3, <1>4, <1>5 DEF TableStep

LEMMA NumberedInit == Init => Numbered
  BY DEF Init, OutboxInit, Numbered

\* A lane runs its effects one at a time and in the order of insertion.
THEOREM LanesAreOrdered == Spec => []LaneOrder
<1>1. Init => LaneOrder
  BY DEF Init, OutboxInit, LaneOrder
<1>2. Spec => [](TypeOK /\ Claims /\ Numbered /\ LaneOrder)
  BY <1>1, ClaimsInit, NumberedInit, TypeInit, TypeStep, ClaimsStep, NextIsTableStep, NumberedStep, OrderStep, PTL DEF Spec
<1> QED
  BY <1>2, PTL
-----------------------------------------------------------------------------
(* A settled effect stays settled.                                         *)

Final ==
    \A e \in Effects :
        /\ status[e] = "failed" => status'[e] = "failed"
        /\ status[e] \in {"succeeded", "cancelled"} => status'[e] \in {status[e], "pruned"}
        /\ status[e] = "pruned" =>
              status'[e] = "pruned" \/ (status'[e] = "pending" /\ e \in Continuations)

LEMMA FinalStep == TypeOK /\ TableStep => Final
<1> SUFFICES ASSUME TypeOK, TableStep PROVE Final
  OBVIOUS
<1>1. CASE UNCHANGED <<status, rowid, nextRow>>
  BY <1>1 DEF Final
<1>2. ASSUME NEW t \in Threads, NEW E \in Batches(t), NEW cancel \in {{}, InterruptedTypes, ProcessBound},
             EnqueueThenCancel(E, t, cancel), \A e \in E : status[e] = "pruned" => e \in Continuations
      PROVE  Final
  <2>1. ASSUME NEW e \in Effects, status[e] \notin Unsettled, status[e] \notin {"absent", "pruned"}
        PROVE  status'[e] = status[e]
    BY <1>2, <2>1 DEF EnqueueThenCancel, Cancelled, UnsettledOf, AfterInsert, Inserted
  <2>2. ASSUME NEW e \in Effects, status[e] = "pruned", e \notin E PROVE status'[e] = "pruned"
    BY <1>2, <2>2 DEF EnqueueThenCancel, Cancelled, UnsettledOf, AfterInsert, Inserted, Unsettled
  \* A continuation is not of a type that is cancelled.
  <2>3. ASSUME NEW e \in Effects, status[e] = "pruned", e \in E
        PROVE  status'[e] = "pending" /\ e \in Continuations
    <3>1. e \in Continuations /\ TypeOf[e] \notin cancel /\ e \in Inserted(E)
      BY <1>2, <2>3 DEF Continuations, InterruptedTypes, ProcessBound, Inserted
    <3> QED
      BY <1>2, <3>1 DEF EnqueueThenCancel, Cancelled, UnsettledOf, AfterInsert
  <2> QED
    BY <2>1, <2>2, <2>3 DEF Final, Unsettled
<1>3. ASSUME NEW e \in Effects, (Claimable(e) /\ ClaimRow(e, incarnation))
                             \/ (\E to \in Settled : Finish(e, incarnation, to))
                             \/ (\E delayed \in BOOLEAN : Retry(e, incarnation, delayed))
      PROVE  Final
  <2>1. status[e] \in Unsettled /\ \A f \in Effects : f # e => status'[f] = status[f]
    BY <1>3 DEF Claimable, Unblocked, ClaimRow, Finish, Retry, Owns, Unsettled, TypeOK, OutboxTypeOK
  <2> QED
    BY <2>1 DEF Final, Unsettled
<1>4. CASE RetireProcessBound \/ RequeueReplaySafe
  BY <1>4 DEF RetireProcessBound, RequeueReplaySafe, Final, Unsettled
<1>5. ASSUME NEW e \in Effects, PruneRow(e) PROVE Final
  BY <1>5 DEF PruneRow, Final, TypeOK, OutboxTypeOK
<1> QED
  BY <1>1, <1>2, <1>3, <1>4, <1>5 DEF TableStep

\* No late success, second insert, recovery or pruning changes how an effect
\* was settled.
THEOREM SettledStaysSettled == Spec => SettledIsFinal
<1>1. TypeOK /\ Claims /\ [Next]_vars => [Final]_vars
  BY NextIsTableStep, FinalStep
<1>2. Spec => [](TypeOK /\ Claims)
  BY TypeInit, TypeStep, ClaimsInit, ClaimsStep, PTL DEF Spec
<1> QED
  BY <1>1, <1>2, PTL DEF Spec, SettledIsFinal, Final
-----------------------------------------------------------------------------
(* The outbox is a LaneQueue.                                              *)

LEMMA SameLaneOf ==
    ASSUME NEW e \in Effects, NEW f \in Effects, Lane[e] = Lane[f]
    PROVE  SameLane(f, e)
  BY DEF Lane, SameLane

LEMMA QueueInit == Init => Queue!Init
  BY DEF Init, OutboxInit, Queue!Init, StageOf

\* What a write of a command is to the queue.
LEMMA QueueAdmits ==
    ASSUME TypeOK, Numbered, NEW t \in Threads, NEW E \in Batches(t), NEW cancel,
           EnqueueThenCancel(E, t, cancel)
    PROVE  Queue!Next
  <1> DEFINE A == Inserted(E)
             F == Cancelled(E, t, cancel)
  <1>1. A \in {{}} \cup {{e} : e \in Effects} /\ F \in SUBSET Effects
    BY DEF Batches, Inserted, Cancelled, UnsettledOf
  <1>2. \A e \in A : StageOf(e) \in {"new", "forgotten"}
    BY DEF Inserted, StageOf
  <1>3. \A e \in F : e \in A \/ StageOf(e) \in {"waiting", "active"}
    BY DEF Cancelled, UnsettledOf, AfterInsert, Unsettled, StageOf
  <1>4. ASSUME NEW e \in Effects
        PROVE  StageOf(e)' = IF e \in F THEN "done" ELSE IF e \in A THEN "waiting" ELSE StageOf(e)
    BY DEF EnqueueThenCancel, AfterInsert, StageOf
  <1>5. /\ rowid' \in [Effects -> Nat]
        /\ \A e \in A, f \in Effects \ A : rowid[f] < rowid'[e]
        /\ \A f \in Effects \ A : rowid'[f] = rowid[f]
    <2>1. \A e \in Effects : rowid'[e] = IF e \in A THEN nextRow ELSE rowid[e]
      BY DEF EnqueueThenCancel
    <2>2. A \subseteq Effects
      BY <1>1
    <2>3. rowid' = [e \in Effects |-> IF e \in A THEN nextRow ELSE rowid[e]]
      BY DEF EnqueueThenCancel
    <2> HIDE DEF A
    <2> QED
      BY <2>1, <2>2, <2>3 DEF Numbered, TypeOK, OutboxTypeOK
  <1> HIDE DEF A, F
  <1>6. Queue!Admit(A, F)
    BY <1>1, <1>2, <1>3, <1>4, <1>5 DEF Queue!Admit
  <1> QED
    BY <1>1, <1>6 DEF Queue!Next

\* Rows that are settled at once, and rows that are given back.
LEMMA QueueSettles ==
    ASSUME TypeOK, NEW F \in SUBSET Effects, UNCHANGED rowid,
           \A e \in F : status[e] \in Unsettled /\ status'[e] \in Settled,
           \A e \in Effects \ F : status'[e] = status[e]
    PROVE  Queue!Next
  <1>1. ASSUME NEW e \in Effects
        PROVE  StageOf(e)' = IF e \in F THEN "done" ELSE StageOf(e)
    BY DEF StageOf, Settled
  <1>2. \A e \in F : StageOf(e) \in {"waiting", "active"}
    BY DEF StageOf, Unsettled
  <1>3. rowid' \in [Effects -> Nat]
    BY DEF TypeOK, OutboxTypeOK
  <1>4. Queue!Admit({}, F)
    BY <1>1, <1>2, <1>3 DEF Queue!Admit
  <1> QED
    BY <1>4 DEF Queue!Next

LEMMA QueueReturns ==
    ASSUME NEW R \in SUBSET Effects, UNCHANGED rowid,
           \A e \in R : status[e] = "running" /\ status'[e] = "pending",
           \A e \in Effects \ R : status'[e] = status[e]
    PROVE  Queue!Next
  <1>1. ASSUME NEW e \in Effects
        PROVE  StageOf(e)' = IF e \in R THEN "waiting" ELSE StageOf(e)
    BY DEF StageOf
  <1>2. \A e \in R : StageOf(e) = "active"
    BY DEF StageOf
  <1>3. Queue!Return(R)
    BY <1>1, <1>2 DEF Queue!Return
  <1> QED
    BY <1>3 DEF Queue!Next

\* A claimed row is the oldest unfinished one of its lane.
LEMMA QueueStarts ==
    ASSUME TypeOK, Numbered, NEW e \in Effects, Claimable(e), ClaimRow(e, incarnation)
    PROVE  Queue!Next
  <1>1. StageOf(e) = "waiting" /\ status[e] = "pending"
    BY DEF Claimable, Unblocked, StageOf
  <1>2. ASSUME NEW f \in Effects \ {e}, Lane[f] = Lane[e], StageOf(f) \in {"waiting", "active"}
        PROVE  StageOf(f) = "waiting" /\ rowid[e] < rowid[f]
    <2>1. SameLane(e, f)
      BY <1>2, SameLaneOf
    <2>2. status[f] \in {"pending", "running"}
      BY <1>2 DEF StageOf
    <2>3. status[f] = "pending" /\ ~ (rowid[f] < rowid[e])
      BY <2>1, <2>2 DEF Claimable, Unblocked
    <2>4. rowid[e] # rowid[f]
      BY <1>1 DEF Numbered
    <2> QED
      BY <2>3, <2>4 DEF StageOf, TypeOK, OutboxTypeOK
  <1>3. ASSUME NEW f \in Effects
        PROVE  StageOf(f)' = IF f = e THEN "active" ELSE StageOf(f)
    BY DEF ClaimRow, StageOf, TypeOK, OutboxTypeOK
  <1>4. UNCHANGED rowid
    BY DEF ClaimRow
  <1>5. Queue!Start(e)
    BY <1>1, <1>2, <1>3, <1>4 DEF Queue!Start
  <1> QED
    BY <1>5 DEF Queue!Next

LEMMA QueueStep == TypeOK /\ Numbered /\ TableStep => [Queue!Next]_(Queue!vars)
<1> SUFFICES ASSUME TypeOK, Numbered, TableStep PROVE Queue!Next \/ Queue!vars' = Queue!vars
  OBVIOUS
<1>1. ASSUME UNCHANGED rowid, \A e \in Effects : StageOf(e)' = StageOf(e)
      PROVE  Queue!vars' = Queue!vars
  BY <1>1 DEF Queue!vars
<1>2. CASE UNCHANGED <<status, rowid, nextRow>>
  BY <1>1, <1>2 DEF StageOf
<1>3. ASSUME NEW e \in Effects, NEW to \in Settled, Finish(e, incarnation, to) PROVE Queue!Next
  <2>1. /\ UNCHANGED rowid /\ status[e] \in Unsettled /\ status'[e] \in Settled
        /\ \A f \in Effects \ {e} : status'[f] = status[f]
    BY <1>3 DEF Finish, Owns, Unsettled, TypeOK, OutboxTypeOK
  <2>2. {e} \in SUBSET Effects /\ \A f \in {e} : f = e
    OBVIOUS
  <2> QED
    BY <2>1, <2>2, QueueSettles
<1>4. ASSUME NEW e \in Effects, NEW delayed \in BOOLEAN, Retry(e, incarnation, delayed)
      PROVE  Queue!Next
  <2>1. /\ UNCHANGED rowid /\ status[e] = "running" /\ status'[e] = "pending"
        /\ \A f \in Effects \ {e} : status'[f] = status[f]
    BY <1>4 DEF Retry, Owns, TypeOK, OutboxTypeOK
  <2>2. {e} \in SUBSET Effects /\ \A f \in {e} : f = e
    OBVIOUS
  <2> QED
    BY <2>1, <2>2, QueueReturns
<1>5. CASE RetireProcessBound
  <2> DEFINE lost == {e \in Effects : TypeOf[e] \in ProcessBound /\ status[e] \in Unsettled}
  <2>1. /\ UNCHANGED rowid /\ lost \in SUBSET Effects
        /\ \A e \in lost : status[e] \in Unsettled /\ status'[e] \in Settled
        /\ \A e \in Effects \ lost : status'[e] = status[e]
    BY <1>5 DEF RetireProcessBound, Settled
  <2> QED
    BY <2>1, QueueSettles
<1>6. CASE RequeueReplaySafe
  <2> DEFINE lost == {e \in Effects : TypeOf[e] \in ReplaySafe /\ status[e] = "running"}
  <2>1. /\ UNCHANGED rowid /\ lost \in SUBSET Effects
        /\ \A e \in lost : status[e] = "running" /\ status'[e] = "pending"
        /\ \A e \in Effects \ lost : status'[e] = status[e]
    BY <1>6 DEF RequeueReplaySafe
  <2> QED
    BY <2>1, QueueReturns
<1>7. ASSUME NEW e \in Effects, PruneRow(e) PROVE Queue!Next
  <2>1. /\ UNCHANGED rowid /\ StageOf(e) = "done"
        /\ \A f \in Effects : StageOf(f)' = IF f = e THEN "forgotten" ELSE StageOf(f)
    BY <1>7 DEF PruneRow, StageOf, TypeOK, OutboxTypeOK
  <2>2. Queue!Forget(e)
    BY <2>1 DEF Queue!Forget
  <2> QED
    BY <2>2 DEF Queue!Next
<1> QED
  BY <1>2, <1>3, <1>4, <1>5, <1>6, <1>7, QueueAdmits, QueueStarts DEF TableStep

\* The outbox keeps the promise of LaneQueue: each lane works on its oldest
\* unfinished effect, and nothing touches a finished one.
THEOREM OutboxIsALaneQueue == Spec => ImplementsLaneQueue
<1>1. Spec => [](TypeOK /\ Claims /\ Numbered)
  BY TypeInit, TypeStep, ClaimsInit, NumberedInit, ClaimsStep, NextIsTableStep, NumberedStep, PTL DEF Spec
<1>2. TypeOK /\ Claims /\ Numbered /\ [Next]_vars => [Queue!Next]_(Queue!vars)
  BY NextIsTableStep, QueueStep
<1> QED
  BY <1>1, <1>2, QueueInit, PTL DEF Spec, ImplementsLaneQueue, Queue!Spec
=============================================================================
