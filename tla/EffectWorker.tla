---------------------------- MODULE EffectWorker ----------------------------
(***************************************************************************)
(* The effect daemon (orchestration-v2/EffectWorker.ts) over the outbox:   *)
(* slots claim rows, arm a cancellation signal, re-read the row, execute   *)
(* the effect and settle it, while commands commit new effects and cancel  *)
(* old ones, statements fail, and the server process crashes, shuts down   *)
(* and recovers (ProviderRuntimeRecoveryService.ts,                        *)
(* serverRuntimeStartup.ts).                                               *)
(*                                                                         *)
(* Every statement on the table is one step: SQLite runs it atomically.    *)
(* What a slot does between two statements is a step only if another fiber *)
(* can tell.                                                               *)
(***************************************************************************)
EXTENDS EffectOutbox

CONSTANTS
    NoEffect,         \* "the slot holds no claim"
    MaxAttempts,      \* maxAttempts of the worker, 5 in production
    MaxIncarnations,  \* bound: server processes ever started
    MaxFaults,        \* bound: statements that fail
    Undecodable       \* effects whose stored payload no longer decodes

ASSUME WorkerAssumption ==
    /\ NoEffect \notin Effects
    /\ MaxAttempts \in Nat \ {0}
    /\ MaxIncarnations \in Nat
    /\ MaxFaults \in Nat
    /\ Undecodable \subseteq Effects

VARIABLES
    phase,        \* of the server process
    incarnation,  \* number of the running server process; its pid is the worker id
    born,         \* history: the incarnation that inserted the effect
    pc,           \* slot -> where in runOnce it is
    held,         \* slot -> the effect it claimed
    deferred,     \* slot -> the Deferred of its claim has succeeded
    outcome,      \* slot -> how the executor returned
    unheard,      \* slot -> history: its claim can no longer be told of a cancellation
    toSignal,     \* cancellations committed, signalCancellations not yet reached
    faults        \* statements that failed so far

workerVars == <<pc, held, deferred, outcome, unheard>>
vars == <<outboxVars, phase, incarnation, born, workerVars, toSignal, faults>>

Phases   == {"down", "recovering", "requeuing", "up", "stopping", "closing"}
Stages   == {"idle", "claimed", "armed", "executing", "settling",
             "requeue", "terminalize", "unsignal"}
Outcomes == {"none", "done", "error", "nonRetryable"}

\* Stages in which the slot still owes the row a settlement.
Holding == Stages \ {"idle", "unsignal"}

TypeOK ==
    /\ OutboxTypeOK
    /\ phase \in Phases
    /\ incarnation \in Nat
    /\ born \in [Effects -> Nat]
    /\ pc \in [Slots -> Stages]
    /\ held \in [Slots -> Effects \cup {NoEffect}]
    /\ deferred \in [Slots -> BOOLEAN]
    /\ outcome \in [Slots -> Outcomes]
    /\ unheard \in [Slots -> BOOLEAN]
    /\ toSignal \in SUBSET Effects
    /\ faults \in Nat

SlotsIdle ==
    /\ pc = [s \in Slots |-> "idle"]
    /\ held = [s \in Slots |-> NoEffect]
    /\ deferred = [s \in Slots |-> FALSE]
    /\ outcome = [s \in Slots |-> "none"]
    /\ unheard = [s \in Slots |-> FALSE]

Init ==
    /\ OutboxInit
    /\ SlotsIdle
    /\ phase = "down"
    /\ incarnation = 0
    /\ born = [e \in Effects |-> 0]
    /\ toSignal = {}
    /\ faults = 0

-----------------------------------------------------------------------------
(* Commands and recovery: transactions that insert and cancel rows.        *)

Continuations == {e \in Effects : TypeOf[e] = "provider-runtime.continue"}

\* What dispatchRunInterrupt cancels when the turn has not started yet.
InterruptedTypes == {"provider-turn.start", "provider-turn.restart"}

\* What one transaction inserts: at most one effect (a bound).
Batches(t) == {{}} \cup {{e} : e \in {f \in Effects : ThreadOf[f] = t}}

\* The transaction; its cancellations are signalled after the commit.
Write(E, t, types) ==
    /\ EnqueueThenCancel(E, t, types)
    /\ born' = [e \in Effects |-> IF e \in Inserted(E) THEN incarnation ELSE born[e]]
    /\ toSignal' = toSignal \cup Cancelled(E, t, types)
    /\ UNCHANGED <<signals, phase, incarnation, workerVars, faults>>

\* commitCommand of a command.  Receipts keep a retried command from getting
\* here, so its effect ids are new.  The command gate opens after recovery;
\* a command already past it may still commit while the server stops.
Serving == phase \in {"up", "stopping", "closing"}

CommitCommand(e) ==
    /\ Serving
    /\ e \notin Continuations
    /\ status[e] = "absent"
    /\ Write({e}, ThreadOf[e], {})

\* Interrupting a run before its provider turn starts: the transaction also
\* interrupts other turns of the thread and cancels what would start this one.
CommitInterrupt(E, t) ==
    /\ Serving
    /\ \A e \in E : TypeOf[e] = "provider-turn.interrupt" /\ status[e] = "absent"
    /\ UnsettledOf(status, t, InterruptedTypes) # {}
    /\ Write(E, t, InterruptedTypes)

\* signalCancellations, for one of the ids it is given.
SignalCancellation(e) ==
    /\ e \in toSignal
    /\ toSignal' = toSignal \ {e}
    /\ deferred' = [s \in Slots |-> deferred[s] \/ signals[e] = s]
    /\ UNCHANGED <<outboxVars, phase, incarnation, born, pc, held, outcome, unheard, faults>>

\* The fiber is interrupted in the Effect.tap that follows its commit, before
\* signalCancellations reached this id: nobody will send the signal.
LoseSignal(e) ==
    /\ e \in toSignal
    /\ toSignal' = toSignal \ {e}
    /\ unheard' = [s \in Slots |-> unheard[s] \/ held[s] = e]
    /\ UNCHANGED <<outboxVars, phase, incarnation, born, pc, held, deferred, outcome, faults>>

\* reconcileProjection of one thread, at startup with its continuation.
ReconcileThread(E, t) ==
    /\ phase \in {"recovering", "stopping"}
    /\ E \subseteq Continuations
    /\ E # {} => phase = "recovering"
    /\ Inserted(E) # {} \/ UnsettledOf(status, t, ProcessBound) # {}
    /\ Write(E, t, ProcessBound)

\* prepareForShutdown, for one thread.
PrepareContinuation(e) ==
    /\ phase = "stopping"
    /\ e \in Continuations
    /\ status[e] \in {"absent", "pruned"}
    /\ Write({e}, ThreadOf[e], {})

\* reconcileAfterProcessLoss, statement by statement.
RetireLost ==
    /\ phase \in {"recovering", "stopping"}
    /\ phase' = IF phase = "recovering" THEN "requeuing" ELSE "closing"
    /\ RetireProcessBound
    /\ UNCHANGED <<incarnation, born, workerVars, toSignal, faults>>

\* After it the daemon starts and the command gate opens, or the process exits.
RequeueLost ==
    /\ phase \in {"requeuing", "closing"}
    /\ phase' = IF phase = "requeuing" THEN "up" ELSE "down"
    /\ toSignal' = IF phase = "requeuing" THEN toSignal ELSE {}
    /\ RequeueReplaySafe
    /\ UNCHANGED <<incarnation, born, workerVars, faults>>

-----------------------------------------------------------------------------
(* One pass of a slot through runOnce.                                     *)

\* The slot returns to the daemon loop and deletes the map entry of its
\* effect, which may by then be the Deferred of a later claim.  A Deferred
\* that stays in the map with nobody awaiting it is not kept.
Release(s) ==
    /\ pc' = [pc EXCEPT ![s] = "idle"]
    /\ held' = [held EXCEPT ![s] = NoEffect]
    /\ deferred' = [deferred EXCEPT ![s] = FALSE]
    /\ outcome' = [outcome EXCEPT ![s] = "none"]
    /\ ClearSignal(held[s])
    /\ unheard' = [r \in Slots |-> r # s /\ (unheard[r] \/ signals[held[s]] = r)]

Goto(s, stage) ==
    /\ pc' = [pc EXCEPT ![s] = stage]
    /\ UNCHANGED <<held, deferred, outcome, unheard>>

\* A settling statement changed the row; the Map.delete is still to come, and
\* another slot may claim the row before it.
AfterSettle(s) ==
    /\ pc' = [pc EXCEPT ![s] = "unsignal"]
    /\ deferred' = [deferred EXCEPT ![s] = FALSE]
    /\ outcome' = [outcome EXCEPT ![s] = "none"]
    /\ unheard' = [unheard EXCEPT ![s] = FALSE]
    /\ UNCHANGED <<held, signals>>

rest == <<phase, incarnation, born, toSignal>>

\* claimNext: of the claimable rows any may have the smallest available_at.
Claim(s, e) ==
    /\ phase = "up"
    /\ pc[s] = "idle"
    /\ Claimable(e)
    /\ e \notin Undecodable
    /\ ClaimRow(e, incarnation)
    /\ pc' = [pc EXCEPT ![s] = "claimed"]
    /\ held' = [held EXCEPT ![s] = e]
    /\ UNCHANGED <<signals, deferred, outcome, unheard, rest, faults>>

\* The row is claimed before rowToEffect decodes it; the failure leaves the
\* row running and the slot returns to the loop.
ClaimUndecodable(s, e) ==
    /\ phase = "up"
    /\ pc[s] = "idle"
    /\ Claimable(e)
    /\ e \in Undecodable
    /\ ClaimRow(e, incarnation)
    /\ UNCHANGED <<signals, workerVars, rest, faults>>

\* The Map.set of claimNext and awaitCancellation, which finds that entry.
Arm(s) ==
    /\ pc[s] = "claimed"
    /\ SetSignal(held[s], s)
    /\ Goto(s, "armed")
    /\ UNCHANGED <<status, attempts, lease, due, rowid, nextRow, rest, faults>>

\* wasCancelled, read once before the effect starts.
RecheckCancelled(s) ==
    /\ pc[s] = "armed"
    /\ status[held[s]] = "cancelled"
    /\ Release(s)
    /\ UNCHANGED <<status, attempts, lease, due, rowid, nextRow, rest, faults>>

\* Mutant: the effect starts without the re-read.
Execute_NoRecheck(s) ==
    /\ pc[s] = "armed"
    /\ Goto(s, "executing")
    /\ UNCHANGED <<outboxVars, rest, faults>>

Execute(s) ==
    /\ pc[s] = "armed"
    /\ status[held[s]] # "cancelled"
    /\ Goto(s, "executing")
    /\ UNCHANGED <<outboxVars, rest, faults>>

\* The executor wins the race; isNonRetryableProviderTurnControlFailure only
\* speaks of interrupts.
ExecutorReturns(s, how) ==
    /\ pc[s] = "executing"
    /\ how = "nonRetryable" => TypeOf[held[s]] = "provider-turn.interrupt"
    /\ pc' = [pc EXCEPT ![s] = "settling"]
    /\ outcome' = [outcome EXCEPT ![s] = how]
    /\ unheard' = [unheard EXCEPT ![s] = FALSE]
    /\ ClearSignal(held[s])
    /\ UNCHANGED <<status, attempts, lease, due, rowid, nextRow, held, deferred, rest, faults>>

\* The Deferred wins the race; the executor has been interrupted and is gone.
ExecutionCancelled(s) ==
    /\ pc[s] = "executing"
    /\ deferred[s]
    /\ Release(s)
    /\ UNCHANGED <<status, attempts, lease, due, rowid, nextRow, rest, faults>>

\* Mutant: one attempt too many.
LastAttempt_OffByOne(e) == attempts[e] > MaxAttempts

\* What the settlement of the outcome is.
LastAttempt(e) == attempts[e] >= MaxAttempts

SettleSucceed(s) ==
    /\ pc[s] = "settling"
    /\ outcome[s] \in {"done", "nonRetryable"}
    /\ Finish(held[s], incarnation, "succeeded")
    /\ AfterSettle(s)
    /\ UNCHANGED <<rest, faults>>

SettleFail(s) ==
    /\ pc[s] = "settling"
    /\ outcome[s] = "error" /\ LastAttempt(held[s])
    /\ Finish(held[s], incarnation, "failed")
    /\ AfterSettle(s)
    /\ UNCHANGED <<rest, faults>>

SettleRetry(s) ==
    /\ pc[s] = "settling"
    /\ outcome[s] = "error" /\ ~ LastAttempt(held[s])
    /\ Retry(held[s], incarnation, TRUE)
    /\ AfterSettle(s)
    /\ UNCHANGED <<rest, faults>>

\* requeueClaim and terminalizeClaim.
Requeue(s) ==
    /\ pc[s] = "requeue"
    /\ Retry(held[s], incarnation, FALSE)
    /\ AfterSettle(s)
    /\ UNCHANGED <<rest, faults>>

Terminalize(s) ==
    /\ pc[s] = "terminalize"
    /\ Finish(held[s], incarnation, "failed")
    /\ AfterSettle(s)
    /\ UNCHANGED <<rest, faults>>

\* A settling statement updates no row: the effect was cancelled meanwhile.
SettleNothing(s) ==
    /\ pc[s] \in {"settling", "requeue", "terminalize"}
    /\ ~ Owns(held[s], incarnation)
    /\ Release(s)
    /\ UNCHANGED <<status, attempts, lease, due, rowid, nextRow, rest, faults>>

\* The Map.delete that follows a settlement.
Unsignal(s) ==
    /\ pc[s] = "unsignal"
    /\ Release(s)
    /\ UNCHANGED <<status, attempts, lease, due, rowid, nextRow, rest, faults>>

\* The re-read or the settlement fails: recoverPostSuccessSettlement and the
\* onError handlers decide how the claim is given back.
Fault(s) ==
    /\ faults < MaxFaults
    /\ faults' = faults + 1
    /\ \/ pc[s] = "armed" /\ Goto(s, "requeue")
       \/ /\ pc[s] = "settling"
          /\ \/ outcome[s] = "done" /\ TypeOf[held[s]] \in ReplaySafe
             \/ outcome[s] = "error" /\ ~ LastAttempt(held[s])
          /\ Goto(s, "requeue")
       \/ /\ pc[s] = "settling"
          /\ \/ outcome[s] = "done" /\ TypeOf[held[s]] \notin ReplaySafe
             \/ outcome[s] = "error" /\ LastAttempt(held[s])
             \/ outcome[s] = "nonRetryable"
          /\ Goto(s, "terminalize")
    /\ UNCHANGED <<outboxVars, rest>>

\* Giving the claim back fails too; that is only logged.
Abandon(s) ==
    /\ faults < MaxFaults
    /\ faults' = faults + 1
    /\ pc[s] \in {"requeue", "terminalize"}
    /\ Release(s)
    /\ UNCHANGED <<status, attempts, lease, due, rowid, nextRow, rest>>

SlotStep(s) ==
    \/ \E e \in Effects : Claim(s, e) \/ ClaimUndecodable(s, e)
    \/ Arm(s) \/ RecheckCancelled(s) \/ Execute(s)
    \/ \E how \in Outcomes \ {"none"} : ExecutorReturns(s, how)
    \/ ExecutionCancelled(s)
    \/ SettleSucceed(s) \/ SettleFail(s) \/ SettleRetry(s)
    \/ Requeue(s) \/ Terminalize(s) \/ SettleNothing(s) \/ Unsignal(s)

-----------------------------------------------------------------------------
(* The server process.                                                     *)

\* The daemon's fibers are gone, and with them every Deferred they awaited.
SlotsStop ==
    /\ pc' = [s \in Slots |-> "idle"]
    /\ held' = [s \in Slots |-> NoEffect]
    /\ deferred' = [s \in Slots |-> FALSE]
    /\ outcome' = [s \in Slots |-> "none"]
    /\ unheard' = [s \in Slots |-> FALSE]
    /\ signals' = [e \in Effects |-> NoSlot]

\* The shutdown finalizer interrupts the daemon; interrupted claims stay running.
Shutdown ==
    /\ phase = "up"
    /\ incarnation < MaxIncarnations
    /\ phase' = "stopping"
    /\ SlotsStop
    /\ UNCHANGED <<status, attempts, lease, due, rowid, nextRow, incarnation, born, toSignal, faults>>

Crash ==
    /\ phase # "down"
    /\ incarnation < MaxIncarnations
    /\ phase' = "down"
    /\ SlotsStop
    /\ toSignal' = {}
    /\ UNCHANGED <<status, attempts, lease, due, rowid, nextRow, incarnation, born, faults>>

Boot ==
    /\ phase = "down"
    /\ incarnation < MaxIncarnations
    /\ phase' = "recovering"
    /\ incarnation' = incarnation + 1
    /\ UNCHANGED <<outboxVars, born, workerVars, toSignal, faults>>

\* A retention of a week outlives every claim, so no slot still holds the row.
Prune(e) ==
    /\ phase = "up"
    /\ \A s \in Slots : held[s] # e
    /\ e \notin toSignal
    /\ PruneRow(e)
    /\ UNCHANGED <<phase, incarnation, born, workerVars, toSignal, faults>>

Tick(e) ==
    /\ BecomesDue(e)
    /\ UNCHANGED <<phase, incarnation, born, workerVars, toSignal, faults>>

Environment ==
    \/ \E e \in Effects : CommitCommand(e)
    \/ \E e \in Continuations : PrepareContinuation(e)
    \/ \E t \in Threads : \E E \in Batches(t) : CommitInterrupt(E, t) \/ ReconcileThread(E, t)
    \/ \E s \in Slots : Fault(s) \/ Abandon(s)
    \/ \E e \in Effects : Prune(e) \/ LoseSignal(e)
    \/ Shutdown \/ Crash

Next ==
    \/ Environment
    \/ \E s \in Slots : SlotStep(s)
    \/ \E e \in Effects : SignalCancellation(e) \/ Tick(e)
    \/ RetireLost \/ RequeueLost \/ Boot

\* The daemon polls at least every 30 seconds, executors return, publishing
\* follows a commit unless it is interrupted, clocks advance, and a started or
\* stopped server goes on.
Fairness ==
    /\ \A s \in Slots : WF_vars(SlotStep(s))
    /\ \A e \in Effects : WF_vars(SignalCancellation(e)) /\ WF_vars(Tick(e))
    /\ WF_vars(RetireLost) /\ WF_vars(RequeueLost) /\ WF_vars(Boot)

Spec == Init /\ [][Next]_vars
FairSpec == Spec /\ Fairness
-----------------------------------------------------------------------------
(* Properties.                                                             *)

\* A lane runs its effects in insertion order and one at a time: while a row
\* is running, every row of its lane inserted before it is settled, retry
\* delays included (claimableCandidatePredicate), whatever was cancelled,
\* requeued or recovered in between.
LaneOrder ==
    \A e, f \in Effects :
        SameLane(e, f) /\ status[e] = "running" /\ status[f] \in Unsettled /\ e # f
            => rowid[e] < rowid[f] /\ status[f] = "pending"

\* A slot that claimed an effect keeps it until it settles it or a command
\* cancels it: although all slots share one worker id and a lease is never
\* renewed, "The worker no longer owns the effect lease" cannot happen.
ClaimIsKept ==
    \A s \in Slots : pc[s] \in Holding =>
        /\ status[held[s]] = "cancelled" \/ Owns(held[s], incarnation)
        /\ \A r \in Slots \ {s} : pc[r] \in Holding => held[r] # held[s]

\* An effect meant for a provider process never executes in a later server
\* process than the one that committed it (PROCESS_BOUND_EFFECT_TYPES).
NeverReplayedAcrossProcesses ==
    \A s \in Slots :
        pc[s] = "executing" /\ TypeOf[held[s]] \in ProcessBound => born[held[s]] = incarnation

\* An executor that runs although its effect is cancelled has been told to
\* stop, or signalCancellations is still to reach it: no cancellation falls
\* between the claim, the registration of the Deferred and the re-read.  The
\* two ways it is never told are the ones unheard records: the fiber that
\* committed the cancellation was interrupted before it sent the signal, or
\* an earlier claim of the row deleted this claim's Deferred from the map.
CancellationReachesExecutor ==
    \A s \in Slots :
        pc[s] = "executing" /\ status[held[s]] = "cancelled" =>
            \/ deferred[s]
            \/ held[s] \in toSignal /\ signals[held[s]] = s
            \/ unheard[s]

\* A row counts an attempt more than maxAttempts only for a statement that
\* failed or a server process that was lost: retries end.
RetriesAreBounded ==
    \A e \in Effects : attempts[e] <= MaxAttempts + faults + (incarnation - 1)

\* A settled effect stays settled the way it was: a late success never
\* overwrites a cancellation, a second insert never revives a row, and
\* failed rows outlive pruning.  Once its row is pruned, only the id of a
\* restart continuation, which is that of its run, gets a row again.
SettledIsFinal ==
    [][\A e \in Effects :
          /\ status[e] = "failed" => status'[e] = "failed"
          /\ status[e] \in {"succeeded", "cancelled"} => status'[e] \in {status[e], "pruned"}
          /\ status[e] = "pruned" =>
                status'[e] = "pruned" \/ (status'[e] = "pending" /\ e \in Continuations)]_vars

\* What the comment on claimableCandidatePredicate says of a thread: its
\* effects run one at a time.
OneExecutionPerLane ==
    \A s, r \in Slots :
        s # r /\ pc[s] = "executing" /\ pc[r] = "executing" => ~ SameLane(held[s], held[r])

\* A row the running server process left running with no slot to settle it.
Stranded(e) ==
    /\ status[e] = "running" /\ lease[e] = incarnation
    /\ \A s \in Slots : pc[s] \in Holding => held[s] # e

\* Whatever fails, crashes and restarts, the only thing that keeps an effect
\* from settling in the end is a row of its lane that this server process
\* left running for good: one it could not decode, or could not give back.
SettlesUnlessLaneStranded ==
    \A e \in Effects :
        [](status[e] = "pending" =>
              \/ <>(status[e] \notin Unsettled)
              \/ <>[](\E f \in Effects : SameLane(e, f) /\ Stranded(f)))

\* The lanes of the outbox keep the promise of LaneQueue: whatever crashes,
\* cancels, faults and restarts do, each lane works on its oldest unfinished
\* effect and a finished effect is never touched again until it is forgotten.
Lane == [e \in Effects |-> <<ThreadOf[e], TypeOf[e] = "thread-title.generate">>]

StageOf(e) ==
    CASE status[e] = "absent"  -> "new"
      [] status[e] = "pending" -> "waiting"
      [] status[e] = "running" -> "active"
      [] status[e] = "pruned"  -> "forgotten"
      [] OTHER                 -> "done"

Queue == INSTANCE LaneQueue WITH
    Jobs <- Effects, LaneOf <- Lane, rank <- rowid, stage <- [e \in Effects |-> StageOf(e)]

ImplementsLaneQueue == Queue!Spec
=============================================================================
