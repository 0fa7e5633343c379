---------------------------- MODULE EffectOutbox ----------------------------
(***************************************************************************)
(* The durable outbox of side effects of the orchestration engine          *)
(* (orchestration-v2/EffectOutbox.ts): one row per effect in a SQLite      *)
(* table, and beside it the process-local map of cancellation signals.     *)
(*                                                                         *)
(* Every operation of the service is an operator here; EffectWorker.tla    *)
(* says who calls them and when.  A row is spread over functions of its    *)
(* effect id.  What the rows' timestamps decide is kept as one bit, "is    *)
(* available_at in the past"; payloads, errors and timestamps are left out.*)
(***************************************************************************)
EXTENDS Integers, FiniteSets

CONSTANTS
    Slots,        \* fibers of the effect daemon
    Effects,      \* effect ids
    NoSlot,       \* "the map has no entry"
    Threads,      \* thread ids
    ThreadOf,     \* [Effects -> Threads]
    TypeOf        \* [Effects -> EffectTypes]

\* Effects that may run again after the process that started them is lost.
ReplaySafe ==
    { "provider-runtime.continue", "provider-session.detach",
      "provider-thread.rollback", "checkpoint.capture", "terminal.cleanup",
      "attachment.cleanup", "thread-title.generate", "delegated-tasks.stop" }

\* Effects that only make sense to the provider process they were meant for.
ProcessBound ==
    { "provider-turn.start", "provider-turn.interrupt", "provider-turn.steer",
      "provider-turn.restart", "runtime-request.respond" }

EffectTypes == ReplaySafe \cup ProcessBound

ASSUME TypesAssumption ==
    /\ ThreadOf \in [Effects -> Threads]
    /\ TypeOf \in [Effects -> EffectTypes]
    /\ NoSlot \notin Slots

VARIABLES
    status,     \* status column; "absent" before the insert, "pruned" after the delete
    attempts,   \* attempt_count column
    lease,      \* lease_owner column: the incarnation that claimed the row, 0 for NULL
    due,        \* available_at is not in the future
    rowid,      \* rowid: the insertion order, 0 while absent
    nextRow,    \* the rowid the next insert gets
    signals     \* cancellationSignals: the slot whose Deferred the entry is, or NoSlot

outboxVars == <<status, attempts, lease, due, rowid, nextRow, signals>>

Unsettled == {"pending", "running"}
Settled   == {"succeeded", "failed", "cancelled"}
Statuses  == {"absent", "pruned"} \cup Unsettled \cup Settled

OutboxTypeOK ==
    /\ status \in [Effects -> Statuses]
    /\ attempts \in [Effects -> Nat]
    /\ lease \in [Effects -> Nat]
    /\ due \in [Effects -> BOOLEAN]
    /\ rowid \in [Effects -> Nat]
    /\ nextRow \in Nat \ {0}
    /\ signals \in [Effects -> Slots \cup {NoSlot}]

OutboxInit ==
    /\ status = [e \in Effects |-> "absent"]
    /\ attempts = [e \in Effects |-> 0]
    /\ lease = [e \in Effects |-> 0]
    /\ due = [e \in Effects |-> TRUE]
    /\ rowid = [e \in Effects |-> 0]
    /\ nextRow = 1
    /\ signals = [e \in Effects |-> NoSlot]

-----------------------------------------------------------------------------
\* Title generation has a lane of its own in each thread.
SameLane(e, f) ==
    /\ ThreadOf[e] = ThreadOf[f]
    /\ (TypeOf[e] = "thread-title.generate") <=> (TypeOf[f] = "thread-title.generate")

\* Mutants: a row waiting out a retry delay no longer blocks the rows after
\* it; a row is blocked by any other pending row of its lane.
Unblocked_SkipsDelayed(e) ==
    /\ status[e] = "pending"
    /\ \A f \in Effects : SameLane(e, f) =>
          /\ status[f] # "running"
          /\ ~ (status[f] = "pending" /\ due[f] /\ rowid[f] < rowid[e])

Unblocked_AnyOtherBlocks(e) ==
    /\ status[e] = "pending"
    /\ \A f \in Effects : SameLane(e, f) =>
          /\ status[f] # "running"
          /\ ~ (status[f] = "pending" /\ rowid[f] # rowid[e])

\* claimableCandidatePredicate without the clock.
Unblocked(e) ==
    /\ status[e] = "pending"
    /\ \A f \in Effects : SameLane(e, f) =>
          /\ status[f] # "running"
          /\ ~ (status[f] = "pending" /\ rowid[f] < rowid[e])

\* Mutant: an expired lease may be claimed again by a slot of the same process.
Claimable_ReclaimsLeases(e) == due[e] /\ (Unblocked(e) \/ status[e] = "running")

Claimable(e) == due[e] /\ Unblocked(e)

\* The rows an UPDATE of cancelUnsettled selects, in the rows r.
UnsettledOf(r, t, types) ==
    {e \in Effects : ThreadOf[e] = t /\ TypeOf[e] \in types /\ r[e] \in Unsettled}

\* enqueue of one effect followed, in the same transaction, by cancelUnsettled;
\* E holds at most one effect.  ON CONFLICT(effect_id) DO NOTHING: an id that
\* has a row is skipped; one whose row was pruned gets a new row.
\* Mutant: ON CONFLICT overwrites the row.
Inserted_Upsert(E) == E

Inserted(E) == {e \in E : status[e] \in {"absent", "pruned"}}

AfterInsert(E) == [e \in Effects |-> IF e \in Inserted(E) THEN "pending" ELSE status[e]]

Cancelled(E, t, types) == UnsettledOf(AfterInsert(E), t, types)

EnqueueThenCancel(E, t, types) ==
    /\ status' = [e \in Effects |->
                     IF e \in Cancelled(E, t, types) THEN "cancelled" ELSE AfterInsert(E)[e]]
    /\ lease' = [e \in Effects |-> IF e \in Cancelled(E, t, types) THEN 0 ELSE lease[e]]
    /\ attempts' = [e \in Effects |-> IF e \in Inserted(E) THEN 0 ELSE attempts[e]]
    /\ due' = [e \in Effects |-> due[e] \/ e \in Inserted(E)]
    /\ rowid' = [e \in Effects |-> IF e \in Inserted(E) THEN nextRow ELSE rowid[e]]
    /\ nextRow' = IF Inserted(E) = {} THEN nextRow ELSE nextRow + 1

\* The UPDATE of claimNext, and the Map.set that follows it.
ClaimRow(e, owner) ==
    /\ status' = [status EXCEPT ![e] = "running"]
    /\ attempts' = [attempts EXCEPT ![e] = @ + 1]
    /\ lease' = [lease EXCEPT ![e] = owner]
    /\ UNCHANGED <<due, rowid, nextRow>>

SetSignal(e, s) == signals' = [signals EXCEPT ![e] = s]

\* clearCancellation, and the Map.delete of succeed, retry and fail.
ClearSignal(e) == signals' = [signals EXCEPT ![e] = NoSlot]

\* Mutant: the UPDATE selects the row by its id alone.
Owns_ById(e, owner) == owner = owner

\* The WHERE clause of succeed, retry and fail.
Owns(e, owner) == status[e] = "running" /\ lease[e] = owner

\* The UPDATE of succeed and of fail.
Finish(e, owner, to) ==
    /\ Owns(e, owner)
    /\ status' = [status EXCEPT ![e] = to]
    /\ lease' = [lease EXCEPT ![e] = 0]
    /\ UNCHANGED <<attempts, due, rowid, nextRow>>

\* The UPDATE of retry; without a delay the row is available at once.
Retry(e, owner, delayed) ==
    /\ Owns(e, owner)
    /\ status' = [status EXCEPT ![e] = "pending"]
    /\ lease' = [lease EXCEPT ![e] = 0]
    /\ due' = [due EXCEPT ![e] = ~ delayed]
    /\ UNCHANGED <<attempts, rowid, nextRow>>

\* Mutants: pending process-bound rows are kept; nothing is requeued.
RetireProcessBound_RunningOnly ==
    LET lost == {e \in Effects : TypeOf[e] \in ProcessBound /\ status[e] = "running"}
    IN  /\ status' = [e \in Effects |-> IF e \in lost THEN "cancelled" ELSE status[e]]
        /\ lease' = [e \in Effects |-> IF e \in lost THEN 0 ELSE lease[e]]
        /\ UNCHANGED <<attempts, due, rowid, nextRow, signals>>

RequeueReplaySafe_Nothing == UNCHANGED outboxVars

\* The two UPDATEs of reconcileAfterProcessLoss.
RetireProcessBound ==
    LET lost == {e \in Effects : TypeOf[e] \in ProcessBound /\ status[e] \in Unsettled}
    IN  /\ status' = [e \in Effects |-> IF e \in lost THEN "cancelled" ELSE status[e]]
        /\ lease' = [e \in Effects |-> IF e \in lost THEN 0 ELSE lease[e]]
        /\ UNCHANGED <<attempts, due, rowid, nextRow, signals>>

RequeueReplaySafe ==
    LET lost == {e \in Effects : TypeOf[e] \in ReplaySafe /\ status[e] = "running"}
    IN  /\ status' = [e \in Effects |-> IF e \in lost THEN "pending" ELSE status[e]]
        /\ lease' = [e \in Effects |-> IF e \in lost THEN 0 ELSE lease[e]]
        /\ due' = [e \in Effects |-> due[e] \/ e \in lost]
        /\ UNCHANGED <<attempts, rowid, nextRow, signals>>

\* One row deleted by pruneSettled.
PruneRow(e) ==
    /\ status[e] \in {"succeeded", "cancelled"}
    /\ status' = [status EXCEPT ![e] = "pruned"]
    /\ UNCHANGED <<attempts, lease, due, rowid, nextRow, signals>>

\* The clock passes available_at of a row waiting out a retry delay.
BecomesDue(e) ==
    /\ status[e] = "pending"
    /\ ~ due[e]
    /\ due' = [due EXCEPT ![e] = TRUE]
    /\ UNCHANGED <<status, attempts, lease, rowid, nextRow, signals>>
=============================================================================
