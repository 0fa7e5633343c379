-------------------------- MODULE CommandDispatch --------------------------
(***************************************************************************)
(* How a command is handled once however often it is sent                  *)
(* (orchestration-v2/Orchestrator.ts dispatchWithReceipt, EventSink.ts     *)
(* commitCommand, CommandReceiptStore.ts, project/ProjectService.ts        *)
(* commit).  A command holds the lock of the thread or project it is       *)
(* aimed at, looks for the receipt of its id, plans against the current    *)
(* state, and commits events and receipt in one transaction.               *)
(*                                                                         *)
(* A committed batch of events is one entry of the log.  What a command    *)
(* plans depends on state that is not modelled, so it is a choice; the     *)
(* run queue of a thread is kept as far as queue.resume needs it: no run   *)
(* of the thread is active and no usage limit stops it.                    *)
(***************************************************************************)
EXTENDS FiniteSets, Lines

CONSTANTS
    Fibers,         \* request handlers of the server
    Threads,
    Projects,
    Commands,       \* command ids
    System,         \* stands for the command ids the server makes up itself
    Requests,       \* what clients send: [id, aggregate, kind]
    MaxSent,        \* bound: requests ever sent, retries included
    MaxFaults       \* bound: failed statements, interruptions and crashes

Aggregates == Threads \cup Projects

\* "plain" always has events; "settle" stands for thread.stop and
\* thread.background-work.settle, which may find nothing to record; "resume"
\* is queue.resume; "project" a command on a project.
Kinds == {"plain", "settle", "resume", "project"}

ASSUME DispatchAssumption ==
    /\ Threads \cap Projects = {}
    /\ System \notin Commands
    /\ Requests \subseteq [id : Commands, aggregate : Aggregates, kind : Kinds]
    /\ \A r \in Requests : r.kind = "project" <=> r.aggregate \in Projects
    /\ MaxSent \in Nat /\ MaxFaults \in Nat

VARIABLES
    receipts,   \* command id -> its row of orchestration_command_receipts
    log,        \* the committed batches: [id, aggregate]
    runQueue,   \* thread -> its queued run: held, ready to start, or out of the queue
    locks,      \* aggregate -> the fibers that wait for its lock, the holder first
    pc,         \* fiber -> where in dispatchWithReceipt it is
    request,    \* fiber -> the request it handles
    planned,    \* fiber -> how many batches of its aggregate its plan has seen
    sequence,   \* fiber -> the resultSequence it will answer
    answers,    \* every answer a client got: [request, result, sequence]
    sent,
    faults

fiberVars == <<pc, request, planned, sequence>>
vars == <<receipts, log, runQueue, locks, fiberVars, answers, sent, faults>>

NoRequest == [id |-> System, aggregate |-> System, kind |-> "plain"]
NoReceipt == [aggregate |-> System, status |-> "none", sequence |-> 0]

Receipt == [aggregate : Aggregates, status : {"accepted", "rejected"}, sequence : Nat]
Stages  == {"idle", "waiting", "lookup", "planning", "committing", "recording", "rejecting", "promoting"}

\* "ok" and "rejected" are what a receipt says, "failed" is a plan that failed
\* and was recorded so, "conflict" an id that belongs to other work, "error" a
\* failed statement.
Results == {"ok", "rejected", "failed", "conflict", "error"}

TypeOK ==
    /\ receipts \in [Commands -> Receipt \cup {NoReceipt}]
    /\ log \in Seq([id : Commands \cup {System}, aggregate : Aggregates])
    /\ runQueue \in [Threads -> {"held", "ready", "started"}]
    /\ locks \in [Aggregates -> Seq(Fibers)]
    /\ pc \in [Fibers -> Stages]
    /\ request \in [Fibers -> Requests \cup {NoRequest}]
    /\ planned \in [Fibers -> Nat]
    /\ sequence \in [Fibers -> Nat]
    /\ answers \subseteq [request : Requests, result : Results, sequence : Nat]
    /\ sent \in Nat /\ faults \in Nat

FibersIdle ==
    /\ locks = [a \in Aggregates |-> <<>>]
    /\ pc = [f \in Fibers |-> "idle"]
    /\ request = [f \in Fibers |-> NoRequest]
    /\ planned = [f \in Fibers |-> 0]
    /\ sequence = [f \in Fibers |-> 0]

Init ==
    /\ receipts = [c \in Commands |-> NoReceipt]
    /\ log = <<>>
    /\ runQueue = [t \in Threads |-> "held"]
    /\ FibersIdle
    /\ answers = {}
    /\ sent = 0
    /\ faults = 0

Fault == faults < MaxFaults /\ faults' = faults + 1

Goto(f, stage) == pc' = [pc EXCEPT ![f] = stage]
Aim(f) == request[f].aggregate
OwnReceipt(f) == receipts[request[f].id]

\* The batches of an aggregate, and MAX(sequence) of a thread's rows.
Batches(a) == {i \in DOMAIN log : log[i].aggregate = a}
Version(a) == Cardinality(Batches(a))

\* A rejected project command reads the latest sequence of the whole table.
LatestSequence(a) ==
    IF a \in Projects THEN Len(log)
    ELSE CHOOSE n \in Batches(a) \cup {0} : \A i \in Batches(a) : i <= n

\* The fiber ends, by an answer or an interruption: its lock goes to the next.
Leave(f) ==
    /\ Goto(f, "idle")
    /\ locks' = [locks EXCEPT ![Aim(f)] = Without(@, f)]
    /\ request' = [request EXCEPT ![f] = NoRequest]
    /\ planned' = [planned EXCEPT ![f] = 0]
    /\ sequence' = [sequence EXCEPT ![f] = 0]

Answer(f, result, n) ==
    /\ answers' = answers \cup {[request |-> request[f], result |-> result, sequence |-> n]}
    /\ Leave(f)
-----------------------------------------------------------------------------
\* A client sends a request, for the first time or again; withLock queues it.
Send(f, r) ==
    /\ pc[f] = "idle" /\ sent < MaxSent
    /\ sent' = sent + 1
    /\ Goto(f, "waiting")
    /\ request' = [request EXCEPT ![f] = r]
    /\ locks' = [locks EXCEPT ![r.aggregate] = Append(@, f)]
    /\ UNCHANGED <<receipts, log, runQueue, planned, sequence, answers, faults>>

\* Mutant: nobody waits for the lock.
Holds_Always(f) == TRUE

Holds(f) == Head(locks[Aim(f)]) = f

\* Thread commands look their receipt up first, project commands do not.
Enter(f) ==
    /\ pc[f] = "waiting" /\ Holds(f)
    /\ Goto(f, IF request[f].kind = "project" THEN "planning" ELSE "lookup")
    /\ UNCHANGED <<receipts, log, runQueue, locks, request, planned, sequence, answers, sent, faults>>

\* getByCommandId finds the receipts of thread commands only.
ThreadReceipt(c) == IF receipts[c].aggregate \in Threads THEN receipts[c] ELSE NoReceipt

\* An accepted command is answered by its receipt; a resumed queue is started
\* again first.
\* Mutant: a replayed queue.resume does not start the queue.
Replay_NoPromotion(f, receipt) ==
    /\ Answer(f, "ok", receipt.sequence)
    /\ UNCHANGED <<receipts, log, runQueue, sent, faults>>

Replay(f, receipt) ==
    \/ /\ request[f].kind = "resume"
       /\ Goto(f, "promoting")
       /\ sequence' = [sequence EXCEPT ![f] = receipt.sequence]
       /\ UNCHANGED <<receipts, log, runQueue, locks, request, planned, answers, sent, faults>>
    \/ /\ request[f].kind # "resume"
       /\ Answer(f, "ok", receipt.sequence)
       /\ UNCHANGED <<receipts, log, runQueue, sent, faults>>

\* Mutant: a command that is refused keeps its lock.
Refuse_KeepsLock(f, result) ==
    /\ answers' = answers \cup {[request |-> request[f], result |-> result, sequence |-> 0]}
    /\ Goto(f, "idle")
    /\ request' = [request EXCEPT ![f] = NoRequest]
    /\ UNCHANGED <<receipts, log, runQueue, locks, planned, sequence, sent, faults>>

Refuse(f, result) ==
    /\ Answer(f, result, 0)
    /\ UNCHANGED <<receipts, log, runQueue, sent, faults>>

\* Mutant: any receipt is taken for a success.
Lookup_AnyStatus(f) ==
    LET receipt == ThreadReceipt(request[f].id)
    IN  /\ pc[f] = "lookup"
        /\ \/ /\ receipt = NoReceipt
              /\ Goto(f, "planning")
              /\ UNCHANGED <<receipts, log, runQueue, locks, request, planned, sequence, answers, sent, faults>>
           \/ receipt # NoReceipt /\ receipt.aggregate # Aim(f) /\ Refuse(f, "conflict")
           \/ receipt # NoReceipt /\ receipt.aggregate = Aim(f) /\ Replay(f, receipt)

Lookup(f) ==
    LET receipt == ThreadReceipt(request[f].id)
    IN  /\ pc[f] = "lookup"
        /\ \/ /\ receipt = NoReceipt
              /\ Goto(f, "planning")
              /\ UNCHANGED <<receipts, log, runQueue, locks, request, planned, sequence, answers, sent, faults>>
           \/ receipt.status = "rejected" /\ Refuse(f, "rejected")
           \/ receipt.status = "accepted" /\ receipt.aggregate # Aim(f) /\ Refuse(f, "conflict")
           \/ receipt.status = "accepted" /\ receipt.aggregate = Aim(f) /\ Replay(f, receipt)

\* dispatchOnce, or planProjectCommand: events, nothing to record, or a
\* failure.  A statement that fails here is a failure of the plan.
Plan(f) ==
    /\ pc[f] = "planning"
    /\ \/ Goto(f, "committing")
       \/ request[f].kind = "settle" /\ Goto(f, "recording")
       \/ Goto(f, "rejecting")
    /\ planned' = [planned EXCEPT ![f] = Version(Aim(f))]
    /\ UNCHANGED <<receipts, log, runQueue, locks, request, sequence, answers, sent, faults>>
-----------------------------------------------------------------------------
\* insertIfAbsent finds no row of this id.
Reserved(f) == OwnReceipt(f) = NoReceipt

SetReceipt(f, status, n) ==
    receipts' = [receipts EXCEPT ![request[f].id] =
        [aggregate |-> Aim(f), status |-> status, sequence |-> n]]

Append1(f) == log' = Append(log, [id |-> request[f].id, aggregate |-> Aim(f)])

\* commitCommand and commitProjectCommand: receipt, events, projections and
\* effects, or nothing.  A resumed queue is held no longer.
Commit(f) ==
    /\ pc[f] = "committing" /\ Reserved(f)
    /\ Append1(f)
    /\ SetReceipt(f, "accepted", Len(log) + 1)
    /\ \/ /\ request[f].kind = "resume"
          /\ runQueue' = [runQueue EXCEPT ![Aim(f)] = IF @ = "held" THEN "ready" ELSE @]
          /\ Goto(f, "promoting")
          /\ sequence' = [sequence EXCEPT ![f] = Len(log) + 1]
          /\ UNCHANGED <<locks, request, planned, answers>>
       \/ /\ request[f].kind # "resume"
          /\ Answer(f, "ok", Len(log) + 1)
          /\ UNCHANGED runQueue
    /\ UNCHANGED <<sent, faults>>

\* What the receipt its id already has says to a request.
AnswerFrom(f, receipt) ==
    \/ receipt.status = "rejected" /\ Refuse(f, "rejected")
    \/ receipt.status = "accepted" /\ Replay(f, receipt)

\* A project command checks that the receipt is its own.
AnswerFromProject(f) ==
    \/ OwnReceipt(f).aggregate # Aim(f) /\ Refuse(f, "conflict")
    \/ OwnReceipt(f).aggregate = Aim(f) /\ AnswerFrom(f, OwnReceipt(f))

\* The id got a receipt since it was looked up.  A thread command takes it for
\* its own, and dies if it is a project's.
CommitTaken(f) ==
    /\ pc[f] = "committing" /\ ~ Reserved(f)
    /\ \/ request[f].kind = "project" /\ AnswerFromProject(f)
       \/ request[f].kind # "project" /\ AnswerFrom(f, ThreadReceipt(request[f].id))
       \/ /\ request[f].kind # "project" /\ ThreadReceipt(request[f].id) = NoReceipt
          /\ Refuse(f, "error")

\* A plan without events still records that the command was handled.
\* Mutant: it does not.
RecordEmpty_NoReceipt(f) ==
    /\ pc[f] = "recording"
    /\ Answer(f, "ok", LatestSequence(Aim(f)))
    /\ UNCHANGED <<receipts, log, runQueue, sent, faults>>

RecordEmpty(f) ==
    /\ pc[f] = "recording"
    /\ IF Reserved(f) THEN SetReceipt(f, "accepted", LatestSequence(Aim(f))) ELSE UNCHANGED receipts
    /\ Answer(f, "ok", LatestSequence(Aim(f)))
    /\ UNCHANGED <<log, runQueue, sent, faults>>

\* commitRejectedCommand: the thread command's client gets the cause of its own
\* failure, whatever the receipt says; a project command's gets the receipt.
\* Mutant: the rejection overwrites the receipt the id already has.
Reject_Overwrites(f) ==
    /\ pc[f] = "rejecting"
    /\ SetReceipt(f, "rejected", LatestSequence(Aim(f)))
    /\ Answer(f, "failed", 0)
    /\ UNCHANGED <<log, runQueue, sent, faults>>

Reject(f) ==
    /\ pc[f] = "rejecting"
    /\ \/ /\ Reserved(f)
          /\ SetReceipt(f, "rejected", LatestSequence(Aim(f)))
          /\ Answer(f, IF request[f].kind = "project" THEN "rejected" ELSE "failed", 0)
          /\ UNCHANGED <<log, runQueue, sent, faults>>
       \/ ~ Reserved(f) /\ request[f].kind # "project" /\ Refuse(f, "failed")
       \/ ~ Reserved(f) /\ request[f].kind = "project" /\ AnswerFromProject(f)

\* startNextQueuedRun, in a transaction of its own.  A run that cannot start
\* leaves the queue as failed (failQueuedRunStart).
Promote(f) ==
    /\ pc[f] = "promoting"
    /\ IF runQueue[Aim(f)] = "ready"
       THEN /\ runQueue' = [runQueue EXCEPT ![Aim(f)] = "started"]
            /\ log' = Append(log, [id |-> System, aggregate |-> Aim(f)])
       ELSE UNCHANGED <<runQueue, log>>
    /\ Answer(f, "ok", sequence[f])
    /\ UNCHANGED <<receipts, sent, faults>>
-----------------------------------------------------------------------------
\* A statement fails; its transaction rolls back.  In a thread command's plan
\* that is a failed plan.
FailStatement(f) ==
    /\ \/ pc[f] \in {"lookup", "committing", "recording", "rejecting", "promoting"}
       \/ pc[f] = "planning" /\ request[f].kind = "project"
    /\ Fault
    /\ Answer(f, "error", 0)
    /\ UNCHANGED <<receipts, log, runQueue, sent>>

\* The client is gone and its fiber is interrupted between two steps.
Interrupt(f) ==
    /\ pc[f] # "idle"
    /\ Fault
    /\ Leave(f)
    /\ UNCHANGED <<receipts, log, runQueue, answers, sent>>

\* The server is lost.  When it comes back, reconciliation holds every queued
\* run before commands are admitted.
Crash ==
    /\ Fault
    /\ runQueue' = [t \in Threads |-> IF runQueue[t] = "ready" THEN "held" ELSE runQueue[t]]
    /\ locks' = [a \in Aggregates |-> <<>>]
    /\ pc' = [f \in Fibers |-> "idle"]
    /\ request' = [f \in Fibers |-> NoRequest]
    /\ planned' = [f \in Fibers |-> 0]
    /\ sequence' = [f \in Fibers |-> 0]
    /\ UNCHANGED <<receipts, log, answers, sent>>

Handle(f) ==
    \/ Enter(f) \/ Lookup(f) \/ Plan(f) \/ Commit(f) \/ CommitTaken(f)
    \/ RecordEmpty(f) \/ Reject(f) \/ Promote(f)

Next ==
    \/ \E f \in Fibers :
          \/ \E r \in Requests : Send(f, r)
          \/ Handle(f) \/ FailStatement(f) \/ Interrupt(f)
    \/ Crash

Fairness == \A f \in Fibers : WF_vars(Handle(f))

Spec == Init /\ [][Next]_vars
FairSpec == Spec /\ Fairness
-----------------------------------------------------------------------------
(* Properties.                                                             *)

\* No command has its events committed twice, however often it is sent, to
\* whatever aggregates, and wherever the server fails.
CommittedOnce ==
    \A i, j \in DOMAIN log : log[i].id = log[j].id /\ log[i].id # System => i = j

\* Receipts and events tell the same story: a committed batch has an accepted
\* receipt that names its aggregate and its sequence, so a retry is answered
\* from it; a rejected command has no events.
ReceiptsMatchTheLog ==
    \A i \in DOMAIN log : log[i].id # System =>
        receipts[log[i].id] = [aggregate |-> log[i].aggregate, status |-> "accepted", sequence |-> i]

\* A plan is never stale: from the moment a command has read its thread until it
\* commits, no other command of that thread commits ("both plan against current
\* thread state").
PlansAreCurrent == \A f \in Fibers : pc[f] = "committing" => planned[f] = Version(Aim(f))

\* All final answers to one command agree: one outcome, one sequence.
AnswersAgree ==
    \A a, b \in answers :
        /\ a.request = b.request
        /\ a.result \in {"ok", "rejected", "failed"} /\ b.result \in {"ok", "rejected", "failed"}
        => /\ a.result = "ok" <=> b.result = "ok"
           /\ a.sequence = b.sequence

\* What was answered as done is not done again later: "a replayed Stop effect
\* then finds it instead of settling work that appeared since".
AnsweredIsFinal ==
    [][\A a \in answers : a.result = "ok" =>
          \A i \in (Len(log) + 1)..Len(log') : log'[i].id # a.request.id]_vars

\* Whoever is told that the queue was resumed finds it started, or held anew
\* by a restart: a crash, an interruption or a failed statement between the
\* commit and the start is made up for by the retry.
ResumedQueueIsStarted ==
    [][\A a \in answers' \ answers :
          a.result = "ok" /\ a.request.kind = "resume" => runQueue'[a.request.aggregate] # "ready"]_vars

\* Commands use the lock of their aggregate as KeyedLock provides it: one line
\* per aggregate, and only its head past the lookup of its receipt.
Lock == INSTANCE FifoLock WITH
    Users <- Fibers, LockKeys <- Aggregates, line <- locks,
    inside <- {f \in Fibers : pc[f] \notin {"idle", "waiting"}}

KeepsToTheLock == Lock!LockSpec

\* Every request is answered, unless its client or the server is gone.
RequestsAreAnswered == \A f \in Fibers : pc[f] # "idle" ~> pc[f] = "idle"

\* "A reused command id aimed at another thread must not report the first
\* thread's success as this thread's."
SuccessIsForOwnThread ==
    \A a \in answers : a.result = "ok" /\ a.request.kind = "plain" =>
        \E i \in DOMAIN log : log[i].id = a.request.id /\ log[i].aggregate = a.request.aggregate

\* "Queue recovery instead holds unstarted runs until an explicit queue.resume
\* command arrives": one that is answered ok leaves nothing held.
ResumeEndsTheHold ==
    [][\A a \in answers' \ answers :
          a.result = "ok" /\ a.request.kind = "resume" => runQueue'[a.request.aggregate] # "held"]_vars
=============================================================================
