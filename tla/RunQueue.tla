------------------------------ MODULE RunQueue ------------------------------
(***************************************************************************)
(* The runs of one thread (orchestration-v2): messages start a run, join   *)
(* the running turn, restart it or wait in the thread's queue              *)
(* (Orchestrator.ts); the effect lane starts, steers, restarts and         *)
(* interrupts provider turns (ProviderTurnStartService.ts,                 *)
(* ProviderTurnControlService.ts, EffectWorker.ts); an ingestion fiber per *)
(* attempt ends the run outside the thread's lock (RunExecutionService.ts);*)
(* a capture completes it (CheckpointCaptureService.ts); a listener starts *)
(* the next queued run; a restart of the server cancels what was running   *)
(* and holds the queue (ProviderRuntimeRecoveryService.ts).                *)
(*                                                                         *)
(* A command holds the thread's lock from its read to its commit.  The     *)
(* executors and the ingestion fibers hold no lock: each of their          *)
(* transactions is one step, and any of them may come between the read and *)
(* the write of another.                                                   *)
(***************************************************************************)
EXTENDS Lines, FiniteSets, SequencesExt

CONSTANTS
    MaxRuns,      \* bound: runs of the thread
    MaxMessages,  \* bound: messages the clients send
    MaxAttempts,  \* bound: attempts of one run
    MaxTries,     \* executions of one effect before it is dropped, 5 in production
    MaxStops,     \* bound: Stop commands
    MaxEdits,     \* bound: reorder, cancel, promote, resume and retry commands
    MaxRestarts,  \* bound: restarts of the server process
    MaxLosses,    \* bound: ends of runs the listener does not get to
    MaxEvents,    \* bound: the stops, edits, restarts and losses together
    Modes,        \* how a client may send each message
    SteersLive    \* the provider takes a message into a running turn

ASSUME RunQueueAssumption ==
    /\ MaxRuns \in Nat \ {0}
    /\ MaxMessages \in Nat \ {0}
    /\ MaxAttempts \in Nat \ {0}
    /\ MaxTries \in Nat \ {0}
    /\ MaxStops \in Nat
    /\ MaxEdits \in Nat
    /\ MaxRestarts \in Nat
    /\ MaxLosses \in Nat
    /\ MaxEvents \in Nat
    /\ Modes \in [1 .. MaxMessages -> SUBSET {"new", "defer", "steer", "restart"}]
    /\ SteersLive \in BOOLEAN

VARIABLES
    status,    \* run -> its status
    attempt,   \* run -> ordinal of its active attempt
    prompt,    \* run, attempt -> the message the attempt starts with, 0 for none
    class,     \* run -> class of the failure it ended with
    last,      \* the started run that ended last, 0 for none
    overtaken, \* history: runs that moved on under a write already decided
    held,      \* queued runs with queueHeld
    line,      \* the queued runs in the order of their queuePosition
    turn,      \* run, attempt -> its provider turn and the fiber that ingests it
    ending,    \* run, attempt -> how the provider turn ended
    asked,     \* attempts whose provider turn was asked to stop
    lane,      \* the thread's unsettled effects, in order
    step,      \* how far the executor of the first effect is
    captured,  \* runs that ever had a checkpoint.capture row
    notices,   \* runs whose end the listener has not handled, in order
    missed,    \* history: an end went unhandled and nobody read the queue since
    plan,      \* what the holder of the thread's lock is about to commit
    owner,     \* message -> the run it is recorded on, 0 when not sent
    given,     \* message -> how often a provider accepted it
    forfeit,   \* history: messages whose steer effect was given up
    spent      \* stops, edits, restarts and losses so far

runVars     == <<status, attempt, prompt, class, last, overtaken>>
queueVars   == <<held, line>>
turnVars    == <<turn, ending, asked>>
laneVars    == <<lane, step, captured>>
endVars     == <<notices, missed>>
messageVars == <<owner, given, forfeit>>
vars == <<runVars, queueVars, turnVars, laneVars, endVars, plan, messageVars, spent>>

Runs     == 1 .. MaxRuns
Attempts == 1 .. MaxAttempts
Messages == 1 .. MaxMessages

Blocking == {"preparing", "starting", "running", "waiting"}
Terminal == {"completed", "interrupted", "failed", "cancelled"}
Statuses == {"none", "queued"} \cup Blocking \cup Terminal
Classes  == {"none", "provider", "validation", "workspace", "limit"}

TurnStages == {"none", "begun", "running", "ended", "deciding", "done"}
Endings    == {"none", "completed", "failed", "interrupted"}

EffectsOf(kinds) == [kind : kinds, run : Runs, att : Attempts, msg : Messages \cup {0},
                     tries : 0 .. MaxTries - 1]
Starts  == {"start", "restart"}
Others  == {"steer", "interrupt", "capture"}
Effects == EffectsOf(Starts \cup Others)
Steps   == [at : {"idle", "awaiting", "opening", "opened", "cleared", "followup",
                  "capturing"},
            run : Runs, att : Attempts, was : Statuses]
Plans   == [kind : {"none", "queue", "begin", "prepare", "steer", "restart", "stop",
                    "interrupt", "resume", "cancel", "reorder", "release", "fail",
                    "retry", "advance", "hold", "launch"},
            run : Runs \cup {0}, att : Attempts \cup {0}, msg : Messages \cup {0},
            hold : BOOLEAN, from : Runs \cup {0}]

TypeOK ==
    /\ status \in [Runs -> Statuses]
    /\ attempt \in [Runs -> Attempts]
    /\ prompt \in [Runs \X Attempts -> Messages \cup {0}]
    /\ class \in [Runs -> Classes]
    /\ last \in Runs \cup {0}
    /\ overtaken \in SUBSET Runs
    /\ held \in SUBSET Runs
    /\ line \in Seq(Runs)
    /\ turn \in [Runs \X Attempts -> TurnStages]
    /\ ending \in [Runs \X Attempts -> Endings]
    /\ asked \in SUBSET (Runs \X Attempts)
    /\ lane \in Seq(Effects)
    /\ step \in Steps
    /\ captured \in SUBSET Runs
    /\ notices \in Seq(Runs)
    /\ missed \in BOOLEAN
    /\ plan \in Plans
    /\ owner \in [Messages -> Runs \cup {0}]
    /\ given \in [Messages -> Nat]
    /\ forfeit \in SUBSET Messages
    /\ spent \in [stops : Nat, edits : Nat, restarts : Nat, losses : Nat]

NoPlan == [kind |-> "none", run |-> 0, att |-> 0, msg |-> 0, hold |-> FALSE, from |-> 0]
Idle   == [at |-> "idle", run |-> 1, att |-> 1, was |-> "none"]

Init ==
    /\ status = [r \in Runs |-> "none"]
    /\ attempt = [r \in Runs |-> 1]
    /\ prompt = [x \in Runs \X Attempts |-> 0]
    /\ class = [r \in Runs |-> "none"]
    /\ last = 0
    /\ overtaken = {}
    /\ held = {}
    /\ line = << >>
    /\ turn = [x \in Runs \X Attempts |-> "none"]
    /\ ending = [x \in Runs \X Attempts |-> "none"]
    /\ asked = {}
    /\ lane = << >>
    /\ step = Idle
    /\ captured = {}
    /\ notices = << >>
    /\ missed = FALSE
    /\ plan = NoPlan
    /\ owner = [m \in Messages |-> 0]
    /\ given = [m \in Messages |-> 0]
    /\ forfeit = {}
    /\ spent = [stops |-> 0, edits |-> 0, restarts |-> 0, losses |-> 0]

-----------------------------------------------------------------------------
(* What a command reads.                                                   *)

BlockingRuns == {r \in Runs : status[r] \in Blocking}
Queued       == {r \in Runs : status[r] = "queued"}
Current(r)   == <<r, attempt[r]>>
Fresh        == {r \in Runs : status[r] = "none"}
NextRun      == 1 + Cardinality(Runs \ Fresh)
NextMessage  == 1 + Cardinality({m \in Messages : owner[m] # 0})
NextAttempt(r) == 1 + Cardinality({a \in Attempts : prompt[<<r, a>>] # 0})

\* The last started run failed on the subscription limit.
LimitBlocked ==
    /\ BlockingRuns = {}
    /\ last # 0
    /\ status[last] = "failed"
    /\ class[last] = "limit"

\* steer_active names a run whose turn has completed: the message starts a
\* new turn instead.
TooLate(r) ==
    \/ status[r] = "completed"
    \/ /\ status[r] \in {"running", "waiting"}
       /\ turn[Current(r)] \in {"ended", "deciding", "done"}
       /\ ending[Current(r)] = "completed"

\* The run has a running provider turn that can be steered or restarted.
Steerable(r) ==
    /\ status[r] = "running"
    /\ turn[Current(r)] = "running"

Effect(kind, r, a, m) == [kind |-> kind, run |-> r, att |-> a, msg |-> m, tries |-> 0]

\* The write that ends run r, and its publication to the listener.
End(r, s, c) ==
    /\ status' = [status EXCEPT ![r] = s]
    /\ class' = [class EXCEPT ![r] = c]
    /\ last' = r
    /\ notices' = Append(notices, r)

\* Somebody is about to write run r by what it was before: a fiber past
\* shouldFinalizeRun, a Stop or a restart past its read, a capture past its load.
Misled(r) ==
    \/ \E a \in Attempts :
          /\ turn[<<r, a>>] = "deciding"
          /\ ~(attempt[r] = a /\ status[r] \in {"starting", "running"})
    \/ /\ plan.kind = "stop" /\ plan.run = r
       /\ status[r] \notin {"preparing", "starting", "running"}
    \/ /\ plan.kind = "restart" /\ plan.run = r
       /\ status[r] # "running"
    \/ /\ step.at = "capturing" /\ step.run = r
       /\ <<status[r], attempt[r]>> # <<step.was, step.att>>

\* History: the runs this step moved on under such a write.
Overtakes ==
    overtaken' = overtaken \cup
        {r \in Runs : /\ <<status'[r], attempt'[r]>> # <<status[r], attempt[r]>>
                      /\ Misled(r)'}

Attempted == Runs \X Attempts

\* Bound: there is room for one more event of a kind.
Spare(n, max) ==
    n < max /\ spent.stops + spent.edits + spent.restarts + spent.losses < MaxEvents

LockFree         == plan = NoPlan
Committing(kind) == plan.kind \in kind

-----------------------------------------------------------------------------
(* Commands, first half: the lock is taken and the projection read.  What  *)
(* the command decides there is in the plan; a refused command leaves no   *)
(* plan.                                                                   *)

Reads == UNCHANGED <<runVars, queueVars, turnVars, laneVars, endVars, messageVars>>

\* Mutant: a message queued behind held ones is not held.
FreshPlan_NotHeld(m, kind) ==
    [NoPlan EXCEPT !.kind = IF BlockingRuns # {} THEN "queue" ELSE kind, !.run = NextRun, !.msg = m]

\* message.dispatch that starts a run, or queues one behind a blocking run.
FreshPlan(m, kind) ==
    IF BlockingRuns # {}
    THEN [NoPlan EXCEPT !.kind = "queue", !.run = NextRun, !.msg = m, !.hold = held # {}]
    ELSE [NoPlan EXCEPT !.kind = kind, !.run = NextRun, !.msg = m]

SendFresh ==
    /\ LockFree
    /\ NextMessage \in Messages
    /\ NextRun \in Fresh
    /\ \/ /\ "new" \in Modes[NextMessage]
          /\ plan' = FreshPlan(NextMessage, "begin")
       \/ /\ "defer" \in Modes[NextMessage]
          /\ plan' = FreshPlan(NextMessage, "prepare")
       \/ /\ "steer" \in Modes[NextMessage]
          /\ \E r \in Runs : TooLate(r)
          /\ plan' = FreshPlan(NextMessage, "begin")
    /\ Reads
    /\ UNCHANGED spent

\* message.dispatch into the running turn, and queued-message.promote-to-steer.
JoinPlan(r, m, force, q) ==
    [NoPlan EXCEPT !.kind = IF SteersLive /\ ~force THEN "steer" ELSE "restart",
                   !.run = r, !.att = attempt[r], !.msg = m, !.from = q]

SendJoining ==
    /\ LockFree
    /\ \E r \in Runs :
          /\ Steerable(r)
          /\ NextAttempt(r) \in Attempts
          /\ \/ /\ NextMessage \in Messages
                /\ \E mode \in Modes[NextMessage] \cap {"steer", "restart"} :
                      plan' = JoinPlan(r, NextMessage, mode = "restart", 0)
                /\ UNCHANGED spent
             \/ /\ Spare(spent.edits, MaxEdits)
                /\ \E q \in Queued : plan' = JoinPlan(r, prompt[Current(q)], FALSE, q)
                /\ spent' = [spent EXCEPT !.edits = @ + 1]
    /\ Reads

\* run.interrupt: without a running provider turn the commit ends the run,
\* else an effect asks the turn to stop.  The Stop button also holds the queue.
Stop ==
    /\ LockFree
    /\ Spare(spent.stops, MaxStops)
    /\ \E r \in Runs, hold \in BOOLEAN :
          LET live == turn[Current(r)] = "running"
          IN  /\ live \/ status[r] \in {"preparing", "starting", "running"}
              /\ plan' = [NoPlan EXCEPT !.kind = IF live THEN "interrupt" ELSE "stop",
                                        !.run = r, !.att = attempt[r], !.hold = hold]
    /\ spent' = [spent EXCEPT !.stops = @ + 1]
    /\ Reads

\* queue.resume, queued-run.cancel, queued-run.reorder, prepared-run.retry
Edit ==
    /\ LockFree
    /\ Spare(spent.edits, MaxEdits)
    /\ \/ /\ Queued # {}
          /\ ~LimitBlocked
          /\ plan' = [NoPlan EXCEPT !.kind = "resume"]
       \/ \E q \in Queued, kind \in {"cancel", "reorder"} :
             plan' = [NoPlan EXCEPT !.kind = kind, !.run = q]
       \/ \E r \in Runs :
             /\ status[r] = "failed"
             /\ class[r] = "workspace"
             /\ BlockingRuns = {}
             /\ plan' = [NoPlan EXCEPT !.kind = "retry", !.run = r]
    /\ spent' = [spent EXCEPT !.edits = @ + 1]
    /\ Reads

\* The launch service reports on the workspace of a preparing run.
Prepared ==
    /\ LockFree
    /\ \E r \in Runs, kind \in {"release", "fail"} :
          /\ status[r] = "preparing"
          /\ plan' = [NoPlan EXCEPT !.kind = kind, !.run = r]
    /\ Reads
    /\ UNCHANGED spent

\* handleTerminalRun takes the lock for the next run that ended.
Listen ==
    /\ LockFree
    /\ notices # << >>
    /\ notices' = Tail(notices)
    /\ plan' = [NoPlan EXCEPT
                  !.kind = "advance",
                  !.from = IF status[Head(notices)] = "failed" THEN Head(notices) ELSE 0]
    /\ UNCHANGED <<runVars, queueVars, turnVars, laneVars, missed, messageVars, spent>>

\* An end that starts nothing: its publication was interrupted, or the listener
\* failed, before the queue was read or after, and only logged that.
Lose ==
    /\ Spare(spent.losses, MaxLosses)
    /\ \/ /\ \E i \in 1 .. Len(notices) : notices' = RemoveAt(notices, i)
          /\ UNCHANGED plan
       \/ /\ plan.kind \in {"advance", "hold", "launch"}
          /\ plan' = NoPlan
          /\ UNCHANGED notices
    /\ missed' = TRUE
    /\ spent' = [spent EXCEPT !.losses = @ + 1]
    /\ UNCHANGED <<runVars, queueVars, turnVars, laneVars, messageVars>>

\* Mutant: the queue advances although a run blocks it.
NothingToStart_IgnoresBlocking == Queued = {} \/ held # {} \/ LimitBlocked

\* startNextQueuedRun reads.
NothingToStart == Queued = {} \/ BlockingRuns # {} \/ held # {} \/ LimitBlocked

\* The run whose end is being handled is the latest and its provider failed.
ProviderFailed ==
    /\ plan.from # 0
    /\ last = plan.from
    /\ class[last] \notin {"none", "validation", "workspace"}

ReadQueue ==
    /\ Committing({"advance"})
    /\ \/ /\ NothingToStart
          /\ plan' = NoPlan
       \/ /\ ~NothingToStart
          /\ ProviderFailed
          /\ plan' = [NoPlan EXCEPT !.kind = "hold"]
       \/ /\ ~NothingToStart
          /\ ~ProviderFailed
          /\ \E q \in Queued :
                /\ q = Head(line)
                /\ plan' = [NoPlan EXCEPT !.kind = "launch", !.run = q]
    /\ missed' = FALSE
    /\ UNCHANGED <<runVars, queueVars, turnVars, laneVars, notices, messageVars, spent>>

-----------------------------------------------------------------------------
(* Commands, second half: the commit, which does not read again.           *)

\* Mutant: the follow-up leaves its steer effect in the lane.
SettleFollowUp_Keeps ==
    [lane |-> lane, step |-> IF step.at = "followup" THEN Idle ELSE step]

\* The dispatch made by a steer effect's executor settles that effect.
SettleFollowUp ==
    IF step.at = "followup" /\ Head(lane).msg = plan.msg
    THEN [lane |-> Tail(lane), step |-> Idle]
    ELSE [lane |-> lane, step |-> step]

CommitQueue ==
    /\ Committing({"queue"})
    /\ status' = [status EXCEPT ![plan.run] = "queued"]
    /\ prompt' = [prompt EXCEPT ![<<plan.run, 1>>] = plan.msg]
    /\ owner' = [owner EXCEPT ![plan.msg] = plan.run]
    /\ line' = Append(line, plan.run)
    /\ held' = IF plan.hold THEN held \cup {plan.run} ELSE held
    /\ lane' = SettleFollowUp.lane
    /\ step' = SettleFollowUp.step
    /\ plan' = NoPlan
    /\ UNCHANGED <<attempt, class, last, turnVars, captured, endVars, given, forfeit, spent>>
    /\ Overtakes

CommitBegin ==
    /\ Committing({"begin", "prepare"})
    /\ status' = [status EXCEPT ![plan.run] =
                    IF plan.kind = "begin" THEN "starting" ELSE "preparing"]
    /\ prompt' = [prompt EXCEPT ![<<plan.run, 1>>] = plan.msg]
    /\ owner' = [owner EXCEPT ![plan.msg] = plan.run]
    /\ lane' = SettleFollowUp.lane \o
                 IF plan.kind = "begin" THEN <<Effect("start", plan.run, 1, 0)>> ELSE << >>
    /\ step' = SettleFollowUp.step
    /\ plan' = NoPlan
    /\ UNCHANGED <<attempt, class, last, queueVars, turnVars, captured, endVars, given, forfeit, spent>>
    /\ Overtakes

\* A promoted message leaves the queue: its queued run is cancelled.
LeaveQueue(s, q) ==
    IF q = 0 THEN s ELSE [s EXCEPT ![q] = "cancelled"]

CommitJoin ==
    /\ Committing({"steer", "restart"})
    /\ LET next == NextAttempt(plan.run)
           left == LeaveQueue(status, plan.from)
       IN  IF plan.kind = "steer"
           THEN /\ status' = left
                /\ lane' = Append(lane, Effect("steer", plan.run, plan.att, plan.msg))
                /\ UNCHANGED <<attempt, prompt>>
           ELSE /\ status' = [left EXCEPT ![plan.run] = "starting"]
                /\ attempt' = [attempt EXCEPT ![plan.run] = next]
                /\ prompt' = [prompt EXCEPT ![<<plan.run, next>>] = plan.msg]
                /\ lane' = Append(lane, Effect("restart", plan.run, plan.att, 0))
    /\ owner' = [owner EXCEPT ![plan.msg] = plan.run]
    /\ held' = held \ {plan.from}
    /\ line' = Without(line, plan.from)
    /\ notices' = IF plan.from = 0 THEN notices ELSE Append(notices, plan.from)
    /\ plan' = NoPlan
    /\ UNCHANGED <<class, last, turnVars, step, captured, missed, given, forfeit, spent>>
    /\ Overtakes

\* The commit cancels the thread's unsettled starts and signals the executor,
\* which may have called the provider by then.
CommitStop ==
    /\ Committing({"stop"})
    /\ End(plan.run, "interrupted", "none")
    /\ held' = IF plan.hold THEN Queued ELSE held
    /\ LET busy == lane # << >> /\ step.at # "idle" /\ Head(lane).kind \in Starts
           x == <<step.run, step.att>>
       IN  /\ lane' = Only(lane, EffectsOf(Others))
           /\ step' = IF busy THEN Idle ELSE step
           /\ \/ UNCHANGED <<turn, given>>
              \/ /\ busy
                 /\ step.at = "cleared"
                 /\ turn' = [turn EXCEPT ![x] = "begun"]
                 /\ given' = [given EXCEPT ![prompt[x]] = @ + 1]
    /\ plan' = NoPlan
    /\ UNCHANGED <<attempt, prompt, line, ending, asked, captured, missed, owner, forfeit, spent>>
    /\ Overtakes

CommitInterrupt ==
    /\ Committing({"interrupt"})
    /\ lane' = Append(lane, Effect("interrupt", plan.run, plan.att, 0))
    /\ held' = IF plan.hold THEN Queued ELSE held
    /\ plan' = NoPlan
    /\ UNCHANGED <<runVars, line, turnVars, step, captured, endVars, messageVars, spent>>

\* Mutant: the queue is released and not advanced.
CommitResume_ReleasesOnly ==
    /\ Committing({"resume"})
    /\ held' = {}
    /\ plan' = NoPlan
    /\ UNCHANGED <<runVars, line, turnVars, laneVars, endVars, messageVars, spent>>

\* queue.resume releases the queue and starts its head under the same lock.
CommitResume ==
    /\ Committing({"resume"})
    /\ held' = {}
    /\ plan' = [NoPlan EXCEPT !.kind = "advance"]
    /\ UNCHANGED <<runVars, line, turnVars, laneVars, endVars, messageVars, spent>>

CommitCancel ==
    /\ Committing({"cancel"})
    /\ status' = [status EXCEPT ![plan.run] = "cancelled"]
    /\ held' = held \ {plan.run}
    /\ line' = Without(line, plan.run)
    /\ notices' = Append(notices, plan.run)
    /\ plan' = NoPlan
    /\ UNCHANGED <<attempt, prompt, class, last, turnVars, laneVars, missed, messageVars, spent>>
    /\ Overtakes

CommitReorder ==
    /\ Committing({"reorder"})
    /\ LET rest == Without(line, plan.run)
       IN  \E i \in 1 .. Len(line) : line' = InsertAt(rest, i, plan.run)
    /\ plan' = NoPlan
    /\ UNCHANGED <<runVars, held, turnVars, laneVars, endVars, messageVars, spent>>

CommitPrepared ==
    /\ Committing({"release", "fail", "retry"})
    /\ \/ /\ plan.kind = "release"
          /\ status' = [status EXCEPT ![plan.run] = "starting"]
          /\ lane' = Append(lane, Effect("start", plan.run, 1, 0))
          /\ UNCHANGED <<class, last, notices>>
       \/ /\ plan.kind = "fail"
          /\ End(plan.run, "failed", "workspace")
          /\ UNCHANGED lane
       \/ /\ plan.kind = "retry"
          /\ status' = [status EXCEPT ![plan.run] = "preparing"]
          /\ class' = [class EXCEPT ![plan.run] = "none"]
          /\ UNCHANGED <<last, notices, lane>>
    /\ plan' = NoPlan
    /\ UNCHANGED <<attempt, prompt, queueVars, turnVars, step, captured, missed, messageVars,
                   spent>>
    /\ Overtakes

\* A provider that just failed would fail the next message too.
CommitHold ==
    /\ Committing({"hold"})
    /\ held' = Queued
    /\ plan' = NoPlan
    /\ UNCHANGED <<runVars, line, turnVars, laneVars, endVars, messageVars, spent>>

\* The head of the queue starts, or fails to (failQueuedRunStart).
CommitLaunch ==
    /\ Committing({"launch"})
    /\ \/ /\ status' = [status EXCEPT ![plan.run] = "starting"]
          /\ lane' = Append(lane, Effect("start", plan.run, 1, 0))
          /\ UNCHANGED <<class, last, notices>>
       \/ /\ \E c \in {"provider", "validation"} : End(plan.run, "failed", c)
          /\ UNCHANGED lane
    /\ line' = Without(line, plan.run)
    /\ plan' = NoPlan
    /\ UNCHANGED <<attempt, prompt, held, turnVars, step, captured, missed, messageVars, spent>>
    /\ Overtakes

Commit ==
    \/ ReadQueue \/ CommitQueue \/ CommitBegin \/ CommitJoin \/ CommitStop
    \/ CommitInterrupt \/ CommitResume \/ CommitCancel \/ CommitReorder
    \/ CommitPrepared \/ CommitHold \/ CommitLaunch

-----------------------------------------------------------------------------
(* The executor of the first effect of the lane.                           *)

At(kind, at) ==
    /\ lane # << >>
    /\ Head(lane).kind \in kind
    /\ step.at = at

\* Mutant: one execution too many.
LastTry_OneMore == Head(lane).tries = MaxTries

Settle == lane' = Tail(lane) /\ step' = Idle
LastTry == Head(lane).tries + 1 = MaxTries

\* Mutant: the executions are not counted.
TryAgain_Forever == UNCHANGED lane /\ step' = Idle

TryAgain ==
    IF LastTry THEN Settle
    ELSE lane' = [lane EXCEPT ![1].tries = @ + 1] /\ step' = Idle

\* writeIfRunCurrent: the run still has the status and attempt.
IsCurrent(r, a, s) == status[r] = s /\ attempt[r] = a

\* A start does nothing once its run has moved on.
LoadRun ==
    LET r == Head(lane).run
    IN  IF status[r] = "starting"
        THEN /\ step' = [at |-> "opening", run |-> r, att |-> attempt[r], was |-> "starting"]
             /\ UNCHANGED lane
        ELSE Settle

\* Mutant: the restart does not wait for the turn it interrupted.
StartLoads_DoesNotWait ==
    /\ At({"start"}, "idle") \/ At({"restart"}, "awaiting")
    /\ LoadRun
    /\ UNCHANGED <<runVars, queueVars, turnVars, captured, endVars, plan, messageVars, spent>>

StartLoads ==
    /\ \/ At({"start"}, "idle")
       \/ /\ At({"restart"}, "awaiting")
          /\ turn[<<Head(lane).run, Head(lane).att>>] # "running"
    /\ LoadRun
    /\ UNCHANGED <<runVars, queueVars, turnVars, captured, endVars, plan, messageVars, spent>>

RestartInterrupts ==
    /\ At({"restart"}, "idle")
    /\ LET x == <<Head(lane).run, Head(lane).att>>
       IN  asked' = IF turn[x] = "running" THEN asked \cup {x} ELSE asked
    /\ step' = [Idle EXCEPT !.at = "awaiting"]
    /\ UNCHANGED <<runVars, queueVars, turn, ending, lane, captured, endVars, plan,
                   messageVars, spent>>

\* The turn did not end within the executor's polls.
RestartTimesOut ==
    /\ At({"restart"}, "awaiting")
    /\ turn[<<Head(lane).run, Head(lane).att>>] = "running"
    /\ TryAgain
    /\ UNCHANGED <<runVars, queueVars, turnVars, captured, endVars, plan, messageVars, spent>>

SessionOpens ==
    /\ At(Starts, "opening")
    /\ IF IsCurrent(step.run, step.att, "starting")
       THEN /\ status' = [status EXCEPT ![step.run] = "running"]
            /\ step' = [step EXCEPT !.at = "opened"]
            /\ UNCHANGED lane
       ELSE Settle /\ UNCHANGED status
    /\ UNCHANGED <<attempt, prompt, class, last, queueVars, turnVars, captured, endVars,
                   plan, messageVars, spent>>
    /\ Overtakes

\* The start fails before its run is running: only a session that does not open
\* and a thread the provider does not load end the run, on the last try.
SessionFails ==
    /\ At(Starts, "opening")
    /\ \/ /\ LastTry
          /\ IsCurrent(step.run, step.att, "starting")
          /\ End(step.run, "failed", "provider")
       \/ UNCHANGED <<status, class, last, notices>>
    /\ TryAgain
    /\ UNCHANGED <<attempt, prompt, queueVars, turnVars, captured, missed, plan, messageVars, spent>>
    /\ Overtakes

\* shouldStartProviderTurn, the last look at the run before the provider is called.
TurnClears ==
    /\ At(Starts, "opened")
    /\ IF IsCurrent(step.run, step.att, "running")
       THEN step' = [step EXCEPT !.at = "cleared"] /\ UNCHANGED lane
       ELSE Settle
    /\ UNCHANGED <<runVars, queueVars, turnVars, captured, endVars, plan, messageVars, spent>>

TurnBegins ==
    /\ At(Starts, "cleared")
    /\ LET x == <<step.run, step.att>>
       IN  /\ turn' = [turn EXCEPT ![x] = "begun"]
           /\ given' = [given EXCEPT ![prompt[x]] = @ + 1]
    /\ Settle
    /\ UNCHANGED <<runVars, queueVars, ending, asked, captured, endVars, plan, owner, forfeit, spent>>

TurnRefused ==
    /\ At(Starts, "cleared")
    /\ IF IsCurrent(step.run, step.att, "running")
       THEN End(step.run, "failed", "provider")
       ELSE UNCHANGED <<status, class, last, notices>>
    /\ Settle
    /\ UNCHANGED <<attempt, prompt, queueVars, turnVars, captured, missed, plan, messageVars, spent>>
    /\ Overtakes

\* The start fails once its run is running, and with it the write that would
\* have ended the run: the next try finds the run no longer starting.
StartFails ==
    /\ At(Starts, "opened") \/ At(Starts, "cleared")
    /\ TryAgain
    /\ UNCHANGED <<runVars, queueVars, turnVars, captured, endVars, plan, messageVars, spent>>

\* Mutant: a message for a turn that completed meanwhile is dropped.
Steer_DropsLate ==
    /\ At({"steer"}, "idle")
    /\ LET e == Head(lane)
       IN  given' = IF turn[<<e.run, e.att>>] = "running"
                    THEN [given EXCEPT ![e.msg] = @ + 1] ELSE given
    /\ Settle
    /\ UNCHANGED <<runVars, queueVars, turnVars, captured, endVars, plan, owner, forfeit, spent>>

\* A message for a turn that completed meanwhile is dispatched again.
Steer ==
    /\ At({"steer"}, "idle")
    /\ LET e == Head(lane)
           x == <<e.run, e.att>>
       IN  \/ /\ turn[x] = "running"
              /\ given' = [given EXCEPT ![e.msg] = @ + 1]
              /\ Settle
              /\ UNCHANGED forfeit
           \/ /\ \/ turn[x] = "running"
                 \/ turn[x] # "running" /\ ending[x] # "completed"
              /\ TryAgain
              /\ forfeit' = IF LastTry THEN forfeit \cup {e.msg} ELSE forfeit
              /\ UNCHANGED given
           \/ /\ turn[x] # "running"
              /\ ending[x] = "completed"
              /\ step' = [Idle EXCEPT !.at = "followup"]
              /\ UNCHANGED <<lane, given, forfeit>>
    /\ UNCHANGED <<runVars, queueVars, turnVars, captured, endVars, plan, owner, spent>>

FollowUp ==
    /\ At({"steer"}, "followup")
    /\ LockFree
    /\ NextRun \in Fresh
    /\ plan' = FreshPlan(Head(lane).msg, "begin")
    /\ Reads
    /\ UNCHANGED spent

Interrupt ==
    /\ At({"interrupt"}, "idle")
    /\ LET x == <<Head(lane).run, Head(lane).att>>
       IN  asked' = IF turn[x] = "running" THEN asked \cup {x} ELSE asked
    /\ Settle
    /\ UNCHANGED <<runVars, queueVars, turn, ending, captured, endVars, plan, messageVars, spent>>

CaptureLoads ==
    /\ At({"capture"}, "idle")
    /\ LET r == Head(lane).run
       IN  IF status[r] \in {"waiting", "interrupted", "cancelled"}
           THEN /\ step' = [at |-> "capturing", run |-> r, att |-> attempt[r], was |-> status[r]]
                /\ UNCHANGED lane
           ELSE IF status[r] = "completed" THEN Settle ELSE TryAgain
    /\ UNCHANGED <<runVars, queueVars, turnVars, captured, endVars, plan, messageVars, spent>>

\* The commit writes the run as it was loaded.
CaptureCommits ==
    /\ At({"capture"}, "capturing")
    /\ LET r == step.run
       IN  /\ attempt' = [attempt EXCEPT ![r] = step.att]
           /\ status' = [status EXCEPT ![r] =
                           IF step.was = "waiting" THEN "completed" ELSE step.was]
           /\ last' = IF step.was = "waiting" THEN r ELSE last
           /\ notices' = Append(notices, r)
    /\ Settle
    /\ UNCHANGED <<prompt, class, queueVars, turnVars, captured, missed, plan, messageVars, spent>>
    /\ Overtakes

\* Capturing the workspace or a store fails: nothing ends the run.
CaptureFails ==
    /\ At({"capture"}, "idle") \/ At({"capture"}, "capturing")
    /\ TryAgain
    /\ UNCHANGED <<runVars, queueVars, turnVars, captured, endVars, plan, messageVars, spent>>

Worker ==
    \/ StartLoads \/ RestartInterrupts \/ RestartTimesOut \/ SessionOpens \/ SessionFails
    \/ TurnClears \/ TurnBegins \/ TurnRefused \/ StartFails \/ Steer \/ FollowUp \/ Interrupt
    \/ CaptureLoads \/ CaptureCommits \/ CaptureFails

-----------------------------------------------------------------------------
(* Provider turns and the fibers that ingest their events.                 *)

TurnProjected(x) ==
    /\ turn[x] = "begun"
    /\ turn' = [turn EXCEPT ![x] = "running"]
    /\ UNCHANGED <<runVars, queueVars, ending, asked, laneVars, endVars, plan, messageVars, spent>>

TurnEnds(x) ==
    /\ turn[x] = "running"
    /\ turn' = [turn EXCEPT ![x] = "ended"]
    /\ \E how \in {"completed", "failed"} \cup (IF x \in asked THEN {"interrupted"} ELSE {}) :
          ending' = [ending EXCEPT ![x] = how]
    /\ UNCHANGED <<runVars, queueVars, asked, laneVars, endVars, plan, messageVars, spent>>

\* Mutant: the fiber ends the run whoever ended it before.
Decide_IgnoresStatus(x) ==
    /\ turn[x] = "ended"
    /\ turn' = [turn EXCEPT ![x] = IF Current(x[1]) = x THEN "deciding" ELSE "done"]
    /\ UNCHANGED <<runVars, queueVars, ending, asked, laneVars, endVars, plan, messageVars, spent>>

\* shouldFinalizeRun reads the run; a superseded attempt leaves it alone.
Decide(x) ==
    /\ turn[x] = "ended"
    /\ turn' = [turn EXCEPT ![x] =
                  IF Current(x[1]) = x /\ status[x[1]] \in {"starting", "running"}
                  THEN "deciding" ELSE "done"]
    /\ UNCHANGED <<runVars, queueVars, ending, asked, laneVars, endVars, plan, messageVars, spent>>

\* writeFinalRunEvents writes the run as the attempt started it.
Finalize(x) ==
    LET r == x[1]
    IN  /\ turn[x] = "deciding"
        /\ turn' = [turn EXCEPT ![x] = "done"]
        /\ attempt' = [attempt EXCEPT ![r] = x[2]]
        /\ \/ /\ ending[x] = "completed"
              /\ status' = [status EXCEPT ![r] = "waiting"]
              /\ UNCHANGED <<class, last, notices>>
           \/ /\ ending[x] = "interrupted"
              /\ End(r, "interrupted", "none")
           \/ /\ ending[x] = "failed"
              /\ \E c \in {"provider", "limit"} : End(r, "failed", c)
        /\ IF ending[x] = "failed" \/ r \in captured
           THEN UNCHANGED <<lane, captured>>
           ELSE /\ lane' = Append(lane, Effect("capture", r, x[2], 0))
                /\ captured' = captured \cup {r}
        /\ UNCHANGED <<prompt, queueVars, ending, asked, step, missed, plan, messageVars, spent>>
        /\ Overtakes

-----------------------------------------------------------------------------
(* The server process ends and the next one recovers before it serves.     *)

ServerRestarts ==
    /\ Spare(spent.restarts, MaxRestarts)
    /\ spent' = [spent EXCEPT !.restarts = @ + 1]
    /\ LET captures == Only(lane, EffectsOf({"capture"}))
           replayed == {captures[i].run : i \in DOMAIN captures}
           lost     == {r \in BlockingRuns : status[r] = "waiting" => r \notin replayed}
           begun    == {r \in lost : status[r] \in {"running", "waiting"} \/ attempt[r] > 1}
       IN  /\ status' = [r \in Runs |-> IF r \in lost THEN "cancelled" ELSE status[r]]
           /\ last' = IF begun = {} THEN last ELSE CHOOSE r \in begun : \A o \in begun : o <= r
           /\ lane' = captures
    /\ forfeit' = forfeit \cup {lane[i].msg : i \in {j \in DOMAIN lane : lane[j].kind = "steer"}}
    /\ held' = Queued
    /\ step' = Idle
    /\ turn' = [x \in Runs \X Attempts |-> IF turn[x] = "none" THEN "none" ELSE "done"]
    /\ ending' = [x \in Runs \X Attempts |->
                    IF turn[x] \in {"begun", "running"} THEN "interrupted" ELSE ending[x]]
    /\ notices' = << >>
    /\ missed' = FALSE
    /\ plan' = NoPlan
    /\ UNCHANGED <<attempt, prompt, class, line, asked, captured, owner, given>>
    /\ Overtakes

-----------------------------------------------------------------------------

Ingestion(x) == TurnProjected(x) \/ TurnEnds(x) \/ Decide(x) \/ Finalize(x)

Next ==
    \/ SendFresh \/ SendJoining \/ Stop \/ Edit
    \/ Prepared \/ Listen \/ Lose \/ Commit
    \/ Worker
    \/ \E x \in Attempted : Ingestion(x)
    \/ ServerRestarts

\* Every fiber of the server that can step does, a provider ends the turns it
\* runs, and the launch service reports on the workspaces it prepares.  Clients
\* owe nothing and no restart has to come.
Server   == Commit \/ Listen \/ Prepared \/ Worker \/ \E x \in Attempted : Ingestion(x)
Fairness == WF_vars(Server)

Spec == Init /\ [][Next]_vars /\ Fairness

-----------------------------------------------------------------------------
(* Properties.                                                             *)

\* At most one run of the thread is preparing, starting, running or waiting,
\* beside the runs a write decided earlier brought back: queued messages,
\* follow-ups and fresh ones never start next to a run that a command, an
\* executor or an ingestion fiber is still moving.
OneBlockingRun == \A r, o \in BlockingRuns \ overtaken : r = o

\* At most one provider turn works for runs that have not ended and that no late
\* write brought back: a restart effect waits for the turn it replaces, and a
\* start left in the lane for a run that moved on starts nothing.
OneTurn ==
    Cardinality({x \in Attempted : /\ turn[x] \in {"begun", "running"}
                                   /\ status[x[1]] \notin Terminal
                                   /\ x[1] \notin overtaken}) <= 1

\* The queue is held as a whole: no order of sends, stops, failures, restarts
\* and resumes leaves some queued runs held and others not, of which only the
\* second kind would start when the thread is free.
HeldTogether == held = {} \/ held = Queued

\* A queued run that is not held is always somebody's to start: a run is in its
\* way, or the listener has an end to handle, or a command holds the lock, or
\* the usage limit blocks the thread.  A message nobody will start takes an end
\* that never got to the listener, or that the listener failed to handle, and
\* stays only until the queue is read again.
NeverStranded ==
    \/ Queued \ held = {}
    \/ BlockingRuns # {}
    \/ LimitBlocked
    \/ notices # << >>
    \/ plan # NoPlan
    \/ missed

\* No message reaches a provider twice, whatever is retried, restarted or
\* dispatched again as a follow-up.
GivenOnce == \A m \in Messages : given[m] <= 1

\* A message is not lost behind a run that goes on: one that no provider has
\* is in the lane, or its run ended without completing, or waits to start, or
\* its steer effect was given up or discarded by a restart, or a late write
\* brought its run back.
Accounted ==
    \A m \in Messages \ forfeit :
        (owner[m] # 0 /\ given[m] = 0) =>
            \/ \E i \in DOMAIN lane : lane[i].msg = m
            \/ status[owner[m]] \notin {"waiting", "completed"}
            \/ owner[m] \in overtaken

\* A run that ended keeps the status it ended with, whatever executor, capture
\* or ingestion fiber still has it in hand, and only a retry of a failed
\* workspace preparation starts over.  What can bring an ended run back is a
\* write decided before the run ended: Stop, a restart and the end of a turn
\* write the run as it was read, whatever became of it since.
EndedStaysEnded ==
    [][\A r \in Runs \ overtaken : status[r] \in Terminal =>
          \/ status'[r] = status[r]
          \/ class[r] = "workspace" /\ status'[r] = "preparing"]_vars

\* A run nothing moves any more, which blocks the thread until the user stops it
\* or the server restarts: its start was dropped, before the run was running or
\* after, or its capture was.  Stop does not take a waiting run.
Abandoned(r) ==
    LET kinds == {lane[i].kind : i \in {j \in DOMAIN lane : lane[j].run = r}}
    IN  \/ status[r] = "starting" /\ Starts \cap kinds = {}
        \/ status[r] = "running" /\ turn[Current(r)] = "none"
        \/ status[r] = "waiting" /\ r \in captured /\ "capture" \notin kinds

AtRest ==
    /\ lane = << >>
    /\ notices = << >>
    /\ plan = NoPlan
    /\ \A r \in BlockingRuns : Abandoned(r)
    /\ BlockingRuns # {} \/ Queued = held \/ LimitBlocked \/ missed

\* When the clients are done, every effect settles, every run ends or is
\* abandoned by a start or a capture that was given up, and every queued message
\* has been started, is held for the user, waits behind an abandoned run or for
\* an end nobody handled; no two parts wait for each other.
ComesToRest == []<>AtRest

\* Stop ends the turn that works for the thread: a run that ended as interrupted
\* has no running turn of an attempt it left behind that was not asked to stop
\* (docs/user/keybindings.md:123).  Stop after a restart was committed and
\* before its effect runs finds no running turn for the new attempt and ends
\* the run without an interrupt.
StopReachesTheTurn ==
    \A x \in Attempted :
        (turn[x] = "running" /\ status[x[1]] = "interrupted" /\ x # Current(x[1])) => x \in asked

=============================================================================
