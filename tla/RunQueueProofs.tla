--------------------------- MODULE RunQueueProofs ---------------------------
(***************************************************************************)
(* Theorems about RunQueue, for every number of runs, attempts, messages,  *)
(* tries, stops, edits, restarts and lost ends, every way to send and      *)
(* every interleaving of commands, executors and ingestion fibers.         *)
(***************************************************************************)
EXTENDS RunQueue, TLAPS

Started(r) == r \in Runs /\ status[r] \notin {"none", "queued"}

\* The types the invariants rest on.
Types ==
    /\ status \in [Runs -> Statuses]
    /\ held \in SUBSET Runs
    /\ turn \in [Attempted -> TurnStages]
    /\ step = [at |-> step.at, run |-> step.run, att |-> step.att, was |-> step.was]

\* What the holder of the lock read is still so when it commits.
PlanHolds ==
    /\ plan.kind = "queue" => plan.hold = (held # {})
    /\ plan.kind \in {"queue", "begin", "prepare"} => plan.run \in Fresh
    /\ plan.kind = "launch" => held = {}
    /\ plan.kind \in {"steer", "restart", "stop", "release", "fail", "retry"} => Started(plan.run)

\* The executor works for a run that has started.
StepHolds ==
    /\ (step.at \in {"opening", "opened", "cleared", "capturing"} /\ step.run \in Runs) =>
          Started(step.run)
    /\ step.at = "capturing" => step.was \in {"waiting", "interrupted", "cancelled"}

\* A queued run has no turn.
TurnHolds == \A x \in Attempted : turn[x] # "none" => Started(x[1])

HInv == Types /\ HeldTogether /\ PlanHolds /\ StepHolds /\ TurnHolds

\* Status moves no run into or out of the queue.
QueueStays ==
    /\ status' \in [Runs -> Statuses]
    /\ \A r \in Runs : status'[r] = status[r] \/ (Started(r) /\ Started(r)')

LEMMA QueueStaysFacts ==
    ASSUME Types, QueueStays
    PROVE  /\ Queued' = Queued
           /\ Fresh' = Fresh
           /\ \A r : Started(r) => Started(r)'
  BY DEF Types, QueueStays, Queued, Fresh, Started

\* The provider turn an executor begins is one of a run that has started.
LEMMA TurnBegun ==
    ASSUME Types, StepHolds, step.at = "cleared",
           turn' = [turn EXCEPT ![<<step.run, step.att>>] = "begun"]
    PROVE  /\ turn' \in [Attempted -> TurnStages]
           /\ \A x \in Attempted : turn'[x] # "none" => (turn[x] # "none" \/ Started(x[1]))
  <1>1. turn' \in [Attempted -> TurnStages]
    BY DEF Types, TurnStages
  <1>2. ASSUME NEW x \in Attempted, turn'[x] # turn[x]
        PROVE  Started(x[1])
    <2>1. x = <<step.run, step.att>>
      BY <1>2 DEF Types
    <2>2. x[1] \in Runs
      BY DEF Attempted
    <2> QED
      BY <2>1, <2>2 DEF StepHolds
  <1> QED
    BY <1>1, <1>2

\* The executors and the fibers leave the queue and the plan alone.
LEMMA OutsideTheLock ==
    ASSUME HInv, QueueStays, UNCHANGED <<held, plan>>,
           Types', StepHolds',
           \A x \in Attempted : turn'[x] # "none" => (turn[x] # "none" \/ Started(x[1]))
    PROVE  HInv'
  <1>1. /\ Queued' = Queued
        /\ Fresh' = Fresh
        /\ \A r : Started(r) => Started(r)'
    BY QueueStaysFacts DEF HInv
  <1>2. HeldTogether'
    BY <1>1 DEF HInv, HeldTogether
  <1>3. PlanHolds'
    BY <1>1 DEF HInv, PlanHolds
  <1>4. TurnHolds'
    BY <1>1 DEF HInv, TurnHolds
  <1> QED
    BY <1>2, <1>3, <1>4 DEF HInv

\* The first half of a command, and the read of the queue, change nothing but
\* the plan and what is known of the ends.
Looks == UNCHANGED <<runVars, queueVars, turnVars, laneVars, notices, messageVars>>

LEMMA ReadsLook == Reads => Looks /\ UNCHANGED missed
  BY DEF Reads, Looks, endVars

LEMMA UnderTheLock ==
    ASSUME HInv, Looks, PlanHolds'
    PROVE  HInv'
  BY DEF HInv, Looks, runVars, queueVars, turnVars, laneVars, messageVars, Types, HeldTogether,
         StepHolds, TurnHolds, Started, Queued

LEMMA FreshPlanHolds ==
    ASSUME NEW m, NEW kind \in {"begin", "prepare"}, NextRun \in Fresh,
           plan' = FreshPlan(m, kind), UNCHANGED <<status, held>>
    PROVE  PlanHolds'
  BY DEF FreshPlan, NoPlan, PlanHolds, Fresh, Started

LEMMA CommandsRead ==
    ASSUME HInv, SendFresh \/ SendJoining \/ Stop \/ Edit \/ Prepared \/ FollowUp
    PROVE  HInv'
  <1>1. CASE SendFresh
    <2>1. PICK kind \in {"begin", "prepare"} : plan' = FreshPlan(NextMessage, kind)
      BY <1>1 DEF SendFresh
    <2>2. NextRun \in Fresh /\ Reads
      BY <1>1 DEF SendFresh
    <2> QED
      BY <2>1, <2>2, FreshPlanHolds, ReadsLook, UnderTheLock DEF Reads, runVars, queueVars
  <1>2. CASE SendJoining
    <2>1. PICK r \in Runs : /\ Steerable(r)
                            /\ plan'.kind \in {"steer", "restart"} /\ plan'.run = r
      BY <1>2 DEF SendJoining, JoinPlan, NoPlan
    <2>2. plan'.kind \in {"steer", "restart"} /\ plan'.run = r
      BY <2>1
    <2>3. Reads /\ Started(r)'
      BY <1>2, <2>1 DEF SendJoining, Reads, runVars, Steerable, Started
    <2> QED
      BY <2>2, <2>3, ReadsLook, UnderTheLock DEF PlanHolds
  <1>3. CASE Stop
    <2>1. PICK r \in Runs, hold \in BOOLEAN :
            /\ \/ turn[Current(r)] = "running"
               \/ status[r] \in {"preparing", "starting", "running"}
            /\ plan' = [NoPlan EXCEPT
                          !.kind = IF turn[Current(r)] = "running" THEN "interrupt" ELSE "stop",
                          !.run = r, !.att = attempt[r], !.hold = hold]
      BY <1>3 DEF Stop
    <2>2. plan'.kind = "stop" => Started(r) /\ plan'.run = r
      BY <2>1 DEF NoPlan, Started
    <2>3. Reads /\ plan'.kind \in {"interrupt", "stop"}
      BY <1>3, <2>1 DEF Stop, NoPlan
    <2> QED
      BY <2>2, <2>3, ReadsLook, UnderTheLock DEF PlanHolds, Reads, runVars, Started
  <1>4. CASE Edit
    <2>1. Reads
      BY <1>4 DEF Edit
    <2>2. \/ plan'.kind \in {"resume", "cancel", "reorder"}
          \/ plan'.kind = "retry" /\ Started(plan'.run)
      BY <1>4 DEF Edit, NoPlan, Started
    <2> QED
      BY <2>1, <2>2, ReadsLook, UnderTheLock DEF PlanHolds, Reads, runVars, Started
  <1>5. CASE Prepared
    <2>1. Reads
      BY <1>5 DEF Prepared
    <2>2. plan'.kind \in {"release", "fail"} /\ Started(plan'.run)
      BY <1>5 DEF Prepared, NoPlan, Started
    <2> QED
      BY <2>1, <2>2, ReadsLook, UnderTheLock DEF PlanHolds, Reads, runVars, Started
  <1>6. CASE FollowUp
    <2>1. Reads /\ NextRun \in Fresh /\ plan' = FreshPlan(Head(lane).msg, "begin")
      BY <1>6 DEF FollowUp
    <2> QED
      BY <2>1, FreshPlanHolds, ReadsLook, UnderTheLock DEF Reads, runVars, queueVars
  <1> QED
    BY <1>1, <1>2, <1>3, <1>4, <1>5, <1>6

\* A command that ends with nothing planned keeps the invariant if it keeps
\* the queue held as a whole and moves no run with a turn back.
LEMMA CommitKeeps ==
    ASSUME HInv, plan' = NoPlan, status' \in [Runs -> Statuses],
           \A r : Started(r) => Started(r)',
           held' \in SUBSET Runs, HeldTogether',
           step' \in {step, Idle},
           turn' \in [Attempted -> TurnStages],
           \A x \in Attempted : turn'[x] # "none" => (turn[x] # "none" \/ Started(x[1]))
    PROVE  HInv'
  <1>1. Types'
    BY DEF HInv, Types, Idle
  <1>2. PlanHolds'
    BY DEF PlanHolds, NoPlan
  <1>3. StepHolds'
    BY DEF HInv, StepHolds, Idle
  <1>4. TurnHolds'
    BY DEF HInv, TurnHolds
  <1> QED
    BY <1>1, <1>2, <1>3, <1>4 DEF HInv

\* So does one that moves only started runs, and holds or releases the queue
\* as a whole.
LEMMA CommitOfStarted ==
    ASSUME HInv, plan' = NoPlan, QueueStays,
           held' \in {held, {}, Queued}, step' \in {step, Idle},
           turn' \in [Attempted -> TurnStages],
           \A x \in Attempted : turn'[x] # "none" => (turn[x] # "none" \/ Started(x[1]))
    PROVE  HInv'
  <1>1. /\ Queued' = Queued
        /\ \A r : Started(r) => Started(r)'
    BY QueueStaysFacts DEF HInv
  <1>2. held' \in SUBSET Runs /\ HeldTogether'
    BY <1>1 DEF HInv, Types, HeldTogether, Queued
  <1> QED
    BY <1>1, <1>2, CommitKeeps DEF QueueStays

LEMMA CommitsHold ==
    ASSUME HInv, Commit
    PROVE  HInv'
  <1> USE DEF Committing
  <1>t. Types /\ HeldTogether /\ PlanHolds /\ StepHolds /\ TurnHolds
    BY DEF HInv
  <1>1. CASE ReadQueue
    <2>1. Looks
      BY <1>1 DEF ReadQueue, Looks
    <2>2. CASE plan' = NoPlan
      BY <2>1, <2>2, UnderTheLock DEF PlanHolds, NoPlan
    <2>3. CASE plan' = [NoPlan EXCEPT !.kind = "hold"]
      BY <2>1, <2>3, UnderTheLock DEF PlanHolds, NoPlan
    <2>4. CASE ~NothingToStart /\ \E q \in Queued : plan' = [NoPlan EXCEPT !.kind = "launch", !.run = q]
      <3>1. held = {} /\ plan'.kind = "launch"
        BY <2>4 DEF NothingToStart, NoPlan
      <3> QED
        BY <2>1, <3>1, UnderTheLock DEF PlanHolds, Looks, queueVars
    <2> QED
      BY <1>1, <2>2, <2>3, <2>4 DEF ReadQueue
  <1>2. CASE CommitQueue
    <2>1. /\ plan.hold = (held # {})
          /\ plan.run \in Runs /\ status[plan.run] = "none"
          /\ status' = [status EXCEPT ![plan.run] = "queued"]
          /\ held' = IF plan.hold THEN held \cup {plan.run} ELSE held
          /\ plan' = NoPlan /\ turn' = turn /\ step' \in {step, Idle}
      BY <1>t, <1>2 DEF CommitQueue, PlanHolds, SettleFollowUp, turnVars, Fresh
    <2>2. status' \in [Runs -> Statuses] /\ \A r : Started(r) => Started(r)'
      BY <1>t, <2>1 DEF Types, Statuses, Started
    <2>3. Queued' = Queued \cup {plan.run}
      BY <1>t, <2>1 DEF Types, Queued
    <2>4. held' \in SUBSET Runs /\ HeldTogether'
      BY <1>t, <2>1, <2>3 DEF Types, HeldTogether
    <2> QED
      BY <1>t, <2>1, <2>2, <2>4, CommitKeeps DEF Types
  <1>3. CASE CommitBegin
    <2>1. /\ plan.run \in Runs /\ status[plan.run] = "none"
          /\ \E to \in {"starting", "preparing"} : status' = [status EXCEPT ![plan.run] = to]
          /\ held' = held /\ plan' = NoPlan /\ turn' = turn /\ step' \in {step, Idle}
      BY <1>t, <1>3 DEF CommitBegin, PlanHolds, SettleFollowUp, queueVars, turnVars, Fresh
    <2>2. /\ status' \in [Runs -> Statuses] /\ \A r : Started(r) => Started(r)'
          /\ Queued' = Queued
      BY <1>t, <2>1 DEF Types, Statuses, Blocking, Started, Queued
    <2>3. held' \in SUBSET Runs /\ HeldTogether'
      BY <1>t, <2>1, <2>2 DEF Types, HeldTogether
    <2> QED
      BY <1>t, <2>1, <2>2, <2>3, CommitKeeps DEF Types
  <1>4. CASE CommitJoin
    <2>1. /\ Started(plan.run)
          /\ held' = held \ {plan.from}
          /\ plan' = NoPlan /\ turn' = turn /\ step' = step
      BY <1>t, <1>4 DEF CommitJoin, PlanHolds, turnVars
    <2>2. \/ status' = LeaveQueue(status, plan.from)
          \/ status' = [LeaveQueue(status, plan.from) EXCEPT ![plan.run] = "starting"]
      BY <1>4 DEF CommitJoin
    <2>3. LeaveQueue(status, plan.from) \in [Runs -> Statuses]
      BY <1>t DEF LeaveQueue, Types, Statuses, Terminal
    <2>4. /\ status' \in [Runs -> Statuses] /\ \A r : Started(r) => Started(r)'
          /\ Queued' = Queued \ {plan.from}
      <3>1. \A r \in Runs : LeaveQueue(status, plan.from)[r] =
                              IF r = plan.from /\ plan.from # 0 THEN "cancelled" ELSE status[r]
        BY <1>t DEF LeaveQueue, Types
      <3>2. 0 \notin Runs
        BY DEF Runs
      <3>3. /\ status' \in [Runs -> Statuses]
            /\ \A r \in Runs : \/ status'[r] = LeaveQueue(status, plan.from)[r]
                               \/ r = plan.run /\ status'[r] = "starting"
        BY <2>2, <2>3 DEF Statuses, Blocking
      <3>4. \A r \in Runs : status'[r] = "queued" <=> (status[r] = "queued" /\ r # plan.from)
        BY <2>1, <2>2, <2>3, <3>1, <3>2 DEF Started
      <3> QED
        BY <3>1, <3>3, <3>4 DEF Started, Queued
    <2>5. held' \in SUBSET Runs /\ HeldTogether'
      BY <1>t, <2>1, <2>4 DEF Types, HeldTogether
    <2> QED
      BY <1>t, <2>1, <2>4, <2>5, CommitKeeps DEF Types
  <1>5. CASE CommitStop
    <2>1. /\ Started(plan.run)
          /\ status' = [status EXCEPT ![plan.run] = "interrupted"]
          /\ held' \in {held, {}, Queued}
          /\ plan' = NoPlan
          /\ step' \in {step, Idle}
      BY <1>t, <1>5 DEF CommitStop, End, PlanHolds
    <2>2. \/ turn' = turn
          \/ step.at = "cleared" /\ turn' = [turn EXCEPT ![<<step.run, step.att>>] = "begun"]
      BY <1>5 DEF CommitStop
    <2>3. QueueStays
      BY <1>t, <2>1 DEF QueueStays, Types, Statuses, Terminal, Started
    <2>4. /\ turn' \in [Attempted -> TurnStages]
          /\ \A x \in Attempted : turn'[x] # "none" => (turn[x] # "none" \/ Started(x[1]))
      BY <1>t, <2>2, TurnBegun DEF Types
    <2> QED
      BY <2>1, <2>3, <2>4, CommitOfStarted
  <1>6. CASE CommitInterrupt
    <2>1. /\ UNCHANGED <<status, turn, step>>
          /\ held' \in {held, {}, Queued} /\ plan' = NoPlan
      BY <1>6 DEF CommitInterrupt, runVars, turnVars
    <2> QED
      BY <1>t, <2>1, CommitOfStarted DEF QueueStays, Types
  <1>7. CASE CommitResume
    <2>1. /\ UNCHANGED <<status, turn, step>>
          /\ held' = {} /\ plan'.kind = "advance"
      BY <1>7 DEF CommitResume, runVars, turnVars, laneVars, NoPlan
    <2> QED
      BY <1>t, <2>1 DEF HInv, Types, HeldTogether, PlanHolds, StepHolds, TurnHolds, Started
  <1>8. CASE CommitCancel
    <2>1. /\ status' = [status EXCEPT ![plan.run] = "cancelled"]
          /\ held' = held \ {plan.run}
          /\ plan' = NoPlan /\ turn' = turn /\ step' = step
      BY <1>8 DEF CommitCancel, turnVars, laneVars
    <2>2. /\ status' \in [Runs -> Statuses] /\ \A r : Started(r) => Started(r)'
          /\ Queued' = Queued \ {plan.run}
      BY <1>t, <2>1 DEF Types, Statuses, Terminal, Started, Queued
    <2>3. held' \in SUBSET Runs /\ HeldTogether'
      BY <1>t, <2>1, <2>2 DEF Types, HeldTogether
    <2> QED
      BY <1>t, <2>1, <2>2, <2>3, CommitKeeps DEF Types
  <1>9. CASE CommitReorder
    <2>1. UNCHANGED <<status, turn, step, held>> /\ plan' = NoPlan
      BY <1>9 DEF CommitReorder, runVars, turnVars, laneVars
    <2> QED
      BY <1>t, <2>1, CommitOfStarted DEF QueueStays, Types
  <1>10. CASE CommitPrepared
    <2>1. /\ Started(plan.run)
          /\ \E to \in {"starting", "failed", "preparing"} :
                status' = [status EXCEPT ![plan.run] = to]
          /\ UNCHANGED <<turn, step, held>> /\ plan' = NoPlan
      BY <1>t, <1>10 DEF CommitPrepared, End, PlanHolds, turnVars, queueVars
    <2>2. QueueStays
      BY <1>t, <2>1 DEF QueueStays, Types, Statuses, Blocking, Terminal, Started
    <2> QED
      BY <1>t, <2>1, <2>2, CommitOfStarted DEF Types
  <1>11. CASE CommitHold
    <2>1. /\ UNCHANGED <<status, turn, step>>
          /\ held' \in {held, {}, Queued} /\ plan' = NoPlan
      BY <1>11 DEF CommitHold, runVars, turnVars, laneVars
    <2> QED
      BY <1>t, <2>1, CommitOfStarted DEF QueueStays, Types
  <1>12. CASE CommitLaunch
    <2>1. /\ \E to \in {"starting", "failed"} : status' = [status EXCEPT ![plan.run] = to]
          /\ UNCHANGED <<turn, step>> /\ held' = {} /\ plan' = NoPlan
      BY <1>t, <1>12 DEF CommitLaunch, End, PlanHolds, turnVars
    <2>2. status' \in [Runs -> Statuses] /\ \A r : Started(r) => Started(r)'
      BY <1>t, <2>1 DEF Types, Statuses, Blocking, Terminal, Started
    <2> QED
      BY <1>t, <2>1, <2>2, CommitKeeps DEF Types, HeldTogether
  <1> QED
    BY <1>1, <1>2, <1>3, <1>4, <1>5, <1>6, <1>7, <1>8, <1>9, <1>10, <1>11, <1>12 DEF Commit

LEMMA ExecutorHolds ==
    ASSUME HInv, Worker
    PROVE  HInv'
  <1>t. Types /\ StepHolds
    BY DEF HInv
  <1>i. /\ Idle.at \notin {"opening", "opened", "cleared", "capturing"}
        /\ Idle = [at |-> Idle.at, run |-> Idle.run, att |-> Idle.att, was |-> Idle.was]
    BY DEF Idle
  \* Many steps only settle, requeue or mark the effect.
  <1>s. ASSUME UNCHANGED <<status, held, plan, turn>>,
               \/ step' \in {step, Idle}
               \/ \E at \in {"awaiting", "followup"} : step' = [Idle EXCEPT !.at = at]
        PROVE  HInv'
    <2>1. Types' /\ StepHolds'
      BY <1>t, <1>s, <1>i DEF Types, StepHolds, Started, Idle
    <2>2. QueueStays
      BY <1>t, <1>s DEF QueueStays, Types
    <2> QED
      BY <1>s, <2>1, <2>2, OutsideTheLock
  <1>1. CASE StartLoads
    <2>1. UNCHANGED <<status, held, plan, turn>>
      BY <1>1 DEF StartLoads, runVars, queueVars, turnVars
    <2>2. CASE step' = Idle
      BY <2>1, <2>2, <1>s
    <2>3. CASE status[Head(lane).run] = "starting" /\
               step' = [at |-> "opening", run |-> Head(lane).run,
                        att |-> attempt[Head(lane).run], was |-> "starting"]
      <3>1. Types' /\ StepHolds'
        BY <1>t, <2>1, <2>3 DEF Types, StepHolds, Started
      <3>2. QueueStays
        BY <1>t, <2>1 DEF QueueStays, Types
      <3> QED
        BY <2>1, <3>1, <3>2, OutsideTheLock
    <2> QED
      BY <1>1, <2>2, <2>3 DEF StartLoads, LoadRun, Settle
  <1>2. CASE RestartInterrupts
    BY <1>2, <1>s DEF RestartInterrupts, runVars, queueVars
  <1>3. CASE RestartTimesOut
    BY <1>3, <1>s DEF RestartTimesOut, TryAgain, Settle, runVars, queueVars, turnVars
  \* A write that moves the run of the executor, which has started.
  <1>w. ASSUME step.at \in {"opening", "opened", "cleared", "capturing"},
               NEW to \in Statuses \ {"none", "queued"},
               status' = [status EXCEPT ![step.run] = to] \/ status' = status,
               UNCHANGED <<held, plan, turn>>,
               \/ step' \in {step, Idle}
               \/ \E at \in {"opened", "cleared"} : step' = [step EXCEPT !.at = at]
        PROVE  HInv'
    <2>1. QueueStays
      BY <1>t, <1>w DEF QueueStays, Types, StepHolds, Started
    <2>2. \A r : Started(r) => Started(r)'
      BY <1>t, <2>1, QueueStaysFacts
    <2>3. Types' /\ StepHolds'
      BY <1>t, <1>w, <1>i, <2>1, <2>2 DEF Types, StepHolds, QueueStays
    <2> QED
      BY <1>w, <2>1, <2>3, OutsideTheLock
  <1>4. CASE SessionOpens
    <2>1. /\ step.at = "opening"
          /\ status' = [status EXCEPT ![step.run] = "running"] \/ status' = status
          /\ UNCHANGED <<held, plan, turn>>
          /\ step' = Idle \/ step' = [step EXCEPT !.at = "opened"]
      BY <1>4 DEF SessionOpens, At, Settle, queueVars, turnVars
    <2> QED
      BY <2>1, <1>w DEF Statuses, Blocking
  <1>5. CASE SessionFails
    <2>1. /\ step.at = "opening"
          /\ status' = [status EXCEPT ![step.run] = "failed"] \/ status' = status
          /\ UNCHANGED <<held, plan, turn>>
          /\ step' = Idle
      BY <1>5 DEF SessionFails, At, TryAgain, Settle, End, queueVars, turnVars
    <2> QED
      BY <2>1, <1>w DEF Statuses, Terminal
  <1>6. CASE TurnClears
    <2>1. /\ step.at = "opened"
          /\ UNCHANGED <<status, held, plan, turn>>
          /\ step' = Idle \/ step' = [step EXCEPT !.at = "cleared"]
      BY <1>6 DEF TurnClears, At, Settle, runVars, queueVars, turnVars
    <2> QED
      BY <2>1, <1>w DEF Statuses, Terminal
  <1>7. CASE TurnBegins
    <2>1. /\ step.at = "cleared"
          /\ turn' = [turn EXCEPT ![<<step.run, step.att>>] = "begun"]
          /\ UNCHANGED <<status, held, plan>>
          /\ step' = Idle
      BY <1>7 DEF TurnBegins, At, Settle, runVars, queueVars
    <2>2. QueueStays
      BY <1>t, <2>1 DEF QueueStays, Types
    <2>3. /\ turn' \in [Attempted -> TurnStages]
          /\ \A x \in Attempted : turn'[x] # "none" => (turn[x] # "none" \/ Started(x[1]))
      BY <1>t, <2>1, TurnBegun
    <2>4. Types' /\ StepHolds'
      BY <1>t, <1>i, <2>1, <2>3 DEF Types, StepHolds
    <2> QED
      BY <2>1, <2>2, <2>3, <2>4, OutsideTheLock
  <1>8. CASE TurnRefused
    <2>1. /\ step.at = "cleared"
          /\ status' = [status EXCEPT ![step.run] = "failed"] \/ status' = status
          /\ UNCHANGED <<held, plan, turn>>
          /\ step' = Idle
      BY <1>8 DEF TurnRefused, At, Settle, End, queueVars, turnVars
    <2> QED
      BY <2>1, <1>w DEF Statuses, Terminal
  <1>9. CASE Steer
    BY <1>9, <1>s DEF Steer, TryAgain, Settle, runVars, queueVars, turnVars
  <1>10. CASE FollowUp
    BY <1>10, CommandsRead
  <1>11. CASE Interrupt
    BY <1>11, <1>s DEF Interrupt, Settle, runVars, queueVars
  <1>12. CASE CaptureLoads
    <2>1. UNCHANGED <<status, held, plan, turn>>
      BY <1>12 DEF CaptureLoads, runVars, queueVars, turnVars
    <2>2. CASE step' = Idle
      BY <2>1, <2>2, <1>s
    <2>3. CASE /\ status[Head(lane).run] \in {"waiting", "interrupted", "cancelled"}
               /\ step' = [at |-> "capturing", run |-> Head(lane).run,
                           att |-> attempt[Head(lane).run], was |-> status[Head(lane).run]]
      <3>1. Types' /\ StepHolds'
        BY <1>t, <2>1, <2>3 DEF Types, StepHolds, Started
      <3>2. QueueStays
        BY <1>t, <2>1 DEF QueueStays, Types
      <3> QED
        BY <2>1, <3>1, <3>2, OutsideTheLock
    <2> QED
      BY <1>12, <2>2, <2>3 DEF CaptureLoads, TryAgain, Settle
  <1>13. CASE CaptureCommits
    <2>1. /\ step.at = "capturing"
          /\ status' = [status EXCEPT ![step.run] =
                            IF step.was = "waiting" THEN "completed" ELSE step.was]
          /\ UNCHANGED <<held, plan, turn>>
          /\ step' = Idle
      BY <1>13 DEF CaptureCommits, At, Settle, queueVars, turnVars
    <2>2. step.was \in {"waiting", "interrupted", "cancelled"}
      BY <1>t, <2>1 DEF StepHolds
    <2>3. PICK to \in {"completed", "interrupted", "cancelled"} :
            status' = [status EXCEPT ![step.run] = to]
      BY <2>1, <2>2
    <2> QED
      BY <2>1, <2>3, <1>w DEF Statuses, Terminal
  <1>14. CASE StartFails \/ CaptureFails
    BY <1>14, <1>s DEF StartFails, CaptureFails, TryAgain, Settle, runVars, queueVars, turnVars
  <1> QED
    BY <1>1, <1>2, <1>3, <1>4, <1>5, <1>6, <1>7, <1>8, <1>9, <1>10, <1>11, <1>12, <1>13, <1>14
    DEF Worker

LEMMA IngestionHolds ==
    ASSUME HInv, NEW x \in Attempted, Ingestion(x)
    PROVE  HInv'
  <1>t. Types /\ StepHolds /\ TurnHolds
    BY DEF HInv
  <1>1. /\ turn[x] # "none"
        /\ \E to \in TurnStages : turn' = [turn EXCEPT ![x] = to]
        /\ UNCHANGED <<held, plan, step>>
        /\ status' = status \/ \E to \in Statuses \ {"none", "queued"} :
                                   status' = [status EXCEPT ![x[1]] = to]
    BY DEF Ingestion, TurnProjected, TurnEnds, Decide, Finalize, End, TurnStages, Statuses,
           Blocking, Terminal, runVars, queueVars, laneVars
  <1>2. Started(x[1])
    BY <1>t, <1>1 DEF TurnHolds
  <1>3. QueueStays
    BY <1>t, <1>1, <1>2 DEF QueueStays, Types, Started
  <1>4. \A r : Started(r) => Started(r)'
    BY <1>t, <1>3, QueueStaysFacts
  <1>5. /\ turn' \in [Attempted -> TurnStages]
        /\ \A y \in Attempted : turn'[y] # "none" => (turn[y] # "none" \/ Started(y[1]))
    BY <1>t, <1>1 DEF Types
  <1>6. Types' /\ StepHolds'
    BY <1>t, <1>1, <1>3, <1>4, <1>5 DEF Types, StepHolds, QueueStays
  <1> QED
    BY <1>1, <1>3, <1>5, <1>6, OutsideTheLock

LEMMA ListenHolds ==
    ASSUME HInv, Listen
    PROVE  HInv'
  BY DEF Listen, NoPlan, HInv, runVars, queueVars, turnVars, laneVars, Types, HeldTogether,
         PlanHolds, StepHolds, TurnHolds, Started, Queued

LEMMA LoseHolds ==
    ASSUME HInv, Lose
    PROVE  HInv'
  BY DEF Lose, NoPlan, HInv, runVars, queueVars, turnVars, laneVars, Types, HeldTogether,
         PlanHolds, StepHolds, TurnHolds, Started, Fresh, Queued

LEMMA RestartHolds ==
    ASSUME HInv, ServerRestarts
    PROVE  HInv'
  <1>t. Types /\ TurnHolds
    BY DEF HInv
  <1>1. /\ \E lost \in SUBSET BlockingRuns :
              status' = [r \in Runs |-> IF r \in lost THEN "cancelled" ELSE status[r]]
        /\ held' = Queued /\ step' = Idle /\ plan' = NoPlan
        /\ turn' = [x \in Runs \X Attempts |-> IF turn[x] = "none" THEN "none" ELSE "done"]
    <2>1. \A S, T : {r \in S : r \in T} \subseteq S
      OBVIOUS
    <2> QED
      BY DEF ServerRestarts, BlockingRuns
  <1>2. QueueStays
    BY <1>t, <1>1 DEF QueueStays, Types, Statuses, Terminal, BlockingRuns, Blocking, Started
  <1>3. turn' \in [Attempted -> TurnStages] /\ \A x \in Attempted : turn'[x] # "none" => turn[x] # "none"
    BY <1>1 DEF Attempted, TurnStages
  <1> QED
    BY <1>1, <1>2, <1>3, CommitOfStarted

LEMMA HInvStarts == Init => HInv
  BY DEF Init, HInv, Types, Statuses, TurnStages, Attempted, Idle, HeldTogether, PlanHolds,
         NoPlan, StepHolds, TurnHolds

LEMMA HInvStays == HInv /\ [Next]_vars => HInv'
  <1> SUFFICES ASSUME HInv, [Next]_vars PROVE HInv'
    OBVIOUS
  <1>1. CASE SendFresh \/ SendJoining \/ Stop \/ Edit \/ Prepared
    BY <1>1, CommandsRead
  <1>2. CASE Listen
    BY <1>2, ListenHolds
  <1>3. CASE Commit
    BY <1>3, CommitsHold
  <1>4. CASE Worker
    BY <1>4, ExecutorHolds
  <1>5. CASE \E x \in Attempted : Ingestion(x)
    BY <1>5, IngestionHolds
  <1>6. CASE ServerRestarts
    BY <1>6, RestartHolds
  <1>7. CASE UNCHANGED vars
    BY <1>7 DEF vars, runVars, queueVars, turnVars, laneVars, HInv, Types, HeldTogether,
                PlanHolds, StepHolds, TurnHolds, Started, Fresh, Queued
  <1>8. CASE Lose
    BY <1>8, LoseHolds
  <1> QED
    BY <1>1, <1>2, <1>3, <1>4, <1>5, <1>6, <1>7, <1>8 DEF Next

\* The queue is held as a whole, for every size of the thread and whoever steps
\* between a read and its write: a command that queues a run behind held ones
\* holds it too, and none releases or holds only some of them.
THEOREM QueueIsHeldTogether == Spec => []HeldTogether
  <1>1. HInv => HeldTogether
    BY DEF HInv
  <1> QED
    BY <1>1, HInvStarts, HInvStays, PTL DEF Spec

-----------------------------------------------------------------------------
(* The listener and the commands share out the queued runs.                *)

\* A queued run that is not held has a run in its way, or the limit, or a
\* notice, whoever holds the lock, or an end went by unhandled.
Served ==
    Queued \ held = {} \/ BlockingRuns # {} \/ LimitBlocked \/ notices # << >> \/ missed

\* A holder of the lock that is not about to start the queue owes it nothing.
PlanServes ==
    /\ plan.kind = "queue" => BlockingRuns # {} \/ notices # << >> \/ missed
    /\ plan.kind \notin {"advance", "launch", "hold"} => Served
    /\ plan.kind = "launch" => plan.run \in Runs

SInv == (\E S : notices \in Seq(S)) /\ PlanServes

LEMMA AppendIsNotEmpty ==
    ASSUME \E S : notices \in Seq(S), NEW r, notices' = Append(notices, r)
    PROVE  (\E S : notices \in Seq(S))' /\ notices' # << >>
  <1>1. PICK S : notices \in Seq(S)
    OBVIOUS
  <1>2. notices' \in Seq(S \cup {r}) /\ notices' # << >>
    BY <1>1
  <1> QED
    BY <1>2

\* What is left when one place of a line is given up.
LEMMA RemovedStays ==
    ASSUME NEW S, NEW s \in Seq(S), NEW i \in 1 .. Len(s)
    PROVE  RemoveAt(s, i) \in Seq(S)
  <1>1. SubSeq(s, 1, i - 1) \in Seq(S) /\ SubSeq(s, i + 1, Len(s)) \in Seq(S)
    OBVIOUS
  <1> QED
    BY <1>1 DEF RemoveAt

\* A step after which the listener has an end to handle.
LEMMA NoticeServes ==
    ASSUME SInv, NEW r, notices' = Append(notices, r), plan' \in {plan, NoPlan}
    PROVE  SInv'
  <1>1. (\E S : notices \in Seq(S))' /\ notices' # << >>
    BY AppendIsNotEmpty DEF SInv
  <1> QED
    BY <1>1 DEF SInv, PlanServes, Served, NoPlan

\* A step after which some run blocks the thread, or the whole queue is held.
LEMMA BlockingServes ==
    ASSUME SInv, notices' = notices,
           \/ (BlockingRuns # {})' /\ plan' \in {plan, NoPlan}
           \/ (Queued \ held = {})' /\ plan' = NoPlan
    PROVE  SInv'
  BY DEF SInv, PlanServes, Served, NoPlan

\* A step that leaves the runs and the notices alone, and the queue unless it
\* holds it.
LEMMA QuietServes ==
    ASSUME SInv, UNCHANGED <<status, class, last, notices, missed>>,
           held' \in {held, Queued},
           plan' = plan \/ (plan' = NoPlan /\ plan.kind \notin {"advance", "launch", "hold"})
    PROVE  SInv'
  <1>1. Served => Served'
    BY DEF Served, Queued, BlockingRuns, LimitBlocked
  <1>2. BlockingRuns' = BlockingRuns
    BY DEF BlockingRuns
  <1> QED
    BY <1>1, <1>2 DEF SInv, PlanServes, NoPlan

\* The first half of a command.
LEMMA ReadServes ==
    ASSUME SInv, Looks, plan'.kind = "queue" => BlockingRuns # {},
           \/ plan'.kind \in {"advance", "launch", "hold"}
           \/ Served /\ missed' = missed
           \/ Queued \ held = {} \/ BlockingRuns # {} \/ LimitBlocked,
           plan'.kind = "launch" => plan'.run \in Runs
    PROVE  SInv'
  BY DEF SInv, PlanServes, Served, Looks, runVars, queueVars, Queued, BlockingRuns, LimitBlocked

LEMMA CommandServes ==
    ASSUME SInv, SendFresh \/ SendJoining \/ Stop \/ Edit \/ Prepared \/ FollowUp
    PROVE  SInv'
  <1>1. Looks /\ missed' = missed /\ LockFree
    BY ReadsLook DEF SendFresh, SendJoining, Stop, Edit, Prepared, FollowUp
  <1>2. Served
    <2>1. plan.kind = "none"
      BY <1>1 DEF LockFree, NoPlan
    <2> QED
      BY <2>1 DEF SInv, PlanServes
  <1>3. ASSUME NEW m, NEW kind \in {"begin", "prepare"}, plan' = FreshPlan(m, kind)
        PROVE  SInv'
    <2>1. /\ plan'.kind = "queue" => BlockingRuns # {}
          /\ plan'.kind # "launch"
      BY <1>3 DEF FreshPlan, NoPlan
    <2> QED
      BY <1>1, <1>2, <2>1, ReadServes
  <1>4. CASE plan'.kind \in {"steer", "restart", "stop", "interrupt", "resume", "cancel",
                             "reorder", "retry", "release", "fail"}
    BY <1>1, <1>2, <1>4, ReadServes
  <1>5. CASE SendFresh
    <2>1. \E kind \in {"begin", "prepare"} : plan' = FreshPlan(NextMessage, kind)
      BY <1>5 DEF SendFresh
    <2> QED
      BY <2>1, <1>3
  <1>6. CASE FollowUp
    <2>1. plan' = FreshPlan(Head(lane).msg, "begin")
      BY <1>6 DEF FollowUp
    <2> QED
      BY <2>1, <1>3
  <1>7. CASE SendJoining
    BY <1>4, <1>7 DEF SendJoining, JoinPlan, NoPlan
  <1>8. CASE Stop
    BY <1>4, <1>8 DEF Stop, NoPlan
  <1>9. CASE Edit
    BY <1>4, <1>9 DEF Edit, NoPlan
  <1>10. CASE Prepared
    BY <1>4, <1>10 DEF Prepared, NoPlan
  <1> QED
    BY <1>5, <1>6, <1>7, <1>8, <1>9, <1>10

LEMMA CommitServes ==
    ASSUME SInv, HInv, Commit
    PROVE  SInv'
  <1> USE DEF Committing
  <1>t. Types /\ HeldTogether /\ PlanHolds
    BY DEF HInv
  <1>b. ASSUME NEW r \in Runs, NEW s \in Blocking, status'[r] = s
        PROVE  (BlockingRuns # {})'
    BY <1>b DEF BlockingRuns
  <1>1. CASE ReadQueue
    <2>1. Looks
      BY <1>1 DEF ReadQueue, Looks
    <2>2. CASE NothingToStart /\ plan' = NoPlan
      <3>1. Queued \ held = {} \/ BlockingRuns # {} \/ LimitBlocked
        BY <1>t, <2>2 DEF NothingToStart, HeldTogether
      <3> QED
        BY <2>1, <2>2, <3>1, ReadServes DEF NoPlan
    <2>3. CASE plan' = [NoPlan EXCEPT !.kind = "hold"]
      BY <2>1, <2>3, ReadServes DEF NoPlan
    <2>4. CASE \E q \in Queued : plan' = [NoPlan EXCEPT !.kind = "launch", !.run = q]
      <3>1. plan'.kind = "launch" /\ plan'.run \in Runs
        BY <2>4 DEF NoPlan, Queued
      <3> QED
        BY <2>1, <3>1, ReadServes
    <2> QED
      BY <1>1, <2>2, <2>3, <2>4 DEF ReadQueue
  <1>2. CASE CommitQueue
    <2>1. /\ status' = [status EXCEPT ![plan.run] = "queued"]
          /\ plan.kind = "queue" /\ plan.run \in Fresh
          /\ UNCHANGED <<notices, missed>> /\ plan' = NoPlan
      BY <1>t, <1>2 DEF CommitQueue, PlanHolds, endVars
    <2>2. BlockingRuns' = BlockingRuns
      BY <1>t, <2>1 DEF Types, BlockingRuns, Blocking, Fresh
    <2> QED
      BY <2>1, <2>2 DEF SInv, PlanServes, Served, NoPlan
  <1>3. CASE CommitBegin
    <2>1. /\ \E s \in Blocking : status' = [status EXCEPT ![plan.run] = s]
          /\ plan.run \in Runs
          /\ notices' = notices /\ plan' = NoPlan
      BY <1>t, <1>3 DEF CommitBegin, PlanHolds, Fresh, Blocking, endVars
    <2> QED
      BY <1>t, <1>b, <2>1, BlockingServes DEF Types
  <1>4. CASE CommitJoin
    <2>1. CASE plan.from # 0
      BY <1>4, <2>1, NoticeServes DEF CommitJoin
    <2>2. CASE plan.from = 0 /\ plan.kind = "steer"
      <3>1. /\ UNCHANGED <<status, class, last, notices, missed>> /\ plan' = NoPlan
            /\ held' = held \ {0}
        BY <1>4, <2>2 DEF CommitJoin, LeaveQueue
      <3>2. held' = held
        BY <1>t, <3>1 DEF Types, Runs
      <3> QED
        BY <2>2, <3>1, <3>2, QuietServes
    <2>3. CASE plan.from = 0 /\ plan.kind = "restart"
      <3>1. /\ status' = [status EXCEPT ![plan.run] = "starting"]
            /\ plan.run \in Runs
            /\ notices' = notices /\ plan' = NoPlan
        BY <1>t, <1>4, <2>3 DEF CommitJoin, LeaveQueue, PlanHolds, Started
      <3> QED
        BY <1>t, <1>b, <3>1, BlockingServes DEF Types, Blocking
    <2> QED
      BY <1>4, <2>1, <2>2, <2>3 DEF CommitJoin
  <1>5. CASE CommitStop
    BY <1>5, NoticeServes DEF CommitStop, End
  <1>6. CASE CommitInterrupt
    BY <1>6, QuietServes DEF CommitInterrupt, runVars, endVars
  <1>7. CASE CommitResume
    <2>1. notices' = notices /\ plan'.kind = "advance"
      BY <1>7 DEF CommitResume, NoPlan, endVars
    <2> QED
      BY <2>1 DEF SInv, PlanServes
  <1>8. CASE CommitCancel
    BY <1>8, NoticeServes DEF CommitCancel
  <1>9. CASE CommitReorder
    BY <1>9, QuietServes DEF CommitReorder, runVars, endVars
  <1>10. CASE CommitPrepared
    <2>1. CASE plan.kind = "fail"
      BY <1>10, <2>1, NoticeServes DEF CommitPrepared, End
    <2>2. CASE plan.kind # "fail"
      <3>1. /\ \E s \in Blocking : status' = [status EXCEPT ![plan.run] = s]
            /\ plan.run \in Runs
            /\ notices' = notices /\ plan' = NoPlan
        BY <1>t, <1>10, <2>2 DEF CommitPrepared, PlanHolds, Started, Blocking
      <3> QED
        BY <1>t, <1>b, <3>1, BlockingServes DEF Types
    <2> QED
      BY <2>1, <2>2
  <1>11. CASE CommitHold
    <2>1. held' = Queued' /\ notices' = notices /\ plan' = NoPlan
      BY <1>11 DEF CommitHold, runVars, Queued, endVars
    <2> QED
      BY <2>1, BlockingServes
  <1>12. CASE CommitLaunch
    <2>1. plan.run \in Runs /\ plan' = NoPlan
      BY <1>12 DEF CommitLaunch, SInv, PlanServes
    <2>2. CASE status' = [status EXCEPT ![plan.run] = "starting"] /\ notices' = notices
      BY <1>t, <1>b, <2>1, <2>2, BlockingServes DEF Types, Blocking
    <2>3. CASE notices' = Append(notices, plan.run)
      BY <2>1, <2>3, NoticeServes
    <2> QED
      BY <1>12, <2>2, <2>3 DEF CommitLaunch, End
  <1> QED
    BY <1>1, <1>2, <1>3, <1>4, <1>5, <1>6, <1>7, <1>8, <1>9, <1>10, <1>11, <1>12 DEF Commit

LEMMA ExecutorServes ==
    ASSUME SInv, HInv, Worker
    PROVE  SInv'
  <1>1. CASE \/ StartLoads \/ RestartInterrupts \/ RestartTimesOut \/ TurnClears
             \/ TurnBegins \/ Steer \/ Interrupt \/ CaptureLoads \/ StartFails \/ CaptureFails
    <2>1. UNCHANGED <<status, class, last, notices, missed, held, plan>>
      BY <1>1 DEF StartLoads, RestartInterrupts, RestartTimesOut, TurnClears, TurnBegins, Steer,
                  Interrupt, CaptureLoads, StartFails, CaptureFails, runVars, queueVars, endVars
    <2> QED
      BY <2>1, QuietServes
  <1>2. CASE SessionOpens
    <2>1. /\ UNCHANGED <<class, last, notices, missed, held, plan>>
          /\ \/ status' = status
             \/ /\ status[step.run] = "starting"
                /\ status' = [status EXCEPT ![step.run] = "running"]
      BY <1>2 DEF SessionOpens, IsCurrent, Settle, queueVars, endVars
    <2>2. CASE status' = status
      BY <2>1, <2>2, QuietServes
    <2>3. CASE step.run \in Runs /\ status' = [status EXCEPT ![step.run] = "running"]
      <3>1. (BlockingRuns # {})'
        BY <2>3 DEF HInv, Types, BlockingRuns, Blocking
      <3> QED
        BY <2>1, <3>1, BlockingServes
    <2>4. CASE step.run \notin Runs /\ status' = [status EXCEPT ![step.run] = "running"]
      <3>1. status' = status
        BY <2>4 DEF HInv, Types
      <3> QED
        BY <2>1, <3>1, QuietServes
    <2> QED
      BY <2>1, <2>2, <2>3, <2>4
  <1>3. CASE SessionFails \/ TurnRefused
    <2>1. \/ UNCHANGED <<status, class, last, notices, missed, held, plan>>
          \/ notices' = Append(notices, step.run) /\ UNCHANGED <<held, plan>>
      BY <1>3 DEF SessionFails, TurnRefused, End, queueVars
    <2> QED
      BY <2>1, QuietServes, NoticeServes
  <1>4. CASE FollowUp
    BY <1>4, CommandServes
  <1>5. CASE CaptureCommits
    BY <1>5, NoticeServes DEF CaptureCommits
  <1> QED
    BY <1>1, <1>2, <1>3, <1>4, <1>5 DEF Worker

LEMMA IngestionServes ==
    ASSUME SInv, HInv, NEW x \in Attempted, Ingestion(x)
    PROVE  SInv'
  <1>1. CASE TurnProjected(x) \/ TurnEnds(x) \/ Decide(x)
    <2>1. UNCHANGED <<status, class, last, notices, missed, held, plan>>
      BY <1>1 DEF TurnProjected, TurnEnds, Decide, runVars, queueVars, endVars
    <2> QED
      BY <2>1, QuietServes
  <1>2. CASE Finalize(x)
    <2>1. /\ UNCHANGED plan
          /\ \/ status' = [status EXCEPT ![x[1]] = "waiting"] /\ UNCHANGED notices
             \/ notices' = Append(notices, x[1])
      BY <1>2 DEF Finalize, End
    <2>2. x[1] \in Runs
      BY DEF Attempted
    <2>3. CASE status' = [status EXCEPT ![x[1]] = "waiting"] /\ UNCHANGED notices
      <3>1. (BlockingRuns # {})'
        BY <2>2, <2>3 DEF HInv, Types, BlockingRuns, Blocking
      <3> QED
        BY <2>1, <2>3, <3>1, BlockingServes
    <2> QED
      BY <2>1, <2>3, NoticeServes
  <1> QED
    BY <1>1, <1>2 DEF Ingestion

LEMMA SInvStarts == Init => SInv
  <1> SUFFICES ASSUME Init PROVE SInv
    OBVIOUS
  <1>1. notices \in Seq(Runs)
    BY DEF Init
  <1>2. Queued = {}
    BY DEF Init, Queued
  <1> QED
    BY <1>1, <1>2 DEF Init, SInv, PlanServes, Served, NoPlan

LEMMA SInvStays == SInv /\ HInv /\ [Next]_vars => SInv'
  <1> SUFFICES ASSUME SInv, HInv, [Next]_vars PROVE SInv'
    OBVIOUS
  <1>1. CASE SendFresh \/ SendJoining \/ Stop \/ Edit \/ Prepared
    BY <1>1, CommandServes
  <1>2. CASE Listen
    <2>1. notices # << >> /\ notices' = Tail(notices) /\ plan'.kind = "advance"
      BY <1>2 DEF Listen, NoPlan
    <2>2. PICK S : notices \in Seq(S)
      BY DEF SInv
    <2>3. notices' \in Seq(S)
      BY <2>1, <2>2
    <2> QED
      BY <2>1, <2>3 DEF SInv, PlanServes
  <1>3. CASE Commit
    BY <1>3, CommitServes
  <1>4. CASE Worker
    BY <1>4, ExecutorServes
  <1>5. CASE \E x \in Attempted : Ingestion(x)
    BY <1>5, IngestionServes
  <1>6. CASE ServerRestarts
    <2>1. /\ notices' = << >> /\ plan' = NoPlan /\ held' = Queued
          /\ status' = [r \in Runs |-> IF status'[r] = "cancelled" THEN "cancelled" ELSE status[r]]
      BY <1>6 DEF ServerRestarts
    <2>2. Queued' \ held' = {}
      BY <2>1 DEF Queued
    <2>3. << >> \in Seq({})
      OBVIOUS
    <2> QED
      BY <2>1, <2>2, <2>3 DEF SInv, PlanServes, Served, NoPlan
  <1>7. CASE UNCHANGED vars
    <2>1. UNCHANGED <<status, class, last, notices, missed, held, plan>>
      BY <1>7 DEF vars, runVars, queueVars, endVars
    <2> QED
      BY <2>1, QuietServes
  <1>8. CASE Lose
    <2>1. \/ \E i \in 1 .. Len(notices) : notices' = RemoveAt(notices, i)
          \/ notices' = notices
      BY <1>8 DEF Lose
    <2>2. PICK S : notices \in Seq(S)
      BY DEF SInv
    <2>3. notices' \in Seq(S)
      BY <2>1, <2>2, RemovedStays
    <2>4. missed' /\ plan' \in {plan, NoPlan}
      BY <1>8 DEF Lose
    <2> QED
      BY <2>3, <2>4 DEF SInv, PlanServes, Served, NoPlan
  <1> QED
    BY <1>1, <1>2, <1>3, <1>4, <1>5, <1>6, <1>7, <1>8 DEF Next

\* No queued run that is not held is left without anyone to start it, whoever
\* steps between a read and its write: a run may end between the read of the
\* command that queues behind it and the commit, and the notice of its end is
\* still there to handle.  Only an end that was lost leaves the queue waiting,
\* and no longer than until the queue is read again.
THEOREM NobodyIsStranded == Spec => []NeverStranded
  <1>1. SInv => NeverStranded
    BY DEF SInv, PlanServes, Served, NeverStranded, NoPlan
  <1> QED
    BY <1>1, HInvStarts, HInvStays, SInvStarts, SInvStays, PTL DEF Spec

-----------------------------------------------------------------------------
(* What is decided first and written later.  The holder of the lock, a     *)
(* capture and a fiber that ends its run write a run as they read it; the  *)
(* runs that move in between are counted as overtaken.                     *)

\* What the holder of the lock will do to run r is what r was read for.
PlanReads(r) ==
    /\ (plan.kind \in {"steer", "restart"} /\ plan.from = r) => status[r] = "queued"
    /\ (plan.kind \in {"release", "fail"} /\ plan.run = r) => status[r] = "preparing"
    /\ (plan.kind = "retry" /\ plan.run = r) => status[r] = "failed" /\ class[r] = "workspace"
    /\ (plan.kind \in {"cancel", "launch"} /\ plan.run = r) => status[r] = "queued"

EInv == \A r \in Runs \ overtaken : ~Misled(r) /\ PlanReads(r)

\* A plan as the holder of the lock makes it.
JustRead(p) ==
    /\ (p.kind \in {"steer", "restart"} /\ p.from \in Runs) => status[p.from] = "queued"
    /\ p.kind = "restart" => status[p.run] = "running"
    /\ p.kind = "stop" => status[p.run] \in {"preparing", "starting", "running"}
    /\ p.kind \in {"release", "fail"} => status[p.run] = "preparing"
    /\ p.kind = "retry" => status[p.run] = "failed" /\ class[p.run] = "workspace"
    /\ p.kind \in {"cancel", "launch"} => status[p.run] = "queued"

\* The runs change only under Overtakes.
Tracked == Overtakes \/ UNCHANGED <<status, attempt, overtaken>>

\* A fiber and a capture decide by the runs as they are.
TurnReads ==
    \A r \in Runs, a \in Attempts :
        turn'[<<r, a>>] = "deciding" =>
            turn[<<r, a>>] = "deciding" \/ (attempt[r] = a /\ status[r] \in {"starting", "running"})
StepReads ==
    \/ step' = step
    \/ step'.at # "capturing"
    \/ status[step'.run] = step'.was /\ attempt[step'.run] = step'.att

\* Without the lock only runs that are starting, running or waiting move.
Moves ==
    \A r \in Runs \ overtaken :
        \/ status'[r] = status[r] /\ class'[r] = class[r]
        \/ status[r] \in {"starting", "running", "waiting"}

EndedStays ==
    \A r \in Runs \ overtaken : status[r] \in Terminal =>
        \/ status'[r] = status[r]
        \/ class[r] = "workspace" /\ status'[r] = "preparing"

LEMMA TrackedGrows ==
    ASSUME Tracked
    PROVE  overtaken \subseteq overtaken'
  BY DEF Tracked, Overtakes

\* Who moved under a write decided before is overtaken; who did not move is still
\* as it was read.
LEMMA NobodyIsMisled ==
    ASSUME EInv, Tracked, TurnReads, StepReads,
           plan' \in {plan, NoPlan} \/ JustRead(plan'),
           NEW r \in Runs \ overtaken'
    PROVE  ~Misled(r)'
  <1>1. r \in Runs \ overtaken /\ ~Misled(r)
    BY TrackedGrows DEF EInv
  <1>2. CASE <<status'[r], attempt'[r]>> # <<status[r], attempt[r]>>
    <2>1. Overtakes
      BY <1>2 DEF Tracked
    <2> QED
      BY <1>2, <2>1 DEF Overtakes, Misled
  <1>3. CASE status'[r] = status[r] /\ attempt'[r] = attempt[r]
    <2>1. ASSUME NEW a \in Attempts, turn'[<<r, a>>] = "deciding"
          PROVE  attempt'[r] = a /\ status'[r] \in {"starting", "running"}
      BY <1>1, <1>3, <2>1 DEF TurnReads, Misled
    <2>2. ~(plan'.kind = "stop" /\ plan'.run = r
              /\ status'[r] \notin {"preparing", "starting", "running"})
      BY <1>1, <1>3 DEF Misled, JustRead, NoPlan
    <2>3. ~(plan'.kind = "restart" /\ plan'.run = r /\ status'[r] # "running")
      BY <1>1, <1>3 DEF Misled, JustRead, NoPlan
    <2>4. ~(step'.at = "capturing" /\ step'.run = r
              /\ <<status'[r], attempt'[r]>> # <<step'.was, step'.att>>)
      BY <1>1, <1>3 DEF Misled, StepReads
    <2> QED
      BY <2>1, <2>2, <2>3, <2>4 DEF Misled
  <1> QED
    BY <1>2, <1>3

LEMMA MovesFollow ==
    ASSUME EInv, Tracked, TurnReads, StepReads, Moves, plan' = plan
    PROVE  EInv' /\ EndedStays
  <1>1. EndedStays
    BY DEF Moves, EndedStays, Terminal
  <1>2. ASSUME NEW r \in Runs \ overtaken'
        PROVE  PlanReads(r)'
    <2>1. r \in Runs \ overtaken /\ PlanReads(r)
      BY TrackedGrows DEF EInv
    <2> QED
      BY <2>1 DEF Moves, PlanReads
  <1> QED
    BY <1>1, <1>2, NobodyIsMisled DEF EInv

LEMMA CommitFollows ==
    ASSUME EInv, Tracked, TurnReads, StepReads, plan' = NoPlan
    PROVE  EInv'
  <1>1. ASSUME NEW r \in Runs \ overtaken'
        PROVE  PlanReads(r)'
    BY DEF PlanReads, NoPlan
  <1> QED
    BY <1>1, NobodyIsMisled DEF EInv

LEMMA ReadFollows ==
    ASSUME EInv, UNCHANGED <<status, attempt, class, overtaken, turn, step>>, JustRead(plan')
    PROVE  EInv' /\ EndedStays
  <1>1. Tracked /\ TurnReads /\ StepReads
    BY DEF Tracked, TurnReads, StepReads
  <1>2. ASSUME NEW r \in Runs \ overtaken'
        PROVE  PlanReads(r)'
    BY DEF PlanReads, JustRead
  <1> QED
    BY <1>1, <1>2, NobodyIsMisled DEF EInv, EndedStays

\* The first half of a command.
LEMMA CommandReadsRuns ==
    ASSUME EInv, SendFresh \/ SendJoining \/ Stop \/ Edit \/ Prepared \/ FollowUp
    PROVE  EInv' /\ EndedStays
  <1>1. Reads
    BY DEF SendFresh, SendJoining, Stop, Edit, Prepared, FollowUp
  <1>2. UNCHANGED <<status, attempt, class, overtaken, turn, step>>
    BY <1>1 DEF Reads, runVars, turnVars, laneVars
  <1>4. ASSUME plan'.kind \in {"queue", "begin", "prepare", "interrupt", "resume", "reorder"}
        PROVE  JustRead(plan')
    BY <1>4 DEF JustRead
  <1>5. CASE SendFresh \/ FollowUp
    <2>1. \E m : \E kind \in {"begin", "prepare"} : plan' = FreshPlan(m, kind)
      <3>1. CASE SendFresh
        BY <3>1 DEF SendFresh
      <3>2. CASE FollowUp
        BY <3>2 DEF FollowUp
      <3> QED
        BY <1>5, <3>1, <3>2
    <2>2. PICK m : \E kind \in {"begin", "prepare"} : plan' = FreshPlan(m, kind)
      BY <2>1
    <2>3. PICK kind \in {"begin", "prepare"} : plan' = FreshPlan(m, kind)
      BY <2>2
    <2>4. plan'.kind \in {"queue", "begin", "prepare"}
      BY <2>3 DEF FreshPlan, NoPlan
    <2> QED
      BY <1>2, <1>4, <2>4, ReadFollows
  <1>6. CASE SendJoining
    <2>1. PICK r \in Runs :
            /\ Steerable(r)
            /\ plan'.kind \in {"steer", "restart"} /\ plan'.run = r
            /\ plan'.from \in Runs => plan'.from \in Queued
      <3>1. 0 \notin Runs
        BY DEF Runs
      <3> QED
        BY <1>6, <3>1 DEF SendJoining, JoinPlan, NoPlan
    <2>2. JustRead(plan')
      BY <2>1 DEF Steerable, Queued, JustRead
    <2> QED
      BY <1>2, <2>2, ReadFollows
  <1>7. CASE Stop
    <2>1. PICK r \in Runs, hold \in BOOLEAN :
            /\ \/ turn[Current(r)] = "running"
               \/ status[r] \in {"preparing", "starting", "running"}
            /\ plan' = [NoPlan EXCEPT
                          !.kind = IF turn[Current(r)] = "running" THEN "interrupt" ELSE "stop",
                          !.run = r, !.att = attempt[r], !.hold = hold]
      BY <1>7 DEF Stop
    <2>2. \/ plan'.kind = "interrupt"
          \/ plan'.kind = "stop" /\ status[plan'.run] \in {"preparing", "starting", "running"}
      BY <2>1 DEF NoPlan
    <2>3. JustRead(plan')
      BY <1>4, <2>2 DEF JustRead
    <2> QED
      BY <1>2, <2>3, ReadFollows
  <1>8. CASE Edit
    <2>1. \/ plan'.kind \in {"resume", "reorder"}
          \/ plan'.kind = "cancel" /\ status[plan'.run] = "queued"
          \/ plan'.kind = "retry" /\ status[plan'.run] = "failed" /\ class[plan'.run] = "workspace"
      BY <1>8 DEF Edit, NoPlan, Queued
    <2>2. JustRead(plan')
      BY <1>4, <2>1 DEF JustRead
    <2> QED
      BY <1>2, <2>2, ReadFollows
  <1>9. CASE Prepared
    <2>1. plan'.kind \in {"release", "fail"} /\ status[plan'.run] = "preparing"
      BY <1>9 DEF Prepared, NoPlan
    <2>2. JustRead(plan')
      BY <2>1 DEF JustRead
    <2> QED
      BY <1>2, <2>2, ReadFollows
  <1> QED
    BY <1>5, <1>6, <1>7, <1>8, <1>9

\* A commit starts no decision of a fiber or a capture.
LEMMA NothingDecided ==
    ASSUME Types, step' \in {step, Idle},
           \/ turn' = turn
           \/ \E x : \E s \in TurnStages \ {"deciding"} : turn' = [turn EXCEPT ![x] = s]
    PROVE  TurnReads /\ StepReads
  BY DEF Types, TurnReads, StepReads, Idle, Attempted

LEMMA CommitMoves ==
    ASSUME HInv, EInv, Commit
    PROVE  EInv' /\ EndedStays
  <1> USE DEF Committing
  <1>t. Types /\ StepHolds /\ PlanHolds
    BY DEF HInv
  <1>m. ASSUME NEW s, status' = [status EXCEPT ![plan.run] = s], Overtakes,
               plan.run \in Runs \ overtaken => status[plan.run] \notin Terminal,
               step' \in {step, Idle}, turn' = turn, plan' = NoPlan
        PROVE  EInv' /\ EndedStays
    <2>1. EndedStays
      BY <1>t, <1>m DEF Types, EndedStays
    <2> QED
      BY <1>t, <1>m, <2>1, NothingDecided, CommitFollows DEF Tracked
  <1>u. ASSUME UNCHANGED <<runVars, step, turn>>,
               plan' = NoPlan \/ plan'.kind \in {"advance", "hold"}
        PROVE  EInv' /\ EndedStays
    <2>1. JustRead(plan')
      BY <1>u DEF JustRead, NoPlan
    <2> QED
      BY <1>u, <2>1, ReadFollows DEF runVars
  <1>1. CASE ReadQueue
    <2>1. UNCHANGED <<runVars, step, turn>>
      BY <1>1 DEF ReadQueue, turnVars, laneVars
    <2>2. CASE plan' = NoPlan \/ plan' = [NoPlan EXCEPT !.kind = "hold"]
      BY <2>1, <2>2, <1>u DEF NoPlan
    <2>3. CASE \E q \in Queued : plan' = [NoPlan EXCEPT !.kind = "launch", !.run = q]
      <3>1. JustRead(plan')
        BY <2>3 DEF Queued, NoPlan, JustRead
      <3> QED
        BY <2>1, <3>1, ReadFollows DEF runVars
    <2> QED
      BY <1>1, <2>2, <2>3 DEF ReadQueue
  <1>2. CASE CommitQueue
    <2>1. /\ status' = [status EXCEPT ![plan.run] = "queued"]
          /\ status[plan.run] = "none" /\ Overtakes
          /\ turn' = turn /\ step' \in {step, Idle} /\ plan' = NoPlan
      BY <1>t, <1>2 DEF CommitQueue, PlanHolds, Fresh, SettleFollowUp, turnVars
    <2> QED
      BY <2>1, <1>m DEF Terminal
  <1>3. CASE CommitBegin
    <2>1. /\ \E s : status' = [status EXCEPT ![plan.run] = s]
          /\ status[plan.run] = "none" /\ Overtakes
          /\ turn' = turn /\ step' \in {step, Idle} /\ plan' = NoPlan
      BY <1>t, <1>3 DEF CommitBegin, PlanHolds, Fresh, SettleFollowUp, turnVars
    <2> QED
      BY <2>1, <1>m DEF Terminal
  <1>4. CASE CommitJoin
    <2>1. /\ turn' = turn /\ step' = step /\ plan' = NoPlan /\ Overtakes
          /\ plan.kind \in {"steer", "restart"}
      BY <1>4 DEF CommitJoin, turnVars
    <2>2. \/ status' = LeaveQueue(status, plan.from)
          \/ /\ status' = [LeaveQueue(status, plan.from) EXCEPT ![plan.run] = "starting"]
             /\ plan.kind = "restart"
      BY <1>4 DEF CommitJoin
    <2>3. /\ plan.kind = "restart" /\ plan.run \in Runs \ overtaken => status[plan.run] = "running"
          /\ plan.from \in Runs \ overtaken => status[plan.from] = "queued"
      BY <2>1 DEF EInv, Misled, PlanReads
    <2>4. EndedStays
      BY <1>t, <2>2, <2>3 DEF Types, LeaveQueue, EndedStays, Terminal
    <2> QED
      BY <1>t, <2>1, <2>4, NothingDecided, CommitFollows DEF Tracked
  <1>5. CASE CommitStop
    <2>1. /\ status' = [status EXCEPT ![plan.run] = "interrupted"]
          /\ plan.kind = "stop" /\ Overtakes
          /\ turn' = turn \/ turn' = [turn EXCEPT ![<<step.run, step.att>>] = "begun"]
          /\ step' \in {step, Idle} /\ plan' = NoPlan
      BY <1>5 DEF CommitStop, End
    <2>2. plan.run \in Runs \ overtaken => status[plan.run] \in {"preparing", "starting", "running"}
      BY <2>1 DEF EInv, Misled
    <2>3. EndedStays
      BY <1>t, <2>1, <2>2 DEF Types, EndedStays, Terminal
    <2>4. TurnReads /\ StepReads
      BY <1>t, <2>1, NothingDecided DEF TurnStages
    <2> QED
      BY <2>1, <2>3, <2>4, CommitFollows DEF Tracked
  <1>6. CASE CommitInterrupt
    BY <1>6, <1>u DEF CommitInterrupt, turnVars
  <1>7. CASE CommitResume
    <2>1. UNCHANGED <<runVars, step, turn>> /\ plan'.kind = "advance"
      BY <1>7 DEF CommitResume, turnVars, laneVars, NoPlan
    <2> QED
      BY <2>1, <1>u
  <1>8. CASE CommitCancel
    <2>1. /\ status' = [status EXCEPT ![plan.run] = "cancelled"]
          /\ plan.kind = "cancel" /\ Overtakes
          /\ turn' = turn /\ step' = step /\ plan' = NoPlan
      BY <1>8 DEF CommitCancel, turnVars, laneVars
    <2>2. plan.run \in Runs \ overtaken => status[plan.run] = "queued"
      BY <2>1 DEF EInv, PlanReads
    <2> QED
      BY <2>1, <2>2, <1>m DEF Terminal
  <1>9. CASE CommitReorder
    BY <1>9, <1>u DEF CommitReorder, turnVars, laneVars
  <1>10. CASE CommitPrepared
    <2>1. turn' = turn /\ step' = step /\ plan' = NoPlan /\ Overtakes
      BY <1>10 DEF CommitPrepared, turnVars
    <2>2. CASE plan.kind \in {"release", "fail"}
      <3>1. \E s : status' = [status EXCEPT ![plan.run] = s]
        BY <1>10, <2>2 DEF CommitPrepared, End
      <3>2. plan.run \in Runs \ overtaken => status[plan.run] = "preparing"
        BY <2>2 DEF EInv, PlanReads
      <3> QED
        BY <2>1, <3>1, <3>2, <1>m DEF Terminal
    <2>3. CASE plan.kind = "retry"
      <3>1. status' = [status EXCEPT ![plan.run] = "preparing"]
        BY <1>10, <2>3 DEF CommitPrepared
      <3>2. plan.run \in Runs \ overtaken => class[plan.run] = "workspace"
        BY <2>3 DEF EInv, PlanReads
      <3>3. EndedStays
        BY <1>t, <3>1, <3>2 DEF Types, EndedStays
      <3> QED
        BY <1>t, <2>1, <3>3, NothingDecided, CommitFollows DEF Tracked
    <2> QED
      BY <1>10, <2>2, <2>3 DEF CommitPrepared
  <1>11. CASE CommitHold
    BY <1>11, <1>u DEF CommitHold, turnVars, laneVars
  <1>12. CASE CommitLaunch
    <2>1. /\ \E s : status' = [status EXCEPT ![plan.run] = s]
          /\ plan.kind = "launch" /\ Overtakes
          /\ turn' = turn /\ step' = step /\ plan' = NoPlan
      BY <1>12 DEF CommitLaunch, End, turnVars
    <2>2. plan.run \in Runs \ overtaken => status[plan.run] = "queued"
      BY <2>1 DEF EInv, PlanReads
    <2> QED
      BY <2>1, <2>2, <1>m DEF Terminal
  <1> QED
    BY <1>1, <1>2, <1>3, <1>4, <1>5, <1>6, <1>7, <1>8, <1>9, <1>10, <1>11, <1>12 DEF Commit

\* What the failures of the runs are classed as.
Classed == class \in [Runs -> Classes]

LEMMA ClassedStays == Classed /\ [Next]_vars => Classed'
  <1> SUFFICES ASSUME Classed, [Next]_vars PROVE Classed'
    OBVIOUS
  <1>q. CASE class' = class
    BY <1>q DEF Classed
  <1>e. ASSUME NEW r, NEW c \in Classes, class' = [class EXCEPT ![r] = c]
        PROVE  Classed'
    BY <1>e DEF Classed
  <1>1. CASE SendFresh \/ SendJoining \/ Stop \/ Edit \/ Prepared \/ Listen \/ Lose \/ FollowUp
    BY <1>1, <1>q DEF SendFresh, SendJoining, Stop, Edit, Prepared, Listen, Lose, FollowUp, Reads,
       runVars
  <1>2. CASE \/ ReadQueue \/ CommitQueue \/ CommitBegin \/ CommitJoin \/ CommitInterrupt
             \/ CommitResume \/ CommitCancel \/ CommitReorder \/ CommitHold
    BY <1>2, <1>q DEF ReadQueue, CommitQueue, CommitBegin, CommitJoin, CommitInterrupt,
       CommitResume, CommitCancel, CommitReorder, CommitHold, runVars
  <1>3. CASE CommitStop \/ CommitPrepared \/ CommitLaunch
    <2>1. \/ class' = class
          \/ \E c \in Classes : class' = [class EXCEPT ![plan.run] = c]
      BY <1>3 DEF CommitStop, CommitPrepared, CommitLaunch, End, Classes
    <2> QED
      BY <2>1, <1>q, <1>e
  <1>4. CASE Worker /\ ~FollowUp
    <2>1. \/ class' = class
          \/ \E c \in Classes : class' = [class EXCEPT ![step.run] = c]
      BY <1>4 DEF Worker, StartLoads, RestartInterrupts, RestartTimesOut, SessionOpens,
         SessionFails, TurnClears, TurnBegins, TurnRefused, StartFails, Steer, Interrupt,
         CaptureLoads, CaptureCommits, CaptureFails, End, Classes, runVars
    <2> QED
      BY <2>1, <1>q, <1>e
  <1>5. CASE \E x \in Attempted : Ingestion(x)
    <2>1. PICK x \in Attempted : Ingestion(x)
      BY <1>5
    <2>2. \/ class' = class
          \/ \E c \in Classes : class' = [class EXCEPT ![x[1]] = c]
      BY <2>1 DEF Ingestion, TurnProjected, TurnEnds, Decide, Finalize, End, Classes, runVars
    <2> QED
      BY <2>2, <1>q, <1>e
  <1>6. CASE ServerRestarts \/ UNCHANGED vars
    BY <1>6, <1>q DEF ServerRestarts, vars, runVars
  <1> QED
    BY <1>1, <1>2, <1>3, <1>4, <1>5, <1>6 DEF Next, Commit

\* An executor moves a run it just looked at, or as its capture loaded it.
LEMMA ExecutorMoves ==
    ASSUME HInv, Classed, EInv, Worker, ~FollowUp
    PROVE  Tracked /\ TurnReads /\ StepReads /\ Moves /\ plan' = plan
  <1>t. Types /\ StepHolds
    BY DEF HInv
  <1>1. CASE \/ StartLoads \/ RestartInterrupts \/ RestartTimesOut \/ TurnClears
             \/ StartFails \/ Steer \/ Interrupt \/ CaptureLoads \/ CaptureFails
    <2>1. UNCHANGED <<runVars, turn, plan>>
      BY <1>1 DEF StartLoads, RestartInterrupts, RestartTimesOut, TurnClears, StartFails, Steer,
                  Interrupt, CaptureLoads, CaptureFails, turnVars
    <2>2. StepReads
      <3>1. CASE CaptureLoads
        BY <3>1 DEF CaptureLoads, TryAgain, Settle, Idle, StepReads
      <3>2. CASE ~CaptureLoads
        BY <1>t, <1>1, <3>2 DEF StartLoads, RestartInterrupts, RestartTimesOut, TurnClears,
           StartFails, Steer, Interrupt, CaptureFails, LoadRun, TryAgain, Settle, Idle, Types,
           StepReads
      <3> QED
        BY <3>1, <3>2
    <2> QED
      BY <2>1, <2>2 DEF runVars, Tracked, TurnReads, Moves
  <1>2. CASE SessionOpens \/ SessionFails \/ TurnRefused
    <2>1. /\ UNCHANGED <<turn, plan>> /\ Overtakes
          /\ \/ status' = status /\ class' = class
             \/ /\ \A r \in Runs : r # step.run => status'[r] = status[r] /\ class'[r] = class[r]
                /\ status[step.run] \in {"starting", "running"}
      BY <1>t, <1>2 DEF SessionOpens, SessionFails, TurnRefused, IsCurrent, End, turnVars, Types,
         Classed
    <2>2. StepReads
      BY <1>t, <1>2 DEF SessionOpens, SessionFails, TurnRefused, TryAgain, Settle, Types, Idle,
         StepReads
    <2>3. Moves
      BY <1>t, <2>1 DEF Types, Moves
    <2> QED
      BY <2>1, <2>2, <2>3 DEF Tracked, TurnReads
  <1>3. CASE TurnBegins
    <2>1. /\ UNCHANGED <<runVars, plan>> /\ step' = Idle
          /\ turn' = [turn EXCEPT ![<<step.run, step.att>>] = "begun"]
      BY <1>3 DEF TurnBegins, Settle
    <2>2. TurnReads /\ StepReads
      BY <1>t, <2>1, NothingDecided DEF TurnStages
    <2> QED
      BY <2>1, <2>2 DEF runVars, Tracked, Moves
  <1>4. CASE CaptureCommits
    <2>1. /\ UNCHANGED <<turn, plan, class>> /\ step' = Idle /\ Overtakes
          /\ step.at = "capturing"
          /\ status' = [status EXCEPT ![step.run] =
                            IF step.was = "waiting" THEN "completed" ELSE step.was]
      BY <1>4 DEF CaptureCommits, turnVars, Settle, At
    <2>2. step.run \in Runs \ overtaken => status[step.run] = step.was
      BY <2>1 DEF EInv, Misled
    <2>3. Moves
      BY <1>t, <2>1, <2>2 DEF Types, StepHolds, Moves
    <2> QED
      BY <2>1, <2>3 DEF Tracked, TurnReads, StepReads, Idle
  <1> QED
    BY <1>1, <1>2, <1>3, <1>4 DEF Worker

LEMMA IngestionMoves ==
    ASSUME HInv, Classed, EInv, NEW x \in Attempted, Ingestion(x)
    PROVE  Tracked /\ TurnReads /\ StepReads /\ Moves /\ plan' = plan
  <1>t. Types /\ x[1] \in Runs /\ x[2] \in Attempts /\ x = <<x[1], x[2]>>
    BY DEF HInv, Attempted
  <1>1. CASE TurnProjected(x) \/ TurnEnds(x)
    <2>1. /\ UNCHANGED <<runVars, step, plan>>
          /\ \E s \in {"running", "ended"} : turn' = [turn EXCEPT ![x] = s]
      BY <1>1 DEF TurnProjected, TurnEnds, laneVars
    <2>2. TurnReads /\ StepReads
      BY <1>t, <2>1, NothingDecided DEF TurnStages
    <2> QED
      BY <2>1, <2>2 DEF runVars, Tracked, Moves
  <1>2. CASE Decide(x)
    <2>1. UNCHANGED <<runVars, step, plan>>
      BY <1>2 DEF Decide, laneVars
    <2>2. PICK to \in {"deciding", "done"} :
            /\ turn' = [turn EXCEPT ![x] = to]
            /\ to = "deciding" =>
                  attempt[x[1]] = x[2] /\ status[x[1]] \in {"starting", "running"}
      <3>1. Current(x[1]) = x => attempt[x[1]] = x[2]
        BY DEF Current
      <3> QED
        BY <1>2, <3>1 DEF Decide
    <2>3. TurnReads
      BY <1>t, <2>2 DEF Types, TurnReads, Attempted
    <2> QED
      BY <2>1, <2>3 DEF runVars, Tracked, Moves, StepReads
  <1>3. CASE Finalize(x)
    <2>1. /\ turn[x] = "deciding" /\ turn' = [turn EXCEPT ![x] = "done"]
          /\ plan' = plan /\ step' = step /\ Overtakes
          /\ \A r \in Runs : r # x[1] => status'[r] = status[r] /\ class'[r] = class[r]
      BY <1>t, <1>3 DEF Finalize, End, Types, Classed
    <2>2. x[1] \notin overtaken => status[x[1]] \in {"starting", "running"}
      BY <1>t, <2>1 DEF EInv, Misled
    <2>3. TurnReads /\ StepReads
      BY <1>t, <2>1, NothingDecided DEF TurnStages
    <2>4. Moves
      BY <1>t, <2>1, <2>2 DEF Types, Moves
    <2> QED
      BY <2>1, <2>3, <2>4 DEF Tracked
  <1> QED
    BY <1>1, <1>2, <1>3 DEF Ingestion

LEMMA RestartMoves ==
    ASSUME HInv, EInv, ServerRestarts
    PROVE  EInv' /\ EndedStays
  <1>1. /\ plan' = NoPlan /\ step' = Idle /\ Overtakes
        /\ \A r \in Runs : status'[r] = status[r] \/ status[r] \in Blocking
        /\ turn' = [x \in Runs \X Attempts |-> IF turn[x] = "none" THEN "none" ELSE "done"]
    BY DEF ServerRestarts, BlockingRuns
  <1>2. TurnReads /\ StepReads
    BY <1>1 DEF TurnReads, StepReads, Idle
  <1>3. EndedStays
    BY <1>1 DEF EndedStays, Terminal, Blocking
  <1> QED
    BY <1>1, <1>2, <1>3, CommitFollows DEF Tracked

LEMMA EInvStays == EInv /\ Classed /\ HInv /\ [Next]_vars => EInv' /\ EndedStays
  <1> SUFFICES ASSUME EInv, Classed, HInv, [Next]_vars PROVE EInv' /\ EndedStays
    OBVIOUS
  <1>1. CASE SendFresh \/ SendJoining \/ Stop \/ Edit \/ Prepared \/ FollowUp
    BY <1>1, CommandReadsRuns
  <1>2. CASE Listen \/ (Lose /\ plan' = NoPlan)
    <2>1. UNCHANGED <<runVars, turn, step>>
      BY <1>2 DEF Listen, Lose, turnVars, laneVars
    <2>3. plan'.kind \in {"none", "advance"}
      <3>1. CASE Listen
        BY <3>1 DEF Listen, NoPlan
      <3> QED
        BY <1>2, <3>1 DEF NoPlan
    <2>2. JustRead(plan')
      BY <2>3 DEF JustRead
    <2> QED
      BY <2>1, <2>2, ReadFollows DEF runVars
  <1>3. CASE Commit
    BY <1>3, CommitMoves
  <1>4. CASE Worker /\ ~FollowUp
    BY <1>4, ExecutorMoves, MovesFollow
  <1>5. CASE \E x \in Attempted : Ingestion(x)
    BY <1>5, IngestionMoves, MovesFollow
  <1>6. CASE ServerRestarts
    BY <1>6, RestartMoves
  <1>7. CASE UNCHANGED vars \/ (Lose /\ plan' # NoPlan)
    <2>1. UNCHANGED <<runVars, turn, step, plan>>
      BY <1>7 DEF vars, Lose, turnVars, laneVars
    <2>2. Tracked /\ TurnReads /\ StepReads /\ Moves
      BY <2>1 DEF runVars, Tracked, TurnReads, StepReads, Moves
    <2> QED
      BY <2>1, <2>2, MovesFollow
  <1> QED
    BY <1>1, <1>2, <1>3, <1>4, <1>5, <1>6, <1>7 DEF Next

LEMMA EInvStarts == Init => EInv /\ Classed
  <1>c. Init => Classed
    BY DEF Init, Classed, Classes
  <1> SUFFICES ASSUME Init, NEW r \in Runs PROVE ~Misled(r) /\ PlanReads(r)
    BY <1>c DEF EInv
  <1>1. \A a \in Attempts : turn[<<r, a>>] = "none"
    BY DEF Init
  <1>2. plan.kind = "none" /\ step.at = "idle"
    BY DEF Init, NoPlan, Idle
  <1> QED
    BY <1>1, <1>2 DEF Misled, PlanReads

\* No executor, capture, command or fiber brings back a run that ended, for every
\* size of the thread and whoever steps between a read and its write, unless the
\* run moved after it was read and before it was written: what each of them has
\* in hand is else what the projection says, and only the retry of a workspace
\* starts a run over.
THEOREM EndedRunsStayEnded == Spec => EndedStaysEnded
  <1>1. EInv /\ Classed /\ HInv /\ [Next]_vars =>
          [\A r \in Runs \ overtaken : status[r] \in Terminal =>
             \/ status'[r] = status[r]
             \/ class[r] = "workspace" /\ status'[r] = "preparing"]_vars
    BY EInvStays DEF EndedStays
  <1>2. EInv /\ Classed /\ HInv /\ [Next]_vars => EInv'
    BY EInvStays
  <1> QED
    BY <1>1, <1>2, ClassedStays, EInvStarts, HInvStarts, HInvStays, PTL DEF Spec, EndedStaysEnded

-----------------------------------------------------------------------------
(* One run blocks the thread, beside those brought back.                   *)

\* The runs that block the thread and moved under no write decided before.
Ahead == BlockingRuns \ overtaken

BInv ==
    /\ OneBlockingRun
    /\ plan.kind \in {"begin", "prepare", "launch", "retry"} => Ahead = {}
    /\ plan.kind \in {"restart", "release"} => Ahead \subseteq {plan.run} \/ plan.run \in overtaken

\* No run comes to block the thread.
LEMMA Shrinks ==
    ASSUME BInv, Ahead' \subseteq Ahead, overtaken \subseteq overtaken',
           \/ plan' \in {plan, NoPlan}
           \/ plan'.kind \notin {"begin", "prepare", "launch", "retry", "restart", "release"}
    PROVE  BInv'
  BY DEF BInv, OneBlockingRun, Ahead, NoPlan

\* The one run that starts to block had the thread for itself.
LEMMA StartsAlone ==
    ASSUME Ahead' \subseteq {plan.run}, plan' = NoPlan
    PROVE  BInv'
  BY DEF BInv, OneBlockingRun, Ahead, NoPlan

LEMMA MovedAside ==
    ASSUME Types, Tracked, NEW r, NEW s, s \notin Blocking,
           status' = status \/ status' = [status EXCEPT ![r] = s]
    PROVE  Ahead' \subseteq Ahead
  BY TrackedGrows DEF Types, Ahead, BlockingRuns

LEMMA MovedIn ==
    ASSUME Types, Tracked, NEW r, NEW s, Ahead \subseteq {r},
           status' = [status EXCEPT ![r] = s]
    PROVE  Ahead' \subseteq {r}
  BY TrackedGrows DEF Types, Ahead, BlockingRuns

LEMMA MovedOn ==
    ASSUME Tracked, Moves
    PROVE  Ahead' \subseteq Ahead
  BY TrackedGrows DEF Moves, Ahead, BlockingRuns, Blocking

\* What a command reads about one blocking run.
LEMMA ReadAhead ==
    ASSUME BInv, NEW r \in BlockingRuns
    PROVE  Ahead \subseteq {r} \/ r \in overtaken
  BY DEF BInv, OneBlockingRun, Ahead

\* A step that leaves the runs alone and plans nothing for a blocking run.
LEMMA QuietBlocks ==
    ASSUME BInv, UNCHANGED <<status, overtaken>>,
           \/ plan' \in {plan, NoPlan}
           \/ plan'.kind \notin {"begin", "prepare", "launch", "retry", "restart", "release"}
           \/ plan'.kind \notin {"restart", "release"} /\ BlockingRuns = {}
           \/ plan'.kind \in {"restart", "release"} /\ plan'.run \in BlockingRuns
    PROVE  BInv'
  <1>1. Ahead' = Ahead /\ OneBlockingRun' /\ overtaken' = overtaken
    BY DEF BInv, OneBlockingRun, Ahead, BlockingRuns
  <1>2. CASE BlockingRuns = {}
    BY <1>1, <1>2 DEF BInv, Ahead, NoPlan
  <1>3. CASE plan'.kind \in {"restart", "release"} /\ plan'.run \in BlockingRuns
    BY <1>1, <1>3, ReadAhead DEF BInv
  <1> QED
    BY <1>1, <1>2, <1>3 DEF BInv, NoPlan

LEMMA CommandBlocks ==
    ASSUME BInv, SendFresh \/ SendJoining \/ Stop \/ Edit \/ Prepared \/ FollowUp
    PROVE  BInv'
  <1>1. Reads
    BY DEF SendFresh, SendJoining, Stop, Edit, Prepared, FollowUp
  <1>2. UNCHANGED <<status, overtaken>>
    BY <1>1 DEF Reads, runVars
  <1>3. ASSUME NEW m, NEW kind \in {"begin", "prepare"}, plan' = FreshPlan(m, kind)
        PROVE  BInv'
    <2>1. /\ plan'.kind \in {"queue", "begin", "prepare"}
          /\ plan'.kind # "queue" => BlockingRuns = {}
      BY <1>3 DEF FreshPlan, NoPlan
    <2> QED
      BY <1>2, <2>1, QuietBlocks
  <1>5. CASE SendFresh
    <2>1. \E kind \in {"begin", "prepare"} : plan' = FreshPlan(NextMessage, kind)
      BY <1>5 DEF SendFresh
    <2> QED
      BY <2>1, <1>3
  <1>6. CASE FollowUp
    <2>1. plan' = FreshPlan(Head(lane).msg, "begin")
      BY <1>6 DEF FollowUp
    <2> QED
      BY <2>1, <1>3
  <1>7. CASE SendJoining
    <2>1. PICK r \in Runs : Steerable(r) /\ plan'.kind \in {"steer", "restart"} /\ plan'.run = r
      BY <1>7 DEF SendJoining, JoinPlan, NoPlan
    <2>2. r \in BlockingRuns
      BY <2>1 DEF Steerable, BlockingRuns, Blocking
    <2> QED
      BY <1>2, <2>1, <2>2, QuietBlocks
  <1>8. CASE Stop
    <2>1. plan'.kind \in {"stop", "interrupt"}
      BY <1>8 DEF Stop, NoPlan
    <2> QED
      BY <1>2, <2>1, QuietBlocks
  <1>9. CASE Edit
    <2>1. \/ plan'.kind \in {"resume", "cancel", "reorder"}
          \/ plan'.kind = "retry" /\ BlockingRuns = {}
      BY <1>9 DEF Edit, NoPlan
    <2> QED
      BY <1>2, <2>1, QuietBlocks
  <1>10. CASE Prepared
    <2>1. PICK r \in Runs, kind \in {"release", "fail"} :
            status[r] = "preparing" /\ plan' = [NoPlan EXCEPT !.kind = kind, !.run = r]
      BY <1>10 DEF Prepared
    <2>2. r \in BlockingRuns /\ plan'.kind \in {"release", "fail"} /\ plan'.run = r
      BY <2>1 DEF BlockingRuns, Blocking, NoPlan
    <2> QED
      BY <1>2, <2>2, QuietBlocks
  <1> QED
    BY <1>5, <1>6, <1>7, <1>8, <1>9, <1>10

LEMMA CommitBlocks ==
    ASSUME Types, BInv, Commit
    PROVE  BInv'
  <1> USE DEF Committing
  \* The one run that starts to block had the thread for itself, or is one that
  \* was brought back.
  <1>o. ASSUME Ahead \subseteq {plan.run} \/ plan.run \in overtaken, NEW s,
               status' = [status EXCEPT ![plan.run] = s], Overtakes, plan' = NoPlan
        PROVE  BInv'
    <2>1. Tracked /\ overtaken \subseteq overtaken'
      BY <1>o, TrackedGrows DEF Tracked
    <2>2. CASE Ahead \subseteq {plan.run}
      BY <1>o, <2>1, <2>2, MovedIn, StartsAlone
    <2>3. CASE plan.run \in overtaken
      <3>1. Ahead' \subseteq Ahead
        BY <1>o, <2>1, <2>3 DEF Types, Ahead, BlockingRuns
      <3> QED
        BY <1>o, <2>1, <3>1, Shrinks
    <2> QED
      BY <1>o, <2>2, <2>3
  \* The others only leave.
  <1>q. ASSUME NEW r, NEW s, s \notin Blocking, Overtakes,
               status' = [status EXCEPT ![r] = s], plan' = NoPlan
        PROVE  BInv'
    <2>1. Tracked /\ overtaken \subseteq overtaken'
      BY <1>q, TrackedGrows DEF Tracked
    <2> QED
      BY <1>q, <2>1, MovedAside, Shrinks
  <1>1. CASE ReadQueue
    <2>1. UNCHANGED <<status, overtaken>>
      BY <1>1 DEF ReadQueue, runVars
    <2>2. CASE plan' = NoPlan \/ plan' = [NoPlan EXCEPT !.kind = "hold"]
      BY <2>1, <2>2, QuietBlocks DEF NoPlan
    <2>3. CASE ~NothingToStart /\ \E q \in Queued : plan' = [NoPlan EXCEPT !.kind = "launch", !.run = q]
      <3>1. plan'.kind = "launch" /\ BlockingRuns = {}
        BY <2>3 DEF NothingToStart, NoPlan
      <3> QED
        BY <2>1, <3>1, QuietBlocks
    <2> QED
      BY <1>1, <2>2, <2>3 DEF ReadQueue
  <1>2. CASE CommitQueue
    BY <1>2, <1>q, "queued" \notin Blocking DEF CommitQueue, Blocking
  <1>3. CASE CommitBegin
    <2>1. /\ Ahead \subseteq {plan.run} /\ plan' = NoPlan /\ Overtakes
          /\ \E s : status' = [status EXCEPT ![plan.run] = s]
      BY <1>3 DEF CommitBegin, BInv
    <2> QED
      BY <2>1, <1>o
  <1>4. CASE CommitJoin
    <2>1. plan' = NoPlan /\ Overtakes
      BY <1>4 DEF CommitJoin
    <2>t. Tracked /\ overtaken \subseteq overtaken'
      BY <2>1, TrackedGrows DEF Tracked
    <2>2. LeaveQueue(status, plan.from) \in {status, [status EXCEPT ![plan.from] = "cancelled"]}
      BY DEF LeaveQueue
    <2>3. CASE plan.kind = "steer"
      <3>1. status' = status \/ status' = [status EXCEPT ![plan.from] = "cancelled"]
        BY <1>4, <2>2, <2>3 DEF CommitJoin
      <3>2. Ahead' \subseteq Ahead
        BY <2>t, <3>1, MovedAside DEF Blocking
      <3> QED
        BY <2>1, <2>t, <3>2, Shrinks
    <2>4. CASE plan.kind = "restart"
      <3>1. status' = [LeaveQueue(status, plan.from) EXCEPT ![plan.run] = "starting"]
        BY <1>4, <2>4 DEF CommitJoin
      <3>2. Ahead' \subseteq Ahead \cup {plan.run}
        BY <2>2, <2>t, <3>1 DEF Types, Ahead, BlockingRuns, Blocking
      <3>3. CASE plan.run \in overtaken
        <4>1. Ahead' \subseteq Ahead
          BY <2>t, <3>2, <3>3 DEF Ahead
        <4> QED
          BY <2>1, <2>t, <4>1, Shrinks
      <3>4. CASE Ahead \subseteq {plan.run}
        BY <2>1, <3>2, <3>4, StartsAlone
      <3> QED
        BY <2>4, <3>3, <3>4 DEF BInv
    <2> QED
      BY <1>4, <2>3, <2>4 DEF CommitJoin
  <1>5. CASE CommitStop
    BY <1>5, <1>q, "interrupted" \notin Blocking DEF CommitStop, End, Blocking
  <1>6. CASE CommitInterrupt \/ CommitReorder \/ CommitHold
    <2>1. UNCHANGED <<status, overtaken>> /\ plan' = NoPlan
      BY <1>6 DEF CommitInterrupt, CommitReorder, CommitHold, runVars
    <2> QED
      BY <2>1, QuietBlocks
  <1>7. CASE CommitResume
    <2>1. UNCHANGED <<status, overtaken>> /\ plan'.kind = "advance"
      BY <1>7 DEF CommitResume, runVars, NoPlan
    <2> QED
      BY <2>1, QuietBlocks
  <1>8. CASE CommitCancel
    BY <1>8, <1>q, "cancelled" \notin Blocking DEF CommitCancel, Blocking
  <1>10. CASE CommitPrepared
    <2>1. plan' = NoPlan /\ Overtakes
      BY <1>10 DEF CommitPrepared
    <2>2. CASE plan.kind = "fail"
      <3>1. status' = [status EXCEPT ![plan.run] = "failed"]
        BY <1>10, <2>2 DEF CommitPrepared, End
      <3> QED
        BY <2>1, <3>1, <1>q, "failed" \notin Blocking DEF Blocking
    <2>3. CASE plan.kind \in {"release", "retry"}
      <3>1. /\ Ahead \subseteq {plan.run} \/ plan.run \in overtaken
            /\ \E s : status' = [status EXCEPT ![plan.run] = s]
        BY <1>10, <2>3 DEF CommitPrepared, BInv
      <3> QED
        BY <2>1, <3>1, <1>o
    <2> QED
      BY <1>10, <2>2, <2>3 DEF CommitPrepared
  <1>12. CASE CommitLaunch
    <2>1. /\ Ahead \subseteq {plan.run} /\ plan' = NoPlan /\ Overtakes
          /\ \E s : status' = [status EXCEPT ![plan.run] = s]
      BY <1>12 DEF CommitLaunch, End, BInv
    <2> QED
      BY <2>1, <1>o
  <1> QED
    BY <1>1, <1>2, <1>3, <1>4, <1>5, <1>6, <1>7, <1>8, <1>10, <1>12 DEF Commit

LEMMA BInvStays == BInv /\ EInv /\ Classed /\ HInv /\ [Next]_vars => BInv'
  <1> SUFFICES ASSUME BInv, EInv, Classed, HInv, [Next]_vars PROVE BInv'
    OBVIOUS
  <1>t. Types
    BY DEF HInv
  <1>m. ASSUME Tracked, Moves, plan' = plan
        PROVE  BInv'
    BY <1>m, MovedOn, TrackedGrows, Shrinks
  <1>1. CASE SendFresh \/ SendJoining \/ Stop \/ Edit \/ Prepared \/ FollowUp
    BY <1>1, CommandBlocks
  <1>2. CASE Listen
    <2>1. UNCHANGED <<status, overtaken>> /\ plan'.kind = "advance"
      BY <1>2 DEF Listen, NoPlan, runVars
    <2> QED
      BY <2>1, QuietBlocks
  <1>3. CASE Commit
    BY <1>t, <1>3, CommitBlocks
  <1>4. CASE Worker /\ ~FollowUp
    BY <1>4, <1>m, ExecutorMoves
  <1>5. CASE \E x \in Attempted : Ingestion(x)
    BY <1>5, <1>m, IngestionMoves
  <1>6. CASE ServerRestarts
    <2>1. /\ plan' = NoPlan /\ Overtakes
          /\ \A r \in Runs : status'[r] \in {"cancelled", status[r]}
      BY <1>6 DEF ServerRestarts
    <2>2. overtaken \subseteq overtaken'
      BY <2>1, TrackedGrows DEF Tracked
    <2>3. Ahead' \subseteq Ahead
      BY <2>1, <2>2 DEF Ahead, BlockingRuns, Blocking
    <2> QED
      BY <2>1, <2>2, <2>3, Shrinks
  <1>7. CASE Lose \/ UNCHANGED vars
    <2>1. UNCHANGED <<status, overtaken>> /\ plan' \in {plan, NoPlan}
      BY <1>7 DEF Lose, vars, runVars
    <2> QED
      BY <2>1, QuietBlocks
  <1> QED
    BY <1>1, <1>2, <1>3, <1>4, <1>5, <1>6, <1>7 DEF Next

\* At most one run of the thread blocks it, for every size of the thread and
\* whoever steps between a read and its write, beside the runs that moved on
\* under a write decided before: no command, executor or fiber lets a second run
\* start to move.
THEOREM OneRunBlocks == Spec => []OneBlockingRun
  <1>1. Init => BInv
    BY DEF Init, BInv, OneBlockingRun, Ahead, BlockingRuns, Blocking, NoPlan
  <1>2. BInv => OneBlockingRun
    BY DEF BInv
  <1> QED
    BY <1>1, <1>2, HInvStarts, HInvStays, EInvStarts, EInvStays, ClassedStays, BInvStays, PTL DEF Spec

=============================================================================
