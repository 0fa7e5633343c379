----------------------------- MODULE EventSink -----------------------------
(***************************************************************************)
(* The event sink of the orchestration engine                              *)
(* (orchestration-v2/EventSink.ts, persistence/OrchestrationEventStore.ts, *)
(* orchestration-v2/LiveStreamBudget.ts): writers append events to the     *)
(* event table in SQLite transactions and publish them to PubSubs after    *)
(* the commit, and streams read the table up to a high-water mark and      *)
(* continue with what was published.                                       *)
(*                                                                         *)
(* An event is its sequence (its index in the log) and its topic, which    *)
(* stands for the thread and event type a stream filters by.  What a       *)
(* writer does inside its transaction is one step: the connection admits   *)
(* one transaction at a time and readers see committed rows only.          *)
(***************************************************************************)
EXTENDS Lines, FiniteSets

CONSTANTS
    Writers,        \* fibers that commit events
    NoWriter,
    Subscribers,
    Topics,         \* topics of thread events
    Project,        \* the topic of project events
    Watched,        \* the topics that pass a filtered stream
    MaxLog,         \* bound: events ever committed
    MaxBatch,       \* bound: events of one transaction
    MaxFaults,      \* bound: failed transactions, interrupted publications, lost
                    \* connections and crashes
    PageSize,       \* rows of one page of a replay, 256 in production
    BufferLimit     \* live events a bounded stream retains, 1000 in production

ASSUME SinkAssumption ==
    /\ NoWriter \notin Writers
    /\ Project \notin Topics
    /\ Watched \subseteq Topics
    /\ MaxLog \in Nat /\ MaxBatch \in Nat \ {0} /\ MaxFaults \in Nat
    /\ PageSize \in Nat \ {0} /\ BufferLimit \in Nat \ {0}

VARIABLES
    log,        \* orchestration_events: the topics, in sequence order
    txn,        \* the writer whose transaction is open, or NoWriter
    lane,       \* the writer that holds publishLane, or NoWriter
    pc,         \* writer -> where in commitThenPublish it is
    pending,    \* writer -> the events of its transaction, then those it is to publish
    kind,       \* subscriber -> which stream it opens
    phase,      \* subscriber -> how far its stream is
    cursor,     \* subscriber -> the last sequence it received, its next afterSequence
    inbox,      \* subscriber -> its PubSub subscription
    through,    \* subscriber -> throughSequence: live events up to here are in the replay
    readTo,     \* subscriber -> where the next page of the replay starts
    page,       \* subscriber -> replayed events not delivered yet
    buffer,     \* subscriber -> live events a bounded stream retains
    missed,     \* history: subscriber -> events its open stream will not be sent
    faults      \* faults so far

writerVars == <<txn, lane, pc, pending>>
streamVars == <<phase, cursor, inbox, through, readTo, page, buffer, missed>>
vars == <<log, writerVars, kind, streamVars, faults>>

AllTopics == Topics \cup {Project}
EventsOn(topics) == [seq : Nat, topic : topics]
Event == EventsOn(AllTopics)

\* "application": the shell's stream of every event; "thread": the stream an
\* RPC client opens with its last sequence; "worker": an internal listener to
\* one event type, which starts at the end of the log and is never bounded.
Kinds   == {"application", "thread", "worker"}
Phases  == {"off", "positioned", "subscribed", "replaying", "live"}
Stages  == {"idle", "writing", "holding", "application", "live", "typed", "releasing"}

\* Stages between a commit and the end of its publication.
Publishing == {"application", "live", "typed"}

TypeOK ==
    /\ log \in Seq(AllTopics)
    /\ txn \in Writers \cup {NoWriter}
    /\ lane \in Writers \cup {NoWriter}
    /\ pc \in [Writers -> Stages]
    /\ pending \in [Writers -> Seq(Event)]
    /\ kind \in [Subscribers -> Kinds]
    /\ phase \in [Subscribers -> Phases]
    /\ cursor \in [Subscribers -> Nat]
    /\ inbox \in [Subscribers -> Seq(Event)]
    /\ through \in [Subscribers -> Nat]
    /\ readTo \in [Subscribers -> Nat]
    /\ page \in [Subscribers -> Seq(Event)]
    /\ buffer \in [Subscribers -> Seq(Event)]
    /\ missed \in [Subscribers -> SUBSET Nat]
    /\ faults \in Nat

WritersIdle ==
    /\ txn = NoWriter
    /\ lane = NoWriter
    /\ pc = [w \in Writers |-> "idle"]
    /\ pending = [w \in Writers |-> <<>>]

StreamsOff ==
    /\ phase = [s \in Subscribers |-> "off"]
    /\ inbox = [s \in Subscribers |-> <<>>]
    /\ through = [s \in Subscribers |-> 0]
    /\ readTo = [s \in Subscribers |-> 0]
    /\ page = [s \in Subscribers |-> <<>>]
    /\ buffer = [s \in Subscribers |-> <<>>]
    /\ missed = [s \in Subscribers |-> {}]

Init ==
    /\ log = <<>>
    /\ WritersIdle
    /\ kind \in [Subscribers -> Kinds]
    /\ StreamsOff
    /\ cursor = [s \in Subscribers |-> 0]
    /\ faults = 0

Fault == faults < MaxFaults /\ faults' = faults + 1
-----------------------------------------------------------------------------
(* Writers.                                                                *)

Goto(w, stage) == pc' = [pc EXCEPT ![w] = stage]

\* Thread events of one write, one project event, or nothing: a conditional
\* write found the run taken over, or the command already had a receipt.
Batches == {<<>>, <<Project>>} \cup UNION {[1..n -> Topics] : n \in 1..MaxBatch}

\* The rows of batch b as the INSERTs number them.
Stored(b) == [i \in DOMAIN b |-> [seq |-> Len(log) + i, topic |-> b[i]]]

\* The transaction up to its last step.
RunTransaction(w, b) ==
    /\ pc[w] = "idle"
    /\ txn = NoWriter
    /\ Len(log) + Len(b) <= MaxLog
    /\ txn' = w
    /\ pending' = [pending EXCEPT ![w] = Stored(b)]
    /\ Goto(w, "writing")
    /\ UNCHANGED <<log, lane, kind, streamVars, faults>>

\* The transaction ends without a commit.
Rollback(w, stage) ==
    /\ txn' = NoWriter
    /\ pending' = [pending EXCEPT ![w] = <<>>]
    /\ Goto(w, stage)
    /\ Fault
    /\ UNCHANGED <<log, lane, kind, streamVars>>

\* A statement fails, or the fiber is interrupted, before the lane is asked for.
FailTransaction(w) == pc[w] = "writing" /\ Rollback(w, "idle")

\* takeLane: uninterruptible, the last step inside the transaction.
TakeLane(w) ==
    /\ pc[w] = "writing"
    /\ lane = NoWriter
    /\ lane' = w
    /\ Goto(w, "holding")
    /\ UNCHANGED <<log, txn, pending, kind, streamVars, faults>>

\* COMMIT fails, or an interruption was waiting for takeLane to end.
\* Mutant: the lane is released only by a writer that committed.
FailCommit_KeepsLane(w) == pc[w] = "holding" /\ Rollback(w, "idle")

FailCommit(w) == pc[w] = "holding" /\ Rollback(w, "releasing")

\* Mutant: the lane is not held while publishing.
Commit_ReleasesLane(w) ==
    /\ pc[w] = "holding"
    /\ log' = log \o [i \in DOMAIN pending[w] |-> pending[w][i].topic]
    /\ txn' = NoWriter
    /\ lane' = NoWriter
    /\ Goto(w, IF pending[w] = <<>> THEN "releasing" ELSE "application")
    /\ UNCHANGED <<pending, kind, streamVars, faults>>

Commit(w) ==
    /\ pc[w] = "holding"
    /\ log' = log \o [i \in DOMAIN pending[w] |-> pending[w][i].topic]
    /\ txn' = NoWriter
    /\ Goto(w, IF pending[w] = <<>> THEN "releasing" ELSE "application")
    /\ UNCHANGED <<lane, pending, kind, streamVars, faults>>

\* The PubSub a stream subscribes to.
HubOf(s) == CASE kind[s] = "application" -> "application"
              [] kind[s] = "thread"      -> "live"
              [] kind[s] = "worker"      -> "typed"

\* Only the listeners of an event's own type get it from the typed PubSubs.
Reaches(s, stage) == phase[s] \in {"subscribed", "replaying", "live"} /\ HubOf(s) = stage

Wants(s) == IF kind[s] = "application" THEN AllTopics ELSE Watched

Wanted(s, e) == e.topic \in Wants(s)

Published(s, stage, events) ==
    IF ~ Reaches(s, stage) THEN <<>>
    ELSE IF stage = "typed" THEN Only(events, EventsOn(Wants(s)))
    ELSE events

\* publishCommitted, then publishLiveEvents: each PubSub in turn.  Project
\* events go to the application's PubSub only.
NextStage(w) ==
    CASE pc[w] = "application" -> IF pending[w][1].topic = Project THEN "releasing" ELSE "live"
      [] pc[w] = "live"        -> "typed"
      [] pc[w] = "typed"       -> "releasing"

Publish(w) ==
    /\ pc[w] \in Publishing
    /\ inbox' = [s \in Subscribers |-> inbox[s] \o Published(s, pc[w], pending[w])]
    /\ Goto(w, NextStage(w))
    /\ UNCHANGED <<log, txn, lane, pending, kind, phase, cursor, through, readTo, page, buffer, missed, faults>>

\* The PubSubs a writer has not published to yet.
Remaining(w) ==
    LET rank == [application |-> 1, live |-> 2, typed |-> 3]
    IN  {hub \in Publishing : pc[w] \in Publishing /\ rank[pc[w]] <= rank[hub]}

Sequences(events) == {events[i].seq : i \in DOMAIN events}

\* The writer's fiber is interrupted: commitThenPublish is uninterruptible
\* neither between the commit and Effect.tap(publish) nor inside publish.  An
\* open stream whose replay ends before the events does not come across them.
InterruptPublish(w) ==
    /\ pc[w] \in Publishing
    /\ Fault
    /\ Goto(w, "releasing")
    /\ missed' = [s \in Subscribers |->
          IF phase[s] \in {"replaying", "live"} /\ HubOf(s) \in Remaining(w)
          THEN missed[s] \cup {n \in Sequences(pending[w]) : n > through[s]}
          ELSE missed[s]]
    /\ UNCHANGED <<log, txn, lane, pending, kind, phase, cursor, inbox, through, readTo, page, buffer>>

\* Effect.ensuring: the lane is released however the writer ends.
ReleaseLane(w) ==
    /\ pc[w] = "releasing"
    /\ lane' = NoWriter
    /\ pending' = [pending EXCEPT ![w] = <<>>]
    /\ Goto(w, "idle")
    /\ UNCHANGED <<log, txn, kind, streamVars, faults>>
-----------------------------------------------------------------------------
(* Streams.                                                                *)

Bounded(s) == kind[s] # "worker"

\* MAX(sequence) of the rows the stream is about, 0 for an empty table.
\* Project events share the sequence but are no thread events.
\* Mutant: MAX of no rows is NULL, here -1.
LatestSequence_Null(s) ==
    IF \A i \in 1..Len(log) : kind[s] # "application" /\ log[i] = Project THEN -1
    ELSE CHOOSE n \in 1..Len(log) :
        /\ kind[s] = "application" \/ log[n] # Project
        /\ \A i \in (n + 1)..Len(log) : kind[s] # "application" /\ log[i] = Project

LatestSequence(s) ==
    CHOOSE n \in 0..Len(log) :
        /\ n > 0 => (kind[s] = "application" \/ log[n] # Project)
        /\ \A i \in (n + 1)..Len(log) : kind[s] # "application" /\ log[i] = Project

\* An internal listener reads the latest sequence before it opens its stream.
ReadPosition(s) ==
    /\ kind[s] = "worker"
    /\ phase[s] = "off"
    /\ phase' = [phase EXCEPT ![s] = "positioned"]
    /\ cursor' = [cursor EXCEPT ![s] = LatestSequence(s)]
    /\ UNCHANGED <<log, writerVars, kind, inbox, through, readTo, page, buffer, missed, faults>>

\* PubSub.subscribe, before the high-water mark is read.
Subscribe(s) ==
    /\ phase[s] = IF kind[s] = "worker" THEN "positioned" ELSE "off"
    /\ phase' = [phase EXCEPT ![s] = "subscribed"]
    /\ through' = [through EXCEPT ![s] = cursor[s]]
    /\ UNCHANGED <<log, writerVars, kind, cursor, inbox, readTo, page, buffer, missed, faults>>

\* Mutant: the mark stays where the stream was opened, and nothing is replayed.
ReadHighWater_NoReplay(s) ==
    /\ phase[s] = "subscribed"
    /\ phase' = [phase EXCEPT ![s] = "replaying"]
    /\ readTo' = [readTo EXCEPT ![s] = cursor[s]]
    /\ UNCHANGED <<log, writerVars, kind, cursor, inbox, through, page, buffer, missed, faults>>

Larger(a, b) == IF a < b THEN b ELSE a

ReadHighWater(s) ==
    /\ phase[s] = "subscribed"
    /\ phase' = [phase EXCEPT ![s] = "replaying"]
    /\ through' = [through EXCEPT ![s] = Larger(LatestSequence(s), cursor[s])]
    /\ readTo' = [readTo EXCEPT ![s] = cursor[s]]
    /\ UNCHANGED <<log, writerVars, kind, cursor, inbox, page, buffer, missed, faults>>

\* The rows (from, to] that the stream wants, in order, at most n of them.
Rows(s, from, to, n) ==
    LET rows == Only([i \in 1..(to - from) |-> [seq |-> from + i, topic |-> log[from + i]]],
                     EventsOn(Wants(s)))
    IN  SubSeq(rows, 1, IF Len(rows) < n THEN Len(rows) ELSE n)

\* catchUp: a page shorter than PageSize is the last one.
\* Mutant: every page is taken for the last one.
ReadPage_OnePage(s) ==
    LET rows == Rows(s, readTo[s], through[s], PageSize)
    IN  /\ phase[s] = "replaying" /\ page[s] = <<>> /\ readTo[s] < through[s]
        /\ page' = [page EXCEPT ![s] = rows]
        /\ readTo' = [readTo EXCEPT ![s] = through[s]]
        /\ UNCHANGED <<log, writerVars, kind, phase, cursor, inbox, through, buffer, missed, faults>>

ReadPage(s) ==
    LET rows == Rows(s, readTo[s], through[s], PageSize)
    IN  /\ phase[s] = "replaying" /\ page[s] = <<>> /\ readTo[s] < through[s]
        /\ page' = [page EXCEPT ![s] = rows]
        /\ readTo' = [readTo EXCEPT ![s] =
              IF Len(rows) < PageSize THEN through[s] ELSE rows[PageSize].seq]
        /\ UNCHANGED <<log, writerVars, kind, phase, cursor, inbox, through, buffer, missed, faults>>

\* Live events and the event in delivery share one budget.
HasRoom(s) == ~ Bounded(s) \/ Len(buffer[s]) < BufferLimit

DeliverReplayed(s) ==
    /\ phase[s] = "replaying"
    /\ page[s] # <<>>
    /\ HasRoom(s)
    /\ cursor' = [cursor EXCEPT ![s] = Head(page[s]).seq]
    /\ page' = [page EXCEPT ![s] = Tail(@)]
    /\ UNCHANGED <<log, writerVars, kind, phase, inbox, through, readTo, buffer, missed, faults>>

\* Stream.concat goes on with the live part.
GoLive(s) ==
    /\ phase[s] = "replaying" /\ page[s] = <<>> /\ readTo[s] >= through[s]
    /\ phase' = [phase EXCEPT ![s] = "live"]
    /\ UNCHANGED <<log, writerVars, kind, cursor, inbox, through, readTo, page, buffer, missed, faults>>

\* A live event above the mark that passes the stream's filter.
IsNew(s, e) == e.seq > through[s] /\ Wanted(s, e)

\* A bounded stream's fiber moves live events into its buffer from the moment
\* it subscribed.
Drain(s) ==
    LET e == Head(inbox[s])
    IN  /\ Bounded(s) /\ inbox[s] # <<>>
        /\ IsNew(s, e) => HasRoom(s)
        /\ inbox' = [inbox EXCEPT ![s] = Tail(@)]
        /\ buffer' = IF IsNew(s, e) THEN [buffer EXCEPT ![s] = Append(@, e)] ELSE buffer
        /\ UNCHANGED <<log, writerVars, kind, phase, cursor, through, readTo, page, missed, faults>>

\* The end of a client's stream; its cursor stays with the client.
Close(s) ==
    /\ phase' = [phase EXCEPT ![s] = "off"]
    /\ inbox' = [inbox EXCEPT ![s] = <<>>]
    /\ page' = [page EXCEPT ![s] = <<>>]
    /\ buffer' = [buffer EXCEPT ![s] = <<>>]
    /\ missed' = [missed EXCEPT ![s] = {}]
    /\ through' = [through EXCEPT ![s] = 0]
    /\ readTo' = [readTo EXCEPT ![s] = 0]
    /\ UNCHANGED <<log, writerVars, kind, cursor>>

\* "The live event buffer is full. Resume from the last received sequence."
Overflow(s) ==
    /\ ~ HasRoom(s)
    /\ \/ inbox[s] # <<>> /\ IsNew(s, Head(inbox[s]))
       \/ phase[s] = "replaying" /\ page[s] # <<>>
    /\ Close(s)
    /\ UNCHANGED faults

\* Mutant: what the replay already holds is delivered again.
DeliverBuffered_NoFilter(s) ==
    /\ phase[s] = "live" /\ Bounded(s) /\ buffer[s] # <<>>
    /\ buffer' = [buffer EXCEPT ![s] = Tail(@)]
    /\ cursor' = [cursor EXCEPT ![s] = Head(buffer[s]).seq]
    /\ UNCHANGED <<log, writerVars, kind, phase, inbox, through, readTo, page, missed, faults>>

\* The buffer may hold events retained before the mark was known.
DeliverBuffered(s) ==
    LET e == Head(buffer[s])
    IN  /\ phase[s] = "live" /\ Bounded(s) /\ buffer[s] # <<>>
        /\ buffer' = [buffer EXCEPT ![s] = Tail(@)]
        /\ cursor' = IF e.seq > through[s] THEN [cursor EXCEPT ![s] = e.seq] ELSE cursor
        /\ UNCHANGED <<log, writerVars, kind, phase, inbox, through, readTo, page, missed, faults>>

DeliverLive(s) ==
    LET e == Head(inbox[s])
    IN  /\ phase[s] = "live" /\ ~ Bounded(s) /\ inbox[s] # <<>>
        /\ inbox' = [inbox EXCEPT ![s] = Tail(@)]
        /\ cursor' = IF IsNew(s, e) THEN [cursor EXCEPT ![s] = e.seq] ELSE cursor
        /\ UNCHANGED <<log, writerVars, kind, phase, through, readTo, page, buffer, missed, faults>>

\* A client's connection is lost.
Disconnect(s) == Bounded(s) /\ phase[s] # "off" /\ Fault /\ Close(s)
-----------------------------------------------------------------------------
\* The server process is lost: open transactions roll back, and clients will
\* open their streams again.
Crash ==
    /\ Fault
    /\ txn' = NoWriter
    /\ lane' = NoWriter
    /\ pc' = [w \in Writers |-> "idle"]
    /\ pending' = [w \in Writers |-> <<>>]
    /\ phase' = [s \in Subscribers |-> "off"]
    /\ inbox' = [s \in Subscribers |-> <<>>]
    /\ through' = [s \in Subscribers |-> 0]
    /\ readTo' = [s \in Subscribers |-> 0]
    /\ page' = [s \in Subscribers |-> <<>>]
    /\ buffer' = [s \in Subscribers |-> <<>>]
    /\ missed' = [s \in Subscribers |-> {}]
    /\ UNCHANGED <<log, kind, cursor>>

\* The steps a writer takes by itself once its transaction is open.
Finish(w) == TakeLane(w) \/ Commit(w) \/ Publish(w) \/ ReleaseLane(w)

\* The steps of a stream.
Follow(s) ==
    \/ ReadPosition(s) \/ Subscribe(s) \/ ReadHighWater(s)
    \/ ReadPage(s) \/ DeliverReplayed(s) \/ GoLive(s)
    \/ Drain(s) \/ Overflow(s) \/ DeliverBuffered(s) \/ DeliverLive(s)

Next ==
    \/ \E w \in Writers :
          \/ \E b \in Batches : RunTransaction(w, b)
          \/ FailTransaction(w) \/ FailCommit(w) \/ InterruptPublish(w)
          \/ Finish(w)
    \/ \E s \in Subscribers : Follow(s) \/ Disconnect(s)
    \/ Crash

Fairness ==
    /\ \A w \in Writers : WF_vars(Finish(w))
    /\ \A s \in Subscribers : WF_vars(Follow(s))

Spec == Init /\ [][Next]_vars
FairSpec == Spec /\ Fairness
-----------------------------------------------------------------------------
(* Properties.                                                             *)

\* Nobody commits while a writer publishes: what a writer is about to publish
\* is the end of the log.  "Transactions commit one at a time, but each writer
\* publishes after its commit"; publishLane is what keeps the two in one order.
PublishesTheEndOfTheLog ==
    \A w \in Writers : pc[w] \in Publishing =>
        /\ lane = w
        /\ \A i \in DOMAIN pending[w] :
              /\ pending[w][i].seq = Len(log) - Len(pending[w]) + i
              /\ pending[w][i].topic = log[pending[w][i].seq]

\* The sequences an open stream will still come across.
OnTheWay(s) ==
    IF phase[s] = "subscribed" THEN (cursor[s] + 1)..Len(log)
    ELSE (readTo[s] + 1)..through[s]
            \cup Sequences(page[s]) \cup Sequences(buffer[s]) \cup Sequences(inbox[s])
            \cup UNION {Sequences(pending[w]) : w \in {v \in Writers : HubOf(s) \in Remaining(v)}}

OutOfReach(s) ==
    {i \in (cursor[s] + 1)..Len(log) : log[i] \in Wants(s)} \ OnTheWay(s)

\* No committed event can be missed by an open stream: each is in a page it
\* has or will read, in its subscription, in its buffer, or about to be
\* published, however commits, publications, page reads and the high-water
\* mark fall (EventSink.stream, replayAndBufferProjectedLiveEvents).  The
\* exception is an event whose publication was interrupted.
NoEventIsOutOfReach ==
    \A s \in Subscribers :
        phase[s] \in {"subscribed", "replaying", "live"} => OutOfReach(s) \subseteq missed[s]

\* Every committed event a subscriber wants is delivered to it, or, to a
\* listener that only follows new events, precedes the restart it survived:
\* full buffers, lost connections and crashes only delay it.  The exception is
\* an event whose publication was interrupted while its stream was live.
EveryEventIsDelivered ==
    \A s \in Subscribers : \A n \in 1..MaxLog :
        (n <= Len(log) /\ log[n] \in Wants(s)) ~> (cursor[s] >= n \/ n \in missed[s])

\* Waiting for the lane while holding the database's only transaction cannot
\* block the server: the wait has no timeout and cannot be interrupted.
LaneIsAlwaysObtained == \A w \in Writers : pc[w] = "writing" ~> pc[w] = "idle"

\* Each stream delivers the events of one growing log that it wants, in order,
\* each once, across pages, the switch from replay to live, full buffers,
\* lost connections and restarts: clients "drop any event at or below the
\* newest sequence they have applied".
Feed == INSTANCE EventFeed WITH
    Readers <- Subscribers, Topics <- AllTopics, feed <- log, position <- cursor, lost <- missed,
    wants <- [s \in Subscribers |-> Wants(s)],
    started <- [s \in Subscribers |-> kind[s] # "worker" \/ phase[s] # "off"]

ImplementsEventFeed == Feed!FeedSpec
=============================================================================
