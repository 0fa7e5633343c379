-------------------------- MODULE EventSinkProofs --------------------------
(***************************************************************************)
(* Proofs about the event sink (EventSink), for any writers, subscribers,  *)
(* topics and bounds.  First the writers: publications keep the order of   *)
(* the commits.  Then the streams: what each of them still holds, may read *)
(* or is about to be sent is, in order, what it wants of the log after its *)
(* position, so that nothing is skipped, and the sink is a feed            *)
(* (EventFeed).                                                            *)
(***************************************************************************)
EXTENDS EventSink, TLAPS

InTransaction == {"writing", "holding"}
WithLane      == {"holding", "application", "live", "typed", "releasing"}

WriterTypes ==
    /\ log \in Seq(AllTopics)
    /\ txn \in Writers \cup {NoWriter}
    /\ lane \in Writers \cup {NoWriter}
    /\ pc \in [Writers -> Stages]
    /\ pending \in [Writers -> Seq(Event)]

\* The open transaction is that of the writer who is in one.
OneTransaction == \A w \in Writers : pc[w] \in InTransaction <=> txn = w

\* The lane belongs to the one writer between takeLane and its release.
OneLane == \A w \in Writers : pc[w] \in WithLane <=> lane = w

\* The INSERTs of an open transaction got the next sequences: nobody else
\* appends before it ends.
NumberedNext ==
    \A w \in Writers : pc[w] \in InTransaction =>
        \A i \in 1 .. Len(pending[w]) : pending[w][i].seq = Len(log) + i

WInv == WriterTypes /\ OneTransaction /\ OneLane /\ NumberedNext /\ PublishesTheEndOfTheLog

LEMMA StageSets ==
    /\ InTransaction \subseteq Stages /\ WithLane \subseteq Stages
    /\ Publishing = WithLane \ {"holding", "releasing"}
    /\ "idle" \in Stages \ (InTransaction \cup WithLane)
  BY DEF InTransaction, WithLane, Publishing, Stages

\* The rows of a batch are events.
LEMMA StoredType ==
    ASSUME WriterTypes, NEW b \in Batches
    PROVE  /\ b \in Seq(AllTopics)
           /\ Stored(b) \in Seq(Event)
           /\ Len(Stored(b)) = Len(b)
           /\ \A i \in 1 .. Len(b) : Stored(b)[i].seq = Len(log) + i
  <1>1. b \in Seq(AllTopics)
    <2>1. CASE b \in {<<>>, <<Project>>}
      <3>1. Project \in AllTopics /\ (b = <<>> \/ b = <<Project>>)
        BY <2>1 DEF AllTopics
      <3>2. CASE b = <<>>
        BY <3>2
      <3>3. CASE b = <<Project>>
        BY <3>1, <3>3
      <3> QED
        BY <3>1, <3>2, <3>3
    <2>2. ASSUME NEW n \in 1 .. MaxBatch, b \in [1 .. n -> Topics]
          PROVE  b \in Seq(AllTopics)
      BY <2>2, SinkAssumption DEF AllTopics
    <2> QED
      BY <2>1, <2>2 DEF Batches
  <1>2. DOMAIN b = 1 .. Len(b) /\ Len(b) \in Nat /\ Len(log) \in Nat
    BY <1>1 DEF WriterTypes
  <1>3. \A i \in 1 .. Len(b) : [seq |-> Len(log) + i, topic |-> b[i]] \in Event
    BY <1>1, <1>2 DEF Event, EventsOn
  <1> QED
    BY <1>1, <1>2, <1>3 DEF Stored

\* A transaction begins: it is the only one, and its rows come next.
LEMMA RunTransactionKeeps ==
    ASSUME WInv, NEW w \in Writers, NEW b \in Batches, RunTransaction(w, b)
    PROVE  WInv'
  <1> USE DEF WInv, RunTransaction
  <1>1. /\ pc'[w] = "writing" /\ pending'[w] = Stored(b)
        /\ pc' \in [Writers -> Stages] /\ pending' \in [Writers -> Seq(Event)]
        /\ \A v \in Writers \ {w} : pc'[v] = pc[v] /\ pending'[v] = pending[v]
    BY StoredType DEF WriterTypes, Goto, Stages
  <1>2. WriterTypes'
    BY <1>1 DEF WriterTypes
  <1>3. OneTransaction' /\ OneLane'
    BY <1>1, SinkAssumption DEF OneTransaction, OneLane, InTransaction, WithLane, WriterTypes
  <1>4. NumberedNext'
    <2>1. ASSUME NEW v \in Writers \ {w} PROVE pc'[v] \notin InTransaction
      BY <1>1, SinkAssumption DEF OneTransaction
    <2> QED
      BY <1>1, <2>1, StoredType DEF NumberedNext
  <1>5. PublishesTheEndOfTheLog'
    BY <1>1 DEF PublishesTheEndOfTheLog, Publishing
  <1> QED
    BY <1>2, <1>3, <1>4, <1>5

\* A transaction ends without a commit, with the lane or without.
LEMMA RollbackKeeps ==
    ASSUME WInv, NEW w \in Writers, FailTransaction(w) \/ FailCommit(w)
    PROVE  WInv'
  <1> DEFINE stage == IF pc[w] = "writing" THEN "idle" ELSE "releasing"
  <1>1. pc[w] \in InTransaction /\ Rollback(w, stage)
    BY DEF FailTransaction, FailCommit, InTransaction
  <1>2. /\ pc' = [pc EXCEPT ![w] = stage] /\ pending' = [pending EXCEPT ![w] = <<>>]
        /\ txn' = NoWriter /\ UNCHANGED <<log, lane>>
    BY <1>1 DEF Rollback, Goto
  <1>3. stage \in Stages \ InTransaction /\ stage \notin Publishing
    BY DEF Stages, InTransaction, Publishing
  <1>4. stage \in WithLane <=> pc[w] \in WithLane
    BY <1>1 DEF WithLane, InTransaction
  <1> HIDE DEF stage
  <1>5. WriterTypes'
    BY <1>2, <1>3 DEF WInv, WriterTypes
  <1>6. OneTransaction' /\ NumberedNext'
    <2>1. ASSUME NEW v \in Writers PROVE pc'[v] \notin InTransaction
      BY <1>1, <1>2, <1>3 DEF WInv, WriterTypes, OneTransaction
    <2> QED
      BY <1>2, <2>1, SinkAssumption DEF OneTransaction, NumberedNext
  <1>7. OneLane'
    BY <1>2, <1>4 DEF WInv, WriterTypes, OneLane
  <1>8. PublishesTheEndOfTheLog'
    BY <1>2, <1>3 DEF WInv, WriterTypes, PublishesTheEndOfTheLog
  <1> QED
    BY <1>5, <1>6, <1>7, <1>8 DEF WInv

LEMMA TakeLaneKeeps ==
    ASSUME WInv, NEW w \in Writers, TakeLane(w)
    PROVE  WInv'
  <1> USE DEF WInv, TakeLane, Goto
  <1>1. WriterTypes'
    BY DEF WriterTypes, Stages
  <1>2. OneTransaction' /\ OneLane'
    BY SinkAssumption DEF OneTransaction, OneLane, InTransaction, WithLane, WriterTypes
  <1>3. NumberedNext'
    BY DEF NumberedNext, InTransaction, WriterTypes
  <1>4. PublishesTheEndOfTheLog'
    BY SinkAssumption DEF PublishesTheEndOfTheLog, Publishing, WriterTypes
  <1> QED
    BY <1>1, <1>2, <1>3, <1>4

\* The commit of a transaction: its rows become the end of the log, and nobody
\* else is about to publish.
LEMMA CommitKeeps ==
    ASSUME WInv, NEW w \in Writers, Commit(w)
    PROVE  WInv'
  <1> DEFINE rows  == [i \in DOMAIN pending[w] |-> pending[w][i].topic]
             stage == IF pending[w] = <<>> THEN "releasing" ELSE "application"
  <1>1. /\ log' = log \o rows /\ txn' = NoWriter /\ UNCHANGED <<lane, pending>>
        /\ pc' = [pc EXCEPT ![w] = stage] /\ pc[w] = "holding"
    BY DEF Commit, Goto
  <1>2. stage \in WithLane /\ stage \in Stages \ InTransaction
    BY DEF WithLane, InTransaction, Stages
  <1>3. pending[w] \in Seq(Event) /\ log \in Seq(AllTopics)
    BY DEF WInv, WriterTypes
  <1>4. rows \in Seq(AllTopics) /\ Len(rows) = Len(pending[w])
    <2>1. /\ rows = [i \in 1 .. Len(pending[w]) |-> pending[w][i].topic]
          /\ Len(pending[w]) \in Nat
      BY <1>3
    <2>2. \A i \in 1 .. Len(pending[w]) : pending[w][i].topic \in AllTopics
      <3>1. \A i \in 1 .. Len(pending[w]) : pending[w][i] \in Event
        BY <1>3
      <3> QED
        BY <3>1 DEF Event, EventsOn
    <2> HIDE DEF rows
    <2>3. rows \in [1 .. Len(pending[w]) -> AllTopics]
      BY <2>1, <2>2
    <2> QED
      BY <2>1, <2>3
  <1>5. \A i \in 1 .. Len(pending[w]) : rows[i] = pending[w][i].topic
    BY <1>3
  <1> HIDE DEF rows, stage
  <1>6. /\ log' \in Seq(AllTopics) /\ Len(log') = Len(log) + Len(pending[w])
        /\ \A i \in 1 .. Len(pending[w]) : log'[Len(log) + i] = pending[w][i].topic
    <2>1. log \o rows \in Seq(AllTopics) /\ Len(log \o rows) = Len(log) + Len(rows)
      BY <1>3, <1>4
    <2>2. ASSUME NEW i \in 1 .. Len(rows) PROVE (log \o rows)[Len(log) + i] = rows[i]
      <3>1. Len(log) \in Nat /\ Len(rows) \in Nat
        BY <1>3, <1>4
      <3>2. Len(log) + i \in 1 .. Len(log) + Len(rows) /\ ~ (Len(log) + i <= Len(log))
        BY <3>1
      <3> QED
        BY <1>3, <1>4, <3>1, <3>2
    <2> QED
      BY <1>1, <1>4, <1>5, <2>1, <2>2
  <1>7. lane = w /\ txn = w
    BY <1>1 DEF WInv, OneLane, OneTransaction, WithLane, InTransaction
  <1>8. WriterTypes'
    BY <1>1, <1>2, <1>6 DEF WInv, WriterTypes
  <1>9. OneLane'
    BY <1>1, <1>2, <1>7 DEF WInv, OneLane, WriterTypes
  <1>10. OneTransaction' /\ NumberedNext'
    <2>1. ASSUME NEW v \in Writers PROVE pc'[v] \notin InTransaction
      BY <1>1, <1>2, <1>7 DEF WInv, WriterTypes, OneTransaction
    <2> QED
      BY <1>1, <2>1, SinkAssumption DEF OneTransaction, NumberedNext
  <1>11. PublishesTheEndOfTheLog'
    <2> SUFFICES ASSUME NEW v \in Writers, pc'[v] \in Publishing
                 PROVE  /\ lane' = v
                        /\ \A i \in DOMAIN pending'[v] :
                              /\ pending'[v][i].seq = Len(log') - Len(pending'[v]) + i
                              /\ pending'[v][i].topic = log'[pending'[v][i].seq]
      BY DEF PublishesTheEndOfTheLog
    <2>1. v = w
      <3>1. Publishing \subseteq WithLane
        BY DEF Publishing, WithLane
      <3> QED
        BY <1>1, <1>7, <3>1 DEF WInv, WriterTypes, OneLane
    <2>2. \A i \in 1 .. Len(pending[w]) : pending[w][i].seq = Len(log) + i
      BY <1>1 DEF WInv, NumberedNext, InTransaction
    <2>3. DOMAIN pending[w] = 1 .. Len(pending[w]) /\ Len(pending[w]) \in Nat /\ Len(log) \in Nat
      BY <1>3
    <2> QED
      BY <1>1, <1>6, <1>7, <2>1, <2>2, <2>3
  <1> QED
    BY <1>8, <1>9, <1>10, <1>11 DEF WInv

\* A publication goes on, or is interrupted: the writer keeps the lane.
LEMMA PublishKeeps ==
    ASSUME WInv, NEW w \in Writers, pc[w] \in Publishing, NEW stage \in Publishing \cup {"releasing"},
           Goto(w, stage), UNCHANGED <<log, txn, lane, pending>>
    PROVE  WInv'
  <1> USE DEF WInv, Goto, Publishing
  <1>1. WriterTypes'
    BY DEF WriterTypes, Stages
  <1>2. OneTransaction' /\ OneLane'
    BY DEF OneTransaction, OneLane, InTransaction, WithLane, WriterTypes
  <1>3. NumberedNext'
    BY DEF NumberedNext, InTransaction, WriterTypes
  <1>4. PublishesTheEndOfTheLog'
    BY DEF PublishesTheEndOfTheLog, WriterTypes
  <1> QED
    BY <1>1, <1>2, <1>3, <1>4

LEMMA ReleaseLaneKeeps ==
    ASSUME WInv, NEW w \in Writers, ReleaseLane(w)
    PROVE  WInv'
  <1> USE DEF WInv, ReleaseLane, Goto
  <1>1. WriterTypes'
    BY DEF WriterTypes, Stages
  <1>2. OneTransaction' /\ OneLane'
    BY SinkAssumption DEF OneTransaction, OneLane, InTransaction, WithLane, WriterTypes
  <1>3. NumberedNext'
    BY DEF NumberedNext, InTransaction, WriterTypes
  <1>4. PublishesTheEndOfTheLog'
    <2>1. ASSUME NEW v \in Writers PROVE pc'[v] \notin Publishing
      BY DEF WriterTypes, OneLane, WithLane, Publishing
    <2> QED
      BY <2>1 DEF PublishesTheEndOfTheLog
  <1> QED
    BY <1>1, <1>2, <1>3, <1>4

LEMMA CrashKeeps ==
    ASSUME WInv, Crash
    PROVE  WInv'
  BY SinkAssumption DEF WInv, Crash, WriterTypes, OneTransaction, OneLane, NumberedNext,
     PublishesTheEndOfTheLog, InTransaction, WithLane, Publishing, Stages

\* Streams never write.
LEMMA StreamKeeps ==
    ASSUME WInv, UNCHANGED <<log, writerVars>>
    PROVE  WInv'
  BY DEF WInv, writerVars, WriterTypes, OneTransaction, OneLane, NumberedNext,
     PublishesTheEndOfTheLog

LEMMA StreamsDoNotWrite ==
    ASSUME NEW s \in Subscribers, Follow(s) \/ Disconnect(s)
    PROVE  UNCHANGED <<log, writerVars>>
  BY DEF Follow, Disconnect, Close, ReadPosition, Subscribe, ReadHighWater, ReadPage,
     DeliverReplayed, GoLive, Drain, Overflow, DeliverBuffered, DeliverLive

LEMMA WInvInit == Init => WInv
  BY SinkAssumption DEF Init, WritersIdle, WInv, WriterTypes, OneTransaction, OneLane,
     NumberedNext, PublishesTheEndOfTheLog, InTransaction, WithLane, Publishing, Stages

LEMMA WInvKeeps == WInv /\ [Next]_vars => WInv'
  <1> SUFFICES ASSUME WInv, [Next]_vars PROVE WInv'
    OBVIOUS
  <1>1. ASSUME NEW w \in Writers, NEW b \in Batches, RunTransaction(w, b) PROVE WInv'
    BY <1>1, RunTransactionKeeps
  <1>2. ASSUME NEW w \in Writers, FailTransaction(w) \/ FailCommit(w) PROVE WInv'
    BY <1>2, RollbackKeeps
  <1>3. ASSUME NEW w \in Writers, InterruptPublish(w) PROVE WInv'
    BY <1>3, PublishKeeps DEF InterruptPublish
  <1>4. ASSUME NEW w \in Writers, Finish(w) PROVE WInv'
    <2>1. ASSUME Publish(w) PROVE WInv'
      <3>1. NextStage(w) \in Publishing \cup {"releasing"}
        BY <2>1 DEF Publish, NextStage, Publishing
      <3> QED
        BY <2>1, <3>1, PublishKeeps DEF Publish
    <2> QED
      BY <1>4, <2>1, TakeLaneKeeps, CommitKeeps, ReleaseLaneKeeps DEF Finish
  <1>5. ASSUME NEW s \in Subscribers, Follow(s) \/ Disconnect(s) PROVE WInv'
    BY <1>5, StreamsDoNotWrite, StreamKeeps
  <1>6. CASE Crash
    BY <1>6, CrashKeeps
  <1>7. CASE UNCHANGED vars
    BY <1>7, StreamKeeps DEF vars
  <1> QED
    BY <1>1, <1>2, <1>3, <1>4, <1>5, <1>6, <1>7 DEF Next

\* What a writer is about to publish is the end of the log, for any writers,
\* topics and bounds, through rollbacks, interruptions and crashes: the lane
\* taken inside the transaction orders the publications as the commits.
THEOREM CommitOrderIsPublicationOrder == Spec => []PublishesTheEndOfTheLog
  <1>1. WInv => PublishesTheEndOfTheLog
    BY DEF WInv
  <1> QED
    BY WInvInit, WInvKeeps, <1>1, PTL DEF Spec

-----------------------------------------------------------------------------
(* The invariant of the streams.                                           *)

\* The topics of a transaction's rows.
TopicsOf(events) == [i \in DOMAIN events |-> events[i].topic]

\* What a transaction holds is a batch.
BatchesArePending == \A w \in Writers : TopicsOf(pending[w]) \in Batches

\* The events are in the order of the log, each once.
Increasing(events) == \A i, j \in DOMAIN events : i < j => events[i].seq < events[j].seq

\* The events are those of the log.
Logged(events) ==
    \A i \in DOMAIN events : events[i].seq \in DOMAIN log /\ events[i].topic = log[events[i].seq]

\* What a writer is about to publish is in the log.
PendingIsLogged == \A w \in Writers : pc[w] \in Publishing => Logged(pending[w])

Before(A, B) == \A m \in A, n \in B : m < n

\* The sequences that writers are about to publish to a stream's PubSub.
Coming(s) == UNION {Sequences(pending[w]) : w \in {v \in Writers : HubOf(s) \in Remaining(v)}}

\* The sequences in a stream's subscription and in its buffer.
Live(s) == Sequences(buffer[s]) \cup Sequences(inbox[s])

\* Everything a stream holds is an event of the log, in order, each once.
HoldsTheLog(s) ==
    /\ Increasing(page[s]) /\ Increasing(buffer[s]) /\ Increasing(inbox[s])
    /\ Logged(page[s]) /\ Logged(buffer[s]) /\ Logged(inbox[s])
    /\ \A i \in DOMAIN page[s] : Wanted(s, page[s][i])
    /\ \A i \in DOMAIN buffer[s] : Wanted(s, buffer[s][i])
    /\ Before(Sequences(buffer[s]), Sequences(inbox[s]))
    /\ Before(Live(s), Coming(s))

\* The next event of a stream is after those it delivered.
CursorFits(s) ==
    /\ cursor[s] \in 0 .. Len(log)
    /\ cursor[s] # 0 /\ kind[s] # "application" => log[cursor[s]] # Project
    /\ missed[s] \subseteq DOMAIN log
    /\ missed[s] # {} => phase[s] \in {"replaying", "live"}
    /\ phase[s] \notin {"off", "positioned"} =>
          \A n \in Live(s) \cup Coming(s) : n > through[s] => n > cursor[s]
    /\ kind[s] = "worker" => buffer[s] = << >>

PhaseFits(s) ==
    /\ phase[s] \in {"off", "positioned"} =>
          inbox[s] = << >> /\ page[s] = << >> /\ buffer[s] = << >>
    /\ phase[s] = "subscribed" => page[s] = << >> /\ through[s] = cursor[s]
    /\ phase[s] \in {"replaying", "live"} => readTo[s] <= through[s] /\ through[s] <= Len(log)
    /\ phase[s] = "replaying" => cursor[s] <= readTo[s]
    /\ phase[s] = "live" => page[s] = << >> /\ readTo[s] = through[s]

\* What the stream is still to get.
WantedAfter(s) == {n \in (cursor[s] + 1) .. Len(log) : log[n] \in Wants(s)}

\* The replay has what is wanted up to the mark, and the subscription the rest.
NothingSkipped(s) ==
    phase[s] \in {"replaying", "live"} =>
       /\ \A n \in Sequences(page[s]) : cursor[s] < n /\ n <= readTo[s]
       /\ \A n \in WantedAfter(s) : n <= readTo[s] => n \in Sequences(page[s])
       /\ \A n \in WantedAfter(s) : n > through[s] => n \in Live(s) \cup Coming(s) \cup missed[s]

\* What the invariant says of one stream.
InStep(s) == HoldsTheLog(s) /\ CursorFits(s) /\ PhaseFits(s) /\ NothingSkipped(s)

WritersInv == TypeOK /\ WInv /\ BatchesArePending /\ PendingIsLogged

SInv == WritersInv /\ \A s \in Subscribers : InStep(s)

-----------------------------------------------------------------------------
(* Sequences of events.                                                    *)

LEMMA SequencesAreNumbers ==
    ASSUME NEW a \in Seq(Event)
    PROVE  Sequences(a) \subseteq Nat
  <1>1. \A i \in DOMAIN a : a[i] \in Event
    OBVIOUS
  <1> QED
    BY <1>1 DEF Sequences, Event, EventsOn

LEMMA HeadAndTail ==
    ASSUME NEW a \in Seq(Event), a # << >>
    PROVE  /\ Head(a) \in Event /\ Head(a) = a[1] /\ 1 \in DOMAIN a /\ Tail(a) \in Seq(Event)
           /\ Sequences(a) = {Head(a).seq} \cup Sequences(Tail(a))
           /\ \A i \in DOMAIN Tail(a) : i + 1 \in DOMAIN a /\ Tail(a)[i] = a[i + 1]
           /\ Increasing(a) => /\ Increasing(Tail(a))
                               /\ \A n \in Sequences(Tail(a)) : Head(a).seq < n
           /\ Logged(a) => Logged(Tail(a))
  <1>1. /\ Head(a) \in Event /\ Head(a) = a[1] /\ Tail(a) \in Seq(Event)
        /\ DOMAIN a = 1 .. Len(a) /\ Len(a) \in Nat \ {0}
        /\ DOMAIN Tail(a) = 1 .. Len(a) - 1
        /\ \A i \in 1 .. Len(a) - 1 : Tail(a)[i] = a[i + 1]
    OBVIOUS
  <1>2. \A i \in 1 .. Len(a) : i = 1 \/ (i - 1 \in 1 .. Len(a) - 1 /\ (i - 1) + 1 = i)
    BY <1>1
  <1>3. \A i \in 1 .. Len(a) - 1 : i + 1 \in 1 .. Len(a) /\ 1 \in 1 .. Len(a) /\ 1 < i + 1
    BY <1>1
  <1>4. Sequences(a) = {Head(a).seq} \cup Sequences(Tail(a))
    <2>1. ASSUME NEW n \in Sequences(a) PROVE n \in {Head(a).seq} \cup Sequences(Tail(a))
      <3>1. PICK i \in 1 .. Len(a) : n = a[i].seq
        BY <1>1, <2>1 DEF Sequences
      <3>2. CASE i = 1
        BY <1>1, <3>1, <3>2
      <3>3. CASE i # 1
        <4>1. i - 1 \in DOMAIN Tail(a) /\ Tail(a)[i - 1] = a[i]
          BY <1>1, <1>2, <3>3
        <4> QED
          BY <3>1, <4>1 DEF Sequences
      <3> QED
        BY <3>2, <3>3
    <2>2. ASSUME NEW n \in Sequences(Tail(a)) PROVE n \in Sequences(a)
      <3>1. PICK i \in 1 .. Len(a) - 1 : n = Tail(a)[i].seq
        BY <1>1, <2>2 DEF Sequences
      <3>2. n = a[i + 1].seq /\ i + 1 \in DOMAIN a
        BY <1>1, <1>3, <3>1
      <3> QED
        BY <3>2 DEF Sequences
    <2>3. Head(a).seq \in Sequences(a)
      <3>1. 1 \in DOMAIN a
        BY <1>1
      <3> QED
        BY <1>1, <3>1 DEF Sequences
    <2> QED
      BY <2>1, <2>2, <2>3
  <1>5. ASSUME Increasing(a)
        PROVE  Increasing(Tail(a)) /\ \A n \in Sequences(Tail(a)) : Head(a).seq < n
    <2>1. ASSUME NEW i \in 1 .. Len(a) - 1, NEW j \in 1 .. Len(a) - 1, i < j
          PROVE  Tail(a)[i].seq < Tail(a)[j].seq
      <3>1. i + 1 \in 1 .. Len(a) /\ j + 1 \in 1 .. Len(a) /\ i + 1 < j + 1
        BY <1>1, <2>1
      <3> QED
        BY <1>1, <1>5, <3>1 DEF Increasing
    <2>2. ASSUME NEW n \in Sequences(Tail(a)) PROVE Head(a).seq < n
      <3>1. PICK i \in 1 .. Len(a) - 1 : n = Tail(a)[i].seq
        BY <1>1, <2>2 DEF Sequences
      <3> QED
        BY <1>1, <1>3, <1>5, <3>1 DEF Increasing
    <2> QED
      BY <1>1, <2>1, <2>2 DEF Increasing
  <1>6. Logged(a) => Logged(Tail(a))
    BY <1>1, <1>3 DEF Logged
  <1> QED
    BY <1>1, <1>3, <1>4, <1>5, <1>6

LEMMA Appended ==
    ASSUME NEW a \in Seq(Event), NEW e \in Event
    PROVE  /\ Append(a, e) \in Seq(Event)
           /\ Sequences(Append(a, e)) = Sequences(a) \cup {e.seq}
           /\ \A i \in DOMAIN Append(a, e) : Append(a, e)[i] = e \/ (i \in DOMAIN a /\ Append(a, e)[i] = a[i])
           /\ Increasing(a) /\ (\A n \in Sequences(a) : n < e.seq) => Increasing(Append(a, e))
           /\ Logged(a) /\ e.seq \in DOMAIN log /\ e.topic = log[e.seq] => Logged(Append(a, e))
  <1>1. /\ Append(a, e) \in Seq(Event)
        /\ DOMAIN a = 1 .. Len(a) /\ Len(a) \in Nat
        /\ DOMAIN Append(a, e) = 1 .. Len(a) + 1
        /\ \A i \in 1 .. Len(a) : Append(a, e)[i] = a[i]
        /\ Append(a, e)[Len(a) + 1] = e
    OBVIOUS
  <1>2. 1 .. Len(a) + 1 = 1 .. Len(a) \cup {Len(a) + 1}
    BY <1>1
  <1>3. Sequences(Append(a, e)) = Sequences(a) \cup {e.seq}
    BY <1>1, <1>2 DEF Sequences
  <1>4. ASSUME Increasing(a), \A n \in Sequences(a) : n < e.seq PROVE Increasing(Append(a, e))
    <2>1. \A i \in 1 .. Len(a) : a[i].seq < e.seq
      BY <1>1, <1>4 DEF Sequences
    <2>2. \A i \in 1 .. Len(a) : ~ (Len(a) + 1 < i)
      BY <1>1
    <2> QED
      BY <1>1, <1>2, <1>4, <2>1, <2>2 DEF Increasing
  <1>5. Logged(a) /\ e.seq \in DOMAIN log /\ e.topic = log[e.seq] => Logged(Append(a, e))
    BY <1>1, <1>2 DEF Logged
  <1> QED
    BY <1>1, <1>2, <1>3, <1>4, <1>5

LEMMA Joined ==
    ASSUME NEW a \in Seq(Event), NEW b \in Seq(Event)
    PROVE  /\ a \o b \in Seq(Event)
           /\ Sequences(a \o b) = Sequences(a) \cup Sequences(b)
           /\ Increasing(a) /\ Increasing(b) /\ Before(Sequences(a), Sequences(b)) => Increasing(a \o b)
           /\ Logged(a) /\ Logged(b) => Logged(a \o b)
  <1> DEFINE c == a \o b
  <1>1. /\ c \in Seq(Event)
        /\ DOMAIN a = 1 .. Len(a) /\ Len(a) \in Nat
        /\ DOMAIN b = 1 .. Len(b) /\ Len(b) \in Nat
        /\ DOMAIN c = 1 .. Len(a) + Len(b)
        /\ \A i \in 1 .. Len(a) : c[i] = a[i]
    OBVIOUS
  <1>2. ASSUME NEW i \in 1 .. Len(b)
        PROVE  Len(a) + i \in DOMAIN c /\ c[Len(a) + i] = b[i]
    <2>1. Len(a) + i \in 1 .. Len(a) + Len(b) /\ ~ (Len(a) + i <= Len(a)) /\ (Len(a) + i) - Len(a) = i
      BY <1>1
    <2> QED
      BY <1>1, <2>1
  <1> HIDE DEF c
  <1>3. ASSUME NEW k \in DOMAIN c
        PROVE  k \in 1 .. Len(a) \/ \E i \in 1 .. Len(b) : k = Len(a) + i
    <2>1. k \in 1 .. Len(a) \/ (k - Len(a) \in 1 .. Len(b) /\ k = Len(a) + (k - Len(a)))
      BY <1>1
    <2> QED
      BY <2>1
  <1>4. Sequences(c) = Sequences(a) \cup Sequences(b)
    <2>1. ASSUME NEW n \in Sequences(c) PROVE n \in Sequences(a) \cup Sequences(b)
      <3>1. PICK k \in DOMAIN c : n = c[k].seq
        BY <2>1 DEF Sequences
      <3> QED
        BY <1>1, <1>2, <1>3, <3>1 DEF Sequences
    <2>2. ASSUME NEW n \in Sequences(a) \cup Sequences(b) PROVE n \in Sequences(c)
      <3>1. CASE n \in Sequences(a)
        <4>1. PICK i \in 1 .. Len(a) : n = a[i].seq
          BY <1>1, <3>1 DEF Sequences
        <4>2. i \in DOMAIN c /\ c[i] = a[i]
          BY <1>1
        <4> QED
          BY <4>1, <4>2 DEF Sequences
      <3>2. CASE n \in Sequences(b)
        <4>1. PICK i \in 1 .. Len(b) : n = b[i].seq
          BY <1>1, <3>2 DEF Sequences
        <4> QED
          BY <1>2, <4>1 DEF Sequences
      <3> QED
        BY <2>2, <3>1, <3>2
    <2> QED
      BY <2>1, <2>2
  <1>5. ASSUME Increasing(a), Increasing(b), Before(Sequences(a), Sequences(b)) PROVE Increasing(c)
    <2>1. \A i \in 1 .. Len(a), j \in 1 .. Len(b) : a[i].seq < b[j].seq
      BY <1>1, <1>5 DEF Before, Sequences
    <2>2. ASSUME NEW i \in DOMAIN c, NEW j \in DOMAIN c, i < j PROVE c[i].seq < c[j].seq
      <3>1. CASE i \in 1 .. Len(a) /\ j \in 1 .. Len(a)
        BY <1>1, <1>5, <2>2, <3>1 DEF Increasing
      <3>2. ASSUME i \in 1 .. Len(a), NEW l \in 1 .. Len(b), j = Len(a) + l PROVE c[i].seq < c[j].seq
        BY <1>1, <1>2, <2>1, <3>2
      <3>3. ASSUME NEW k \in 1 .. Len(b), NEW l \in 1 .. Len(b), i = Len(a) + k, j = Len(a) + l
            PROVE  c[i].seq < c[j].seq
        <4>1. k < l
          BY <1>1, <2>2, <3>3
        <4> QED
          BY <1>1, <1>2, <1>5, <3>3, <4>1 DEF Increasing
      <3>4. ~ (j \in 1 .. Len(a) /\ i \notin 1 .. Len(a))
        BY <1>1, <2>2
      <3> QED
        BY <1>3, <3>1, <3>2, <3>3, <3>4
    <2> QED
      BY <2>2 DEF Increasing
  <1>6. ASSUME Logged(a), Logged(b) PROVE Logged(c)
    <2> SUFFICES ASSUME NEW k \in DOMAIN c
                 PROVE  c[k].seq \in DOMAIN log /\ c[k].topic = log[c[k].seq]
      BY DEF Logged
    <2>1. CASE k \in 1 .. Len(a)
      BY <1>1, <1>6, <2>1 DEF Logged
    <2>2. ASSUME NEW i \in 1 .. Len(b), k = Len(a) + i
          PROVE  c[k].seq \in DOMAIN log /\ c[k].topic = log[c[k].seq]
      <3>1. c[k] = b[i] /\ i \in DOMAIN b
        BY <1>1, <1>2, <2>2
      <3> QED
        BY <1>6, <3>1 DEF Logged
    <2> QED
      BY <1>3, <2>1, <2>2
  <1> QED
    BY <1>1, <1>4, <1>5, <1>6 DEF c

\* A part of a sequence of events.
LEMMA Filtered ==
    ASSUME NEW a \in Seq(Event), NEW T
    PROVE  LET b == Only(a, EventsOn(T))
           IN  /\ b \in Seq(Event)
               /\ Sequences(b) = {a[i].seq : i \in {k \in DOMAIN a : a[k].topic \in T}}
               /\ \A i \in DOMAIN b : b[i].topic \in T
               /\ Increasing(a) => Increasing(b)
               /\ Logged(a) => Logged(b)
  <1> DEFINE b == Only(a, EventsOn(T))
  <1>1. b \in Seq(Event) /\ IsPartOf(b, a, Len(a), EventsOn(T))
    BY OnlyShape
  <1> HIDE DEF b
  <1>2. PICK place \in [1 .. Len(b) -> 1 .. Len(a)] :
           /\ \A j \in 1 .. Len(b) : b[j] = a[place[j]] /\ b[j] \in EventsOn(T)
           /\ \A j, k \in 1 .. Len(b) : j < k => place[j] < place[k]
           /\ \A i \in 1 .. Len(a) : a[i] \in EventsOn(T) => \E j \in 1 .. Len(b) : place[j] = i
    BY <1>1 DEF IsPartOf
  <1>3. /\ DOMAIN a = 1 .. Len(a) /\ DOMAIN b = 1 .. Len(b)
        /\ \A j \in 1 .. Len(b) : place[j] \in 1 .. Len(a)
    BY <1>1
  <1>4. \A i \in 1 .. Len(a) : a[i] \in EventsOn(T) <=> a[i].topic \in T
    <2>1. \A i \in 1 .. Len(a) : a[i] \in Event
      OBVIOUS
    <2> QED
      BY <2>1 DEF Event, EventsOn
  <1>5. \A i \in 1 .. Len(b) : b[i].topic \in T
    BY <1>2 DEF EventsOn
  <1>6. Sequences(b) = {a[i].seq : i \in {k \in DOMAIN a : a[k].topic \in T}}
    <2>1. ASSUME NEW n \in Sequences(b)
          PROVE  n \in {a[i].seq : i \in {k \in DOMAIN a : a[k].topic \in T}}
      <3>1. PICK j \in 1 .. Len(b) : n = b[j].seq
        BY <1>3, <2>1 DEF Sequences
      <3>2. b[j] = a[place[j]] /\ place[j] \in DOMAIN a /\ a[place[j]].topic \in T
        BY <1>2, <1>3, <1>5
      <3> QED
        BY <3>1, <3>2
    <2>2. ASSUME NEW i \in DOMAIN a, a[i].topic \in T PROVE a[i].seq \in Sequences(b)
      <3>1. PICK j \in 1 .. Len(b) : place[j] = i
        BY <1>2, <1>3, <1>4, <2>2
      <3>2. b[j] = a[i] /\ j \in DOMAIN b
        BY <1>2, <1>3, <3>1
      <3> QED
        BY <3>2 DEF Sequences
    <2> QED
      BY <2>1, <2>2
  <1>7. Increasing(a) => Increasing(b)
    BY <1>2, <1>3 DEF Increasing
  <1>8. Logged(a) => Logged(b)
    BY <1>2, <1>3 DEF Logged
  <1> QED
    BY <1>1, <1>3, <1>5, <1>6, <1>7, <1>8 DEF b

LEMMA FirstOnes ==
    ASSUME NEW a \in Seq(Event), NEW m \in 0 .. Len(a)
    PROVE  /\ SubSeq(a, 1, m) \in Seq(Event) /\ Len(SubSeq(a, 1, m)) = m
           /\ DOMAIN SubSeq(a, 1, m) = 1 .. m /\ DOMAIN a = 1 .. Len(a) /\ Len(a) \in Nat
           /\ \A i \in 1 .. m : i \in DOMAIN a /\ SubSeq(a, 1, m)[i] = a[i]
  OBVIOUS

-----------------------------------------------------------------------------
(* What a stream reads from the log.                                       *)

\* Events that the latest sequence of a stream passes over.
PassedOver(s, n) == kind[s] # "application" /\ log[n] = Project

\* There is a latest sequence: from the end of the log back, the first event
\* that is not passed over, or the beginning.
LEMMA LatestIs ==
    ASSUME TypeOK, NEW s \in Subscribers
    PROVE  /\ LatestSequence(s) \in 0 .. Len(log)
           /\ LatestSequence(s) > 0 => ~ PassedOver(s, LatestSequence(s))
           /\ \A i \in (LatestSequence(s) + 1) .. Len(log) : PassedOver(s, i)
  <1> DEFINE Behind(n) == \A i \in (n + 1) .. Len(log) : PassedOver(s, i)
             D  == {n \in 0 .. Len(log) : Behind(n)}
             LT == OpToRel(<, Nat)
  <1>1. Len(log) \in Nat
    BY DEF TypeOK
  <1>2. Len(log) \in D
    <2>1. (Len(log) + 1) .. Len(log) = {}
      BY <1>1
    <2> QED
      BY <1>1, <2>1
  <1>3. IsWellFoundedOn(LT, Nat)
    BY NatLessThanWellFounded
  <1>4. \A x, y \in Nat : x < y => <<x, y>> \in LT
    BY DEF OpToRel
  <1> HIDE DEF LT
  <1>5. D \subseteq Nat
    BY <1>1
  <1>6. PICK n \in D : \A y \in D : ~ (<<y, n>> \in LT)
    <2> HIDE DEF D
    <2> QED
      BY <1>2, <1>3, <1>5, WFMin
  <1>7. n > 0 => ~ PassedOver(s, n)
    <2> SUFFICES ASSUME n > 0, PassedOver(s, n) PROVE FALSE
      OBVIOUS
    <2>1. n \in 0 .. Len(log) /\ n - 1 \in 0 .. Len(log) /\ n - 1 < n
      BY <1>1
    <2>2. Behind(n - 1)
      <3>1. \A i \in ((n - 1) + 1) .. Len(log) : i = n \/ i \in (n + 1) .. Len(log)
        BY <1>1, <2>1
      <3> QED
        BY <3>1
    <2>3. n - 1 \in D
      BY <2>1, <2>2
    <2> QED
      BY <1>4, <1>5, <1>6, <2>1, <2>3
  <1>8. /\ n \in 0 .. Len(log)
        /\ n > 0 => (kind[s] = "application" \/ log[n] # Project)
        /\ \A i \in (n + 1) .. Len(log) : kind[s] # "application" /\ log[i] = Project
    BY <1>7 DEF PassedOver
  <1> QED
    BY <1>8 DEF LatestSequence, PassedOver

\* The topics a stream wants: no filtered stream is about projects.
LEMMA Wishes ==
    ASSUME NEW s \in Subscribers
    PROVE  /\ Wants(s) \subseteq AllTopics
           /\ kind[s] # "application" => Project \notin Wants(s)
           /\ kind[s] = "application" => Wants(s) = AllTopics
  BY SinkAssumption DEF Wants, AllTopics

\* A page of the replay: what is wanted of the rows (r, t], up to the row that
\* the next page goes on from.
LEMMA RowsAre ==
    ASSUME TypeOK, NEW s \in Subscribers, NEW r \in Nat, NEW t \in Nat, r <= t, t <= Len(log),
           NEW size \in Nat \ {0}
    PROVE  LET rows == Rows(s, r, t, size)
               last == IF Len(rows) < size THEN t ELSE rows[size].seq
           IN  /\ rows \in Seq(Event) /\ Increasing(rows) /\ Logged(rows)
               /\ \A i \in DOMAIN rows : Wanted(s, rows[i])
               /\ last \in r .. t
               /\ \A n \in Sequences(rows) : r < n /\ n <= last
               /\ \A n \in (r + 1) .. last : log[n] \in Wants(s) => n \in Sequences(rows)
  <1> DEFINE all  == [i \in 1 .. (t - r) |-> [seq |-> r + i, topic |-> log[r + i]]]
             kept == Only(all, EventsOn(Wants(s)))
             m    == IF Len(kept) < size THEN Len(kept) ELSE size
             rows == SubSeq(kept, 1, m)
             last == IF Len(rows) < size THEN t ELSE rows[size].seq
  <1>0. Rows(s, r, t, size) = rows
    BY DEF Rows
  <1>1. log \in Seq(AllTopics) /\ Len(log) \in Nat /\ DOMAIN log = 1 .. Len(log)
    BY DEF TypeOK
  <1>2. \A i \in 1 .. (t - r) : r + i \in (r + 1) .. t /\ r + i \in DOMAIN log /\ log[r + i] \in AllTopics
    BY <1>1
  <1>3. \A i \in 1 .. (t - r) : all[i].seq = r + i /\ all[i].topic = log[r + i] /\ all[i] \in Event
    BY <1>2 DEF Event, EventsOn
  <1>4. all \in Seq(Event) /\ DOMAIN all = 1 .. (t - r)
    <2>1. t - r \in Nat
      OBVIOUS
    <2>2. all \in [1 .. (t - r) -> Event]
      BY <1>3
    <2> HIDE DEF all
    <2> QED
      BY <2>1, <2>2
  <1> HIDE DEF all
  <1>5. Increasing(all) /\ Logged(all)
    BY <1>2, <1>3, <1>4 DEF Increasing, Logged
  <1>6. /\ kept \in Seq(Event) /\ Increasing(kept) /\ Logged(kept)
        /\ Sequences(kept) = {all[i].seq : i \in {k \in DOMAIN all : all[k].topic \in Wants(s)}}
        /\ \A i \in DOMAIN kept : kept[i].topic \in Wants(s)
    BY <1>4, <1>5, Filtered
  <1>7. Sequences(kept) = {n \in (r + 1) .. t : log[n] \in Wants(s)}
    <2>1. ASSUME NEW n \in Sequences(kept) PROVE n \in (r + 1) .. t /\ log[n] \in Wants(s)
      <3>1. PICK i \in DOMAIN all : n = all[i].seq /\ all[i].topic \in Wants(s)
        BY <1>6, <2>1
      <3> QED
        BY <1>2, <1>3, <1>4, <3>1
    <2>2. ASSUME NEW n \in (r + 1) .. t, log[n] \in Wants(s) PROVE n \in Sequences(kept)
      <3>1. n - r \in 1 .. (t - r) /\ r + (n - r) = n
        OBVIOUS
      <3>2. all[n - r].seq = n /\ all[n - r].topic = log[n] /\ n - r \in DOMAIN all
        BY <1>3, <1>4, <3>1
      <3> QED
        BY <1>6, <2>2, <3>2
    <2> QED
      BY <2>1, <2>2
  <1> HIDE DEF kept
  <1>8. m \in 0 .. Len(kept) /\ m <= size /\ DOMAIN kept = 1 .. Len(kept) /\ Len(kept) \in Nat
    BY <1>6
  <1>9. /\ rows \in Seq(Event) /\ Len(rows) = m /\ DOMAIN rows = 1 .. m
        /\ \A i \in 1 .. m : i \in DOMAIN kept /\ rows[i] = kept[i]
    <2> HIDE DEF m
    <2> QED
      BY <1>6, <1>8, FirstOnes
  <1> HIDE DEF rows
  <1>10. /\ Len(rows) < size <=> Len(kept) < size
         /\ Len(kept) < size => m = Len(kept)
         /\ ~ (Len(kept) < size) => m = size
    <2>1. Len(rows) = m
      BY <1>9
    <2>2. /\ Len(kept) < size => m = Len(kept)
          /\ ~ (Len(kept) < size) => m = size
      OBVIOUS
    <2>3. Len(kept) \in Nat
      BY <1>8
    <2> HIDE DEF m
    <2> QED
      BY <2>1, <2>2, <2>3
  <1> HIDE DEF m
  <1>11. Increasing(rows) /\ Logged(rows) /\ \A i \in DOMAIN rows : Wanted(s, rows[i])
    BY <1>6, <1>9 DEF Increasing, Logged, Wanted
  <1>12. ASSUME NEW i \in DOMAIN kept PROVE kept[i].seq \in (r + 1) .. t /\ kept[i].seq \in Sequences(kept)
    BY <1>7 DEF Sequences
  <1>13. ASSUME Len(kept) < size
         PROVE  /\ rows \in Seq(Event) /\ Increasing(rows) /\ Logged(rows)
                /\ \A i \in DOMAIN rows : Wanted(s, rows[i])
                /\ last \in r .. t
                /\ \A n \in Sequences(rows) : r < n /\ n <= last
                /\ \A n \in (r + 1) .. last : log[n] \in Wants(s) => n \in Sequences(rows)
    <2>1. last = t /\ m = Len(kept)
      BY <1>10, <1>13
    <2>2. Sequences(rows) = Sequences(kept)
      BY <1>8, <1>9, <2>1 DEF Sequences
    <2>3. last \in r .. t
      BY <2>1
    <2>4. \A n \in Sequences(rows) : r < n /\ n <= last
      BY <1>7, <2>1, <2>2
    <2>5. \A n \in (r + 1) .. last : log[n] \in Wants(s) => n \in Sequences(rows)
      BY <1>7, <2>1, <2>2
    <2> HIDE DEF last
    <2> QED
      BY <1>9, <1>11, <2>3, <2>4, <2>5
  <1>14. ASSUME ~ (Len(kept) < size)
         PROVE  /\ rows \in Seq(Event) /\ Increasing(rows) /\ Logged(rows)
                /\ \A i \in DOMAIN rows : Wanted(s, rows[i])
                /\ last \in r .. t
                /\ \A n \in Sequences(rows) : r < n /\ n <= last
                /\ \A n \in (r + 1) .. last : log[n] \in Wants(s) => n \in Sequences(rows)
    <2>1. m = size /\ last = kept[size].seq /\ size \in DOMAIN kept /\ size \in 1 .. m
      BY <1>8, <1>9, <1>10, <1>14
    <2>2. last \in (r + 1) .. t
      BY <1>12, <2>1
    <2> HIDE DEF last
    <2>3. ASSUME NEW n \in Sequences(rows) PROVE r < n /\ n <= last
      <3>1. PICK i \in 1 .. size : n = kept[i].seq /\ i \in DOMAIN kept
        BY <1>9, <2>1, <2>3 DEF Sequences
      <3>2. n \in (r + 1) .. t
        BY <1>12, <3>1
      <3>3. i = size \/ i < size
        BY <3>1
      <3>4. i < size => n < last
        BY <1>6, <2>1, <3>1 DEF Increasing
      <3> QED
        BY <2>1, <2>2, <3>1, <3>2, <3>3, <3>4
    <2>4. ASSUME NEW n \in (r + 1) .. last, log[n] \in Wants(s) PROVE n \in Sequences(rows)
      <3>1. n \in (r + 1) .. t /\ n <= last
        BY <2>2
      <3>2. n \in Sequences(kept)
        BY <1>7, <2>4, <3>1
      <3>3. PICK i \in 1 .. Len(kept) : n = kept[i].seq
        BY <1>8, <3>2 DEF Sequences
      <3>4. i <= size
        <4>1. size < i => last < n
          BY <1>6, <1>8, <2>1, <3>3 DEF Increasing
        <4> QED
          BY <2>2, <3>1, <3>3, <4>1
      <3>5. i \in 1 .. m
        BY <2>1, <3>3, <3>4
      <3> QED
        BY <1>9, <3>3, <3>5 DEF Sequences
    <2>5. last \in r .. t
      BY <2>2
    <2> QED
      BY <1>9, <1>11, <2>3, <2>4, <2>5
  <1> HIDE DEF last
  <1>15. /\ rows \in Seq(Event) /\ Increasing(rows) /\ Logged(rows)
         /\ \A i \in DOMAIN rows : Wanted(s, rows[i])
         /\ last \in r .. t
         /\ \A n \in Sequences(rows) : r < n /\ n <= last
         /\ \A n \in (r + 1) .. last : log[n] \in Wants(s) => n \in Sequences(rows)
    BY <1>13, <1>14
  <1> QED
    BY <1>0, <1>15, Zenon DEF last

-----------------------------------------------------------------------------
(* What is on its way from the writers.                                    *)

LEMMA RemainingIs ==
    ASSUME NEW w \in Writers
    PROVE  /\ pc[w] = "application" => Remaining(w) = Publishing
           /\ pc[w] = "live" => Remaining(w) = {"live", "typed"}
           /\ pc[w] = "typed" => Remaining(w) = {"typed"}
           /\ pc[w] \notin Publishing => Remaining(w) = {}
  <1> DEFINE rank == [application |-> 1, live |-> 2, typed |-> 3]
  <1>1. /\ rank["application"] = 1 /\ rank["live"] = 2 /\ rank["typed"] = 3
    OBVIOUS
  <1>2. Remaining(w) = {hub \in Publishing : pc[w] \in Publishing /\ rank[pc[w]] <= rank[hub]}
    BY DEF Remaining
  <1> HIDE DEF rank
  <1> QED
    BY <1>1, <1>2 DEF Publishing

LEMMA Hubs ==
    ASSUME TypeOK, NEW s \in Subscribers
    PROVE  /\ HubOf(s) \in Publishing
           /\ HubOf(s) = "application" <=> kind[s] = "application"
           /\ HubOf(s) = "typed" <=> kind[s] = "worker"
  <1>1. kind[s] \in {"application", "thread", "worker"}
    BY DEF TypeOK, Kinds
  <1> QED
    BY <1>1 DEF HubOf, Publishing

\* Only the writer with the lane is about to publish.
LEMMA ComingIs ==
    WInv => \A s \in Subscribers, w \in Writers :
      /\ pc[w] \in Publishing /\ HubOf(s) \in Remaining(w) => Coming(s) = Sequences(pending[w])
      /\ pc[w] \in WithLane /\ HubOf(s) \notin Remaining(w) => Coming(s) = {}
  <1> SUFFICES ASSUME WInv, NEW s \in Subscribers, NEW w \in Writers
               PROVE  /\ pc[w] \in Publishing /\ HubOf(s) \in Remaining(w)
                           => Coming(s) = Sequences(pending[w])
                      /\ pc[w] \in WithLane /\ HubOf(s) \notin Remaining(w) => Coming(s) = {}
    OBVIOUS
  <1>1. ASSUME NEW v \in Writers, HubOf(s) \in Remaining(v), pc[w] \in WithLane PROVE v = w
    <2>1. pc[v] \in Publishing
      BY <1>1, RemainingIs
    <2> QED
      BY <1>1, <2>1, StageSets DEF WInv, OneLane
  <1>2. Publishing \subseteq WithLane
    BY StageSets
  <1>3. ASSUME pc[w] \in Publishing, HubOf(s) \in Remaining(w) PROVE Coming(s) = Sequences(pending[w])
    <2>1. {v \in Writers : HubOf(s) \in Remaining(v)} = {w}
      BY <1>1, <1>2, <1>3
    <2> QED
      BY <2>1 DEF Coming
  <1>4. ASSUME pc[w] \in WithLane, HubOf(s) \notin Remaining(w) PROVE Coming(s) = {}
    <2>1. {v \in Writers : HubOf(s) \in Remaining(v)} = {}
      BY <1>1, <1>4
    <2> QED
      BY <2>1 DEF Coming
  <1> QED
    BY <1>3, <1>4

LEMMA ComingIsNext ==
    WInv' => (\A s \in Subscribers, w \in Writers :
      /\ pc[w] \in Publishing /\ HubOf(s) \in Remaining(w) => Coming(s) = Sequences(pending[w])
      /\ pc[w] \in WithLane /\ HubOf(s) \notin Remaining(w) => Coming(s) = {})'
  BY ComingIs, PTL

\* Without a writer that publishes nothing is coming.
LEMMA NothingComing ==
    ASSUME NEW s \in Subscribers, \A w \in Writers : pc[w] \notin Publishing
    PROVE  Coming(s) = {}
  <1>1. {v \in Writers : HubOf(s) \in Remaining(v)} = {}
    BY RemainingIs
  <1> QED
    BY <1>1 DEF Coming

LEMMA RemainingIsNext ==
    (\A w \in Writers :
       /\ pc[w] = "application" => Remaining(w) = Publishing
       /\ pc[w] = "live" => Remaining(w) = {"live", "typed"}
       /\ pc[w] = "typed" => Remaining(w) = {"typed"}
       /\ pc[w] \notin Publishing => Remaining(w) = {})'
  <1>1. \A w \in Writers :
       /\ pc[w] = "application" => Remaining(w) = Publishing
       /\ pc[w] = "live" => Remaining(w) = {"live", "typed"}
       /\ pc[w] = "typed" => Remaining(w) = {"typed"}
       /\ pc[w] \notin Publishing => Remaining(w) = {}
    BY RemainingIs
  <1> QED
    BY <1>1, PTL

\* A project's batch is that one event.
LEMMA ProjectBatch ==
    ASSUME TypeOK, BatchesArePending, NEW w \in Writers, NEW i \in DOMAIN pending[w],
           pending[w][i].topic = Project
    PROVE  DOMAIN pending[w] = {1} /\ i = 1
  <1> DEFINE b == TopicsOf(pending[w])
  <1>1. pending[w] \in Seq(Event) /\ DOMAIN pending[w] = 1 .. Len(pending[w]) /\ Len(pending[w]) \in Nat
    BY DEF TypeOK
  <1>2. b \in Batches /\ DOMAIN b = DOMAIN pending[w] /\ b[i] = Project
    BY DEF BatchesArePending, TopicsOf
  <1> HIDE DEF b
  <1>3. CASE b \in {<< >>, <<Project>>}
    BY <1>2, <1>3
  <1>4. ASSUME NEW n \in 1 .. MaxBatch, b \in [1 .. n -> Topics] PROVE FALSE
    BY <1>2, <1>4, SinkAssumption
  <1> QED
    BY <1>2, <1>3, <1>4 DEF Batches

\* What a writer is about to publish is in order.
LEMMA PendingIs ==
    ASSUME WritersInv, NEW w \in Writers, pc[w] \in Publishing
    PROVE  pending[w] \in Seq(Event) /\ Increasing(pending[w]) /\ Logged(pending[w])
  <1>1. pending[w] \in Seq(Event) /\ Len(pending[w]) \in Nat /\ DOMAIN pending[w] = 1 .. Len(pending[w])
    BY DEF WritersInv, TypeOK
  <1>2. Len(log) \in Nat
    BY DEF WritersInv, TypeOK
  <1>3. \A i \in DOMAIN pending[w] : pending[w][i].seq = Len(log) - Len(pending[w]) + i
    BY DEF WritersInv, WInv, PublishesTheEndOfTheLog
  <1> QED
    BY <1>1, <1>2, <1>3 DEF Increasing, WritersInv, PendingIsLogged

-----------------------------------------------------------------------------
(* The steps of the writers, for a stream.                                 *)

\* Nothing happens to the stream.
Stays(s) ==
    /\ kind'[s] = kind[s] /\ phase'[s] = phase[s] /\ cursor'[s] = cursor[s]
    /\ through'[s] = through[s] /\ readTo'[s] = readTo[s]
    /\ page'[s] = page[s] /\ buffer'[s] = buffer[s]

\* A stream waits: what was on its way to it still is, as far as it wants it.
LEMMA StreamWaits ==
    ASSUME TypeOK, NEW s \in Subscribers, InStep(s), Stays(s), inbox'[s] = inbox[s],
           missed'[s] = missed[s], log' = log, Coming(s)' \subseteq Coming(s),
           phase[s] \in {"replaying", "live"} =>
               \A n \in WantedAfter(s) : n \in Coming(s) => n \in Coming(s)'
    PROVE  InStep(s)'
  <1> USE DEF Stays
  <1>1. Wants(s)' = Wants(s)
    BY DEF Wants
  <1>2. WantedAfter(s)' = WantedAfter(s) /\ Live(s)' = Live(s)
    BY <1>1 DEF WantedAfter, Live, Sequences
  <1>3. HoldsTheLog(s)'
    BY <1>1, <1>2 DEF InStep, HoldsTheLog, Increasing, Logged, Wanted, Before, Sequences
  <1>4. CursorFits(s)' /\ PhaseFits(s)'
    <2>1. Live(s)' \cup Coming(s)' \subseteq Live(s) \cup Coming(s)
      BY <1>2
    <2> QED
      BY <2>1 DEF InStep, CursorFits, PhaseFits
  <1>5. NothingSkipped(s)'
    BY <1>2 DEF InStep, NothingSkipped, Sequences
  <1> QED
    BY <1>3, <1>4, <1>5 DEF InStep

\* The steps of a writer that is not about to publish, before and after.
LEMMA QuietStep ==
    ASSUME SInv, NEW w \in Writers, NEW stage,
           pc[w] \notin Publishing, stage \notin Publishing, Goto(w, stage),
           \A v \in Writers \ {w} : pending'[v] = pending[v],
           UNCHANGED <<log, kind, streamVars>>
    PROVE  \A s \in Subscribers : InStep(s)'
  <1> SUFFICES ASSUME NEW s \in Subscribers PROVE InStep(s)'
    OBVIOUS
  <1>1. pc \in [Writers -> Stages] /\ pc' = [pc EXCEPT ![w] = stage]
    BY DEF SInv, WritersInv, TypeOK, Goto
  <1>2. pc'[w] = stage /\ \A v \in Writers \ {w} : pc'[v] = pc[v]
    BY <1>1
  <1>3. Remaining(w) = {} /\ Remaining(w)' = {}
    BY <1>2, RemainingIs, RemainingIsNext
  <1>4. \A v \in Writers \ {w} : Remaining(v)' = Remaining(v)
    BY <1>2 DEF Remaining
  <1>5. HubOf(s)' = HubOf(s)
    BY DEF HubOf
  <1>6. {v \in Writers : HubOf(s) \in Remaining(v)}' = {v \in Writers : HubOf(s) \in Remaining(v)}
    BY <1>3, <1>4, <1>5
  <1>7. \A v \in Writers : HubOf(s) \in Remaining(v) => Sequences(pending[v])' = Sequences(pending[v])
    BY <1>3
  <1>8. Coming(s)' = Coming(s)
    BY <1>6, <1>7 DEF Coming
  <1>9. Stays(s) /\ inbox'[s] = inbox[s] /\ missed'[s] = missed[s] /\ log' = log
    BY DEF Stays, streamVars
  <1> QED
    BY <1>8, <1>9, StreamWaits DEF SInv, WritersInv

\* A commit: what it appends is on its way to every stream, and nothing else is.
LEMMA CommitStep ==
    ASSUME SInv, WInv', NEW w \in Writers, Commit(w)
    PROVE  /\ \A s \in Subscribers : InStep(s)'
           /\ PendingIsLogged'
           /\ log' = log \o TopicsOf(pending[w])
  <1>1. /\ pc[w] = "holding" /\ log' = log \o TopicsOf(pending[w])
        /\ pc' = [pc EXCEPT ![w] = IF pending[w] = << >> THEN "releasing" ELSE "application"]
        /\ pending' = pending /\ UNCHANGED <<kind, streamVars>>
    BY DEF Commit, Goto, TopicsOf
  <1>2. /\ pending[w] \in Seq(Event) /\ Len(pending[w]) \in Nat
        /\ DOMAIN pending[w] = 1 .. Len(pending[w])
        /\ log \in Seq(AllTopics) /\ Len(log) \in Nat /\ DOMAIN log = 1 .. Len(log)
        /\ pc \in [Writers -> Stages]
    BY DEF SInv, WritersInv, TypeOK
  <1>3. \A i \in 1 .. Len(pending[w]) : pending[w][i].seq = Len(log) + i
    BY <1>1 DEF SInv, WritersInv, WInv, NumberedNext, InTransaction
  <1>4. \A v \in Writers \ {w} : pc[v] \notin Publishing
    BY <1>1, StageSets DEF SInv, WritersInv, WInv, OneLane, WithLane
  <1> DEFINE topics == TopicsOf(pending[w])
  <1>5. topics \in Seq(AllTopics) /\ Len(topics) = Len(pending[w])
        /\ \A i \in 1 .. Len(pending[w]) : topics[i] = pending[w][i].topic
    <2>1. \A i \in 1 .. Len(pending[w]) : pending[w][i] \in Event
      BY <1>2
    <2>2. \A i \in 1 .. Len(pending[w]) : pending[w][i].topic \in AllTopics
      BY <2>1 DEF Event, EventsOn
    <2>3. topics = [i \in 1 .. Len(pending[w]) |-> pending[w][i].topic]
      BY <1>2 DEF TopicsOf
    <2> HIDE DEF topics
    <2>4. topics \in [1 .. Len(pending[w]) -> AllTopics]
      BY <2>2, <2>3
    <2> QED
      BY <1>2, <2>3, <2>4
  <1> HIDE DEF topics
  <1>6. /\ DOMAIN log' = 1 .. Len(log') /\ Len(log') = Len(log) + Len(pending[w])
        /\ \A n \in 1 .. Len(log) : log'[n] = log[n]
        /\ \A i \in 1 .. Len(pending[w]) : log'[Len(log) + i] = pending[w][i].topic
    <2>1. log' = log \o topics
      BY <1>1 DEF topics
    <2>2. /\ log' \in Seq(AllTopics) /\ Len(log') = Len(log) + Len(pending[w])
          /\ \A n \in 1 .. Len(log) : log'[n] = log[n]
      <3>1. /\ log \o topics \in Seq(AllTopics) /\ Len(log \o topics) = Len(log) + Len(topics)
            /\ \A n \in 1 .. Len(log) : (log \o topics)[n] = log[n]
        BY <1>2, <1>5
      <3> QED
        BY <1>5, <2>1, <3>1
    <2>3. ASSUME NEW i \in 1 .. Len(pending[w]) PROVE log'[Len(log) + i] = pending[w][i].topic
      <3>1. Len(log) + i \in 1 .. Len(log) + Len(topics) /\ ~ (Len(log) + i <= Len(log))
            /\ (Len(log) + i) - Len(log) = i
        BY <1>2, <1>5
      <3>2. (log \o topics)[Len(log) + i] = topics[i]
        BY <1>2, <1>5, <3>1
      <3> QED
        BY <1>5, <2>1, <3>2
    <2> QED
      BY <2>2, <2>3
  <1>7. PendingIsLogged'
    <2>1. Logged(pending[w])'
      <3>1. \A i \in 1 .. Len(pending[w]) : Len(log) + i \in 1 .. Len(log')
        BY <1>2, <1>6
      <3> QED
        BY <1>1, <1>2, <1>3, <1>6, <3>1 DEF Logged
    <2> QED
      BY <1>1, <1>2, <1>4, <2>1 DEF PendingIsLogged
  <1> DEFINE new == (Len(log) + 1) .. Len(log')
  <1>8. ASSUME NEW s \in Subscribers PROVE Coming(s) = {} /\ Coming(s)' = new
    <2>1. Coming(s) = {}
      <3>1. \A v \in Writers : pc[v] \notin Publishing
        BY <1>1, <1>4 DEF Publishing
      <3> QED
        BY <3>1, NothingComing
    <2>2. HubOf(s)' = HubOf(s) /\ HubOf(s) \in Publishing
      BY <1>1, Hubs DEF HubOf, SInv, WritersInv
    <2>3. CASE pending[w] = << >>
      <3>1. pc'[w] = "releasing"
        BY <1>1, <1>2, <2>3
      <3>2. Remaining(w)' = {} /\ pc'[w] \in WithLane
        BY <3>1, RemainingIsNext DEF Publishing, WithLane
      <3>3. Coming(s)' = {}
        BY <3>2, ComingIsNext
      <3>4. new = {}
        BY <1>2, <1>6, <2>3
      <3> QED
        BY <2>1, <3>3, <3>4
    <2>4. CASE pending[w] # << >>
      <3>1. pc'[w] = "application"
        BY <1>1, <1>2, <2>4
      <3>2. Remaining(w)' = Publishing /\ pc'[w] \in Publishing
        BY <3>1, RemainingIsNext DEF Publishing
      <3>3. Coming(s)' = Sequences(pending[w])
        BY <1>1, <2>2, <3>2, ComingIsNext DEF Sequences
      <3>4. Sequences(pending[w]) = {Len(log) + i : i \in 1 .. Len(pending[w])}
        BY <1>2, <1>3 DEF Sequences
      <3>5. \A n \in new : n - Len(log) \in 1 .. Len(pending[w]) /\ n = Len(log) + (n - Len(log))
        BY <1>2, <1>6
      <3>6. \A i \in 1 .. Len(pending[w]) : Len(log) + i \in new
        BY <1>2, <1>6
      <3> QED
        BY <2>1, <3>3, <3>4, <3>5, <3>6
    <2> QED
      BY <2>3, <2>4
  <1>9. ASSUME NEW s \in Subscribers PROVE InStep(s)'
    <2>0. Stays(s) /\ inbox'[s] = inbox[s] /\ missed'[s] = missed[s]
      BY <1>1 DEF Stays, streamVars
    <2>1. InStep(s) /\ Wants(s)' = Wants(s)
      BY <2>0 DEF SInv, Wants, Stays
    <2>2. Live(s)' = Live(s) /\ Live(s) \subseteq 1 .. Len(log)
      <3>1. Live(s)' = Live(s)
        BY <2>0 DEF Live, Sequences, Stays
      <3>2. Logged(buffer[s]) /\ Logged(inbox[s])
        BY <2>1 DEF InStep, HoldsTheLog
      <3> QED
        BY <1>2, <3>1, <3>2 DEF Live, Sequences, Logged
    <2>3. HoldsTheLog(s)'
      <3>1. Before(Live(s), new)
        BY <1>2, <2>2 DEF Before
      <3>2. Before(Live(s), Coming(s))'
        BY <1>8, <2>2, <3>1 DEF Before
      <3>3. 1 .. Len(log) \subseteq 1 .. Len(log')
        BY <1>2, <1>6
      <3>4. Logged(page[s])' /\ Logged(buffer[s])' /\ Logged(inbox[s])'
        BY <1>2, <1>6, <2>0, <2>1, <3>3 DEF InStep, HoldsTheLog, Logged, Stays
      <3> QED
        BY <2>0, <2>1, <3>2, <3>4 DEF InStep, HoldsTheLog, Increasing, Wanted, Before, Sequences, Stays
    <2>4. cursor[s] \in Nat /\ through[s] \in Nat /\ readTo[s] \in Nat
      BY DEF SInv, WritersInv, TypeOK
    <2>5. CursorFits(s)' /\ PhaseFits(s)'
      <3>1. \A n \in Coming(s)' : n > cursor[s]
        <4>1. cursor[s] <= Len(log)
          BY <2>1 DEF InStep, CursorFits
        <4> QED
          BY <1>2, <1>6, <1>8, <2>4, <4>1
      <3> QED
        BY <1>2, <1>6, <2>0, <2>1, <2>2, <2>4, <3>1 DEF InStep, CursorFits, PhaseFits, Stays
    <2>6. NothingSkipped(s)'
      <3>1. \A n \in WantedAfter(s)' : n \in WantedAfter(s) \/ n \in new
        BY <1>2, <1>6, <2>0, <2>1, <2>4 DEF WantedAfter, Stays
      <3>2. ASSUME phase[s] \in {"replaying", "live"}, NEW n \in new PROVE ~ (n <= readTo[s])
        BY <1>2, <1>6, <2>1, <2>4, <3>2 DEF InStep, PhaseFits
      <3> QED
        BY <1>8, <2>0, <2>1, <2>2, <3>1, <3>2 DEF InStep, NothingSkipped, Stays, Sequences
    <2> QED
      BY <2>3, <2>5, <2>6 DEF InStep
  <1> QED
    BY <1>1, <1>7, <1>9

\* A stream's PubSub gets what was on its way to it.
LEMMA StreamReceives ==
    ASSUME TypeOK, NEW s \in Subscribers, InStep(s), Stays(s), missed'[s] = missed[s], log' = log,
           NEW events \in Seq(Event), inbox'[s] = inbox[s] \o events,
           Increasing(events), Logged(events), phase[s] \notin {"off", "positioned"},
           Sequences(events) \subseteq Coming(s), Coming(s)' = {},
           \A n \in WantedAfter(s) : n \in Coming(s) => n \in Sequences(events)
    PROVE  InStep(s)'
  <1> USE DEF Stays
  <1>1. Wants(s)' = Wants(s) /\ HoldsTheLog(s)
    BY DEF Wants, InStep
  <1>2. inbox[s] \in Seq(Event) /\ buffer[s] \in Seq(Event)
    BY DEF TypeOK
  <1>3. Before(Sequences(buffer[s]), Sequences(events)) /\ Before(Sequences(inbox[s]), Sequences(events))
    BY <1>1 DEF HoldsTheLog, Before, Live
  <1>4. /\ Sequences(inbox[s])' = Sequences(inbox[s]) \cup Sequences(events)
        /\ Increasing(inbox[s])' /\ Logged(inbox[s])'
    <2> DEFINE joined == inbox[s] \o events
    <2>1. /\ Sequences(joined) = Sequences(inbox[s]) \cup Sequences(events)
          /\ Increasing(joined) /\ Logged(joined)
      BY <1>1, <1>2, <1>3, Joined DEF HoldsTheLog
    <2>2. inbox'[s] = joined
      OBVIOUS
    <2> HIDE DEF joined
    <2> QED
      BY <2>1, <2>2 DEF Increasing, Logged, Sequences
  <1>5. /\ WantedAfter(s)' = WantedAfter(s)
        /\ Live(s)' = Live(s) \cup Sequences(events)
    BY <1>1, <1>4 DEF WantedAfter, Live, Sequences
  <1>6. HoldsTheLog(s)'
    <2>1. Before(Sequences(buffer[s]), Sequences(inbox[s]))'
      BY <1>1, <1>3, <1>4 DEF HoldsTheLog, Before, Sequences
    <2>2. Before(Live(s), Coming(s))'
      BY DEF Before
    <2> QED
      BY <1>1, <1>4, <2>1, <2>2 DEF HoldsTheLog, Increasing, Logged, Wanted
  <1>7. CursorFits(s)' /\ PhaseFits(s)'
    <2>1. Live(s)' \cup Coming(s)' \subseteq Live(s) \cup Coming(s)
      BY <1>5
    <2> QED
      BY <2>1 DEF InStep, CursorFits, PhaseFits
  <1>8. NothingSkipped(s)'
    BY <1>5 DEF InStep, NothingSkipped, Sequences
  <1> QED
    BY <1>6, <1>7, <1>8 DEF InStep

\* What a publication changes for a stream: its own PubSub has got the events,
\* and the others are still to get them, but of a project's event none wants it.
LEMMA PublishStep ==
    ASSUME SInv, WInv', NEW w \in Writers, Publish(w)
    PROVE  \A s \in Subscribers : InStep(s)'
  <1> SUFFICES ASSUME NEW s \in Subscribers PROVE InStep(s)'
    OBVIOUS
  <1> DEFINE events == Published(s, pc[w], pending[w])
  <1>1. /\ pc[w] \in Publishing /\ pc' = [pc EXCEPT ![w] = NextStage(w)]
        /\ inbox'[s] = inbox[s] \o events
        /\ Stays(s) /\ missed'[s] = missed[s] /\ UNCHANGED <<log, pending, kind>>
    BY DEF Publish, Goto, Stays
  <1>2. TypeOK /\ InStep(s) /\ pc'[w] = NextStage(w) /\ WInv /\ BatchesArePending
    BY <1>1 DEF SInv, WritersInv, TypeOK
  <1>3. pending[w] \in Seq(Event) /\ Increasing(pending[w]) /\ Logged(pending[w])
    BY <1>1, PendingIs DEF SInv
  <1>4. pc[w] \in WithLane /\ NextStage(w) \in WithLane
    BY <1>1 DEF Publishing, WithLane, NextStage
  <1>5. HubOf(s)' = HubOf(s) /\ HubOf(s) \in Publishing
    BY <1>1, <1>2, Hubs DEF HubOf
  <1>6. /\ HubOf(s) \in Remaining(w) => Coming(s) = Sequences(pending[w])
        /\ HubOf(s) \notin Remaining(w) => Coming(s) = {}
        /\ HubOf(s) \in Remaining(w)' => Coming(s)' = Sequences(pending[w])
        /\ HubOf(s) \notin Remaining(w)' => Coming(s)' = {}
    <2>1. Sequences(pending[w])' = Sequences(pending[w])
      BY <1>1
    <2>2. HubOf(s) \in Remaining(w)' => pc'[w] \in Publishing
      BY RemainingIsNext
    <2> QED
      BY <1>1, <1>2, <1>4, <1>5, <2>1, <2>2, ComingIs, ComingIsNext
  <1>7. CASE HubOf(s) = pc[w]
    <2>1. pc[w] \in Remaining(w) /\ pc[w] \notin Remaining(w)'
      BY <1>1, <1>2, RemainingIs, RemainingIsNext DEF Publishing, NextStage
    <2>2. Coming(s) = Sequences(pending[w]) /\ Coming(s)' = {}
      BY <1>6, <1>7, <2>1
    <2>3. CASE phase[s] \in {"off", "positioned"}
      <3>1. inbox'[s] = inbox[s]
        <4>1. events = << >> /\ inbox[s] \in Seq(Event)
          BY <1>2, <2>3 DEF Published, Reaches, TypeOK
        <4> QED
          BY <1>1, <4>1
      <3> QED
        BY <1>1, <1>2, <2>2, <2>3, <3>1, StreamWaits
    <2>4. CASE phase[s] \notin {"off", "positioned"}
      <3>1. Reaches(s, pc[w])
        BY <1>2, <1>7, <2>4 DEF Reaches, TypeOK, Phases
      <3>2. /\ events \in Seq(Event) /\ Increasing(events) /\ Logged(events)
            /\ Sequences(events) \subseteq Sequences(pending[w])
            /\ \A n \in WantedAfter(s) : n \in Sequences(pending[w]) => n \in Sequences(events)
        <4>1. CASE pc[w] = "typed"
          <5>1. events = Only(pending[w], EventsOn(Wants(s)))
            BY <3>1, <4>1 DEF Published
          <5>2. /\ events \in Seq(Event) /\ Increasing(events) /\ Logged(events)
                /\ Sequences(events) =
                     {pending[w][i].seq : i \in {k \in DOMAIN pending[w] : pending[w][k].topic \in Wants(s)}}
            BY <1>3, <5>1, Filtered
          <5> HIDE DEF events
          <5>3. Sequences(events) \subseteq Sequences(pending[w])
            BY <5>2 DEF Sequences
          <5>4. ASSUME NEW n \in WantedAfter(s), n \in Sequences(pending[w]) PROVE n \in Sequences(events)
            <6>1. PICK i \in DOMAIN pending[w] : n = pending[w][i].seq
              BY <5>4 DEF Sequences
            <6>2. pending[w][i].topic \in Wants(s)
              BY <1>3, <5>4, <6>1 DEF Logged, WantedAfter
            <6> QED
              BY <5>2, <6>1, <6>2
          <5> QED
            BY <5>2, <5>3, <5>4
        <4>2. CASE pc[w] # "typed"
          <5>1. events = pending[w]
            BY <3>1, <4>2 DEF Published
          <5> QED
            BY <1>3, <5>1
        <4> QED
          BY <4>1, <4>2
      <3> HIDE DEF events
      <3> QED
        BY <1>1, <1>2, <2>2, <2>4, <3>2, StreamReceives
    <2> QED
      BY <2>3, <2>4
  <1>8. CASE HubOf(s) # pc[w]
    <2>1. inbox'[s] = inbox[s]
      <3>1. events = << >> /\ inbox[s] \in Seq(Event)
        BY <1>2, <1>8 DEF Published, Reaches, TypeOK
      <3> QED
        BY <1>1, <3>1
    <2>2. HubOf(s) \in Remaining(w)' => HubOf(s) \in Remaining(w)
      BY <1>1, <1>2, <1>5, <1>8, RemainingIs, RemainingIsNext DEF Publishing, NextStage
    <2>3. Coming(s)' \subseteq Coming(s)
      BY <1>6, <2>2
    <2>4. ASSUME NEW n \in WantedAfter(s), n \in Coming(s) PROVE n \in Coming(s)'
      <3> SUFFICES ASSUME HubOf(s) \notin Remaining(w)' PROVE FALSE
        BY <1>6, <2>4
      <3>1. n \in Sequences(pending[w]) /\ HubOf(s) \in Remaining(w)
        BY <1>6, <2>4
      <3>2. pc[w] = "application" /\ pending[w][1].topic = Project /\ HubOf(s) # "application"
        BY <1>1, <1>2, <1>5, <1>8, <3>1, RemainingIs, RemainingIsNext DEF Publishing, NextStage
      <3>3. PICK i \in DOMAIN pending[w] : n = pending[w][i].seq
        BY <3>1 DEF Sequences
      <3>4. 1 \in DOMAIN pending[w]
        BY <1>3, <3>3
      <3>5. i = 1
        BY <1>2, <3>2, <3>3, <3>4, ProjectBatch
      <3>6. log[n] = Project
        BY <1>3, <3>2, <3>3, <3>5 DEF Logged
      <3>7. Project \notin Wants(s)
        BY <1>2, <3>2, Hubs, Wishes
      <3> QED
        BY <2>4, <3>6, <3>7 DEF WantedAfter
    <2> QED
      BY <1>1, <1>2, <2>1, <2>3, <2>4, StreamWaits
  <1> QED
    BY <1>7, <1>8

\* An interrupted publication: what was on its way is missed by the streams
\* that would have got it.
LEMMA InterruptStep ==
    ASSUME SInv, WInv', NEW w \in Writers, InterruptPublish(w)
    PROVE  \A s \in Subscribers : InStep(s)'
  <1> SUFFICES ASSUME NEW s \in Subscribers PROVE InStep(s)'
    OBVIOUS
  <1>1. /\ pc[w] \in Publishing /\ pc' = [pc EXCEPT ![w] = "releasing"]
        /\ Stays(s) /\ inbox'[s] = inbox[s] /\ log' = log
        /\ missed'[s] = IF phase[s] \in {"replaying", "live"} /\ HubOf(s) \in Remaining(w)
                        THEN missed[s] \cup {n \in Sequences(pending[w]) : n > through[s]}
                        ELSE missed[s]
    BY DEF InterruptPublish, Goto, Stays
  <1>2. TypeOK /\ InStep(s) /\ pc'[w] = "releasing" /\ WInv
    BY <1>1 DEF SInv, WritersInv, TypeOK
  <1>3. Logged(pending[w])
    BY <1>1, PendingIs DEF SInv
  <1>4. pc[w] \in WithLane /\ pc'[w] \in WithLane
    BY <1>1, <1>2 DEF Publishing, WithLane
  <1>5. /\ HubOf(s) \in Remaining(w) => Coming(s) = Sequences(pending[w])
        /\ HubOf(s) \notin Remaining(w) => Coming(s) = {}
        /\ Coming(s)' = {}
    <2>1. HubOf(s)' \notin Remaining(w)'
      BY <1>2, RemainingIsNext DEF Publishing
    <2> QED
      BY <1>1, <1>2, <1>4, <2>1, ComingIs, ComingIsNext
  <1>6. CASE phase[s] \in {"replaying", "live"} /\ HubOf(s) \in Remaining(w)
    <2>1. /\ missed'[s] = missed[s] \cup {n \in Sequences(pending[w]) : n > through[s]}
          /\ Coming(s) = Sequences(pending[w]) /\ Sequences(pending[w]) \subseteq DOMAIN log
      BY <1>1, <1>3, <1>5, <1>6 DEF Logged, Sequences
    <2>2. Wants(s)' = Wants(s)
      BY <1>1 DEF Wants, Stays
    <2>3. WantedAfter(s)' = WantedAfter(s) /\ Live(s)' = Live(s)
      BY <1>1, <2>2 DEF WantedAfter, Live, Sequences, Stays
    <2>4. HoldsTheLog(s)'
      BY <1>1, <1>2, <1>5, <2>2, <2>3
         DEF InStep, HoldsTheLog, Increasing, Logged, Wanted, Before, Sequences, Stays
    <2>5. CursorFits(s)' /\ PhaseFits(s)'
      BY <1>1, <1>2, <1>5, <1>6, <2>1, <2>3 DEF InStep, CursorFits, PhaseFits, Stays
    <2>6. NothingSkipped(s)'
      BY <1>1, <1>2, <1>5, <2>1, <2>3 DEF InStep, NothingSkipped, Sequences, Stays
    <2> QED
      BY <2>4, <2>5, <2>6 DEF InStep
  <1>7. CASE ~ (phase[s] \in {"replaying", "live"} /\ HubOf(s) \in Remaining(w))
    <2>1. missed'[s] = missed[s]
      BY <1>1, <1>7
    <2> QED
      BY <1>1, <1>2, <1>5, <1>7, <2>1, StreamWaits
  <1> QED
    BY <1>6, <1>7

-----------------------------------------------------------------------------
(* The steps of a stream.                                                  *)

\* A stream that is closed holds nothing and keeps its position.
LEMMA StreamCloses ==
    ASSUME TypeOK, NEW s \in Subscribers, InStep(s), kind'[s] = kind[s], cursor'[s] = cursor[s],
           phase'[s] = "off", inbox'[s] = << >>, page'[s] = << >>, buffer'[s] = << >>,
           missed'[s] = {}, log' = log
    PROVE  InStep(s)'
  <1>1. Sequences(inbox[s])' = {} /\ Sequences(buffer[s])' = {} /\ Sequences(page[s])' = {}
    BY DEF Sequences
  <1>2. Live(s)' = {}
    BY <1>1 DEF Live
  <1>3. HoldsTheLog(s)'
    BY <1>1, <1>2 DEF HoldsTheLog, Increasing, Logged, Wanted, Before
  <1> QED
    BY <1>2, <1>3 DEF InStep, CursorFits, PhaseFits, NothingSkipped

LEMMA CrashStep ==
    ASSUME SInv, Crash
    PROVE  \A s \in Subscribers : InStep(s)'
  <1> SUFFICES ASSUME NEW s \in Subscribers PROVE InStep(s)'
    OBVIOUS
  <1>1. /\ kind'[s] = kind[s] /\ cursor'[s] = cursor[s] /\ phase'[s] = "off" /\ inbox'[s] = << >>
        /\ page'[s] = << >> /\ buffer'[s] = << >> /\ missed'[s] = {} /\ log' = log
    BY DEF Crash
  <1> QED
    BY <1>1, StreamCloses DEF SInv, WritersInv

\* Streams do not change what is coming to them.
LEMMA StreamsDoNotPublish ==
    ASSUME UNCHANGED <<writerVars, kind>>, NEW s \in Subscribers
    PROVE  Coming(s)' = Coming(s) /\ Wants(s)' = Wants(s)
  <1>1. \A w \in Writers : Remaining(w)' = Remaining(w)
    BY DEF Remaining, writerVars
  <1>2. HubOf(s)' = HubOf(s) /\ Wants(s)' = Wants(s)
    BY DEF HubOf, Wants
  <1>3. \A w \in Writers : Sequences(pending[w])' = Sequences(pending[w])
    BY DEF writerVars
  <1> QED
    BY <1>1, <1>2, <1>3 DEF Coming

\* A stream opens: nothing was replayed, and what is published it will get.
LEMMA OpeningStep ==
    ASSUME SInv, NEW s \in Subscribers, ReadPosition(s) \/ Subscribe(s) \/ ReadHighWater(s)
    PROVE  InStep(s)'
  <1>1. TypeOK /\ InStep(s)
    BY DEF SInv, WritersInv
  <1>2. /\ LatestSequence(s) \in 0 .. Len(log) /\ Len(log) \in Nat
        /\ LatestSequence(s) > 0 => ~ PassedOver(s, LatestSequence(s))
        /\ \A i \in (LatestSequence(s) + 1) .. Len(log) : PassedOver(s, i)
    BY <1>1, LatestIs DEF TypeOK
  <1>3. /\ UNCHANGED <<log, writerVars, kind>>
        /\ inbox'[s] = inbox[s] /\ page'[s] = page[s] /\ buffer'[s] = buffer[s] /\ missed'[s] = missed[s]
    BY DEF ReadPosition, Subscribe, ReadHighWater
  <1>4. Coming(s)' = Coming(s) /\ Wants(s)' = Wants(s)
    BY <1>3, StreamsDoNotPublish
  <1>5. Live(s)' = Live(s)
    BY <1>3 DEF Live, Sequences
  <1>6. HoldsTheLog(s)'
    BY <1>1, <1>3, <1>4, <1>5 DEF InStep, HoldsTheLog, Increasing, Logged, Wanted, Before, Sequences
  <1>7. CASE ReadPosition(s)
    <2>1. phase[s] = "off" /\ phase'[s] = "positioned" /\ cursor'[s] = LatestSequence(s)
      BY <1>1, <1>7 DEF ReadPosition, TypeOK
    <2>2. inbox[s] = << >> /\ page[s] = << >> /\ buffer[s] = << >> /\ missed[s] = {}
      BY <1>1, <2>1 DEF InStep, PhaseFits, CursorFits
    <2>3. CursorFits(s)' /\ PhaseFits(s)' /\ NothingSkipped(s)'
      BY <1>2, <1>3, <2>1, <2>2 DEF CursorFits, PhaseFits, NothingSkipped, PassedOver
    <2> QED
      BY <1>6, <2>3 DEF InStep
  <1>8. CASE Subscribe(s)
    <2>1. /\ phase[s] \in {"off", "positioned"} /\ phase'[s] = "subscribed"
          /\ cursor'[s] = cursor[s] /\ through'[s] = cursor[s] /\ cursor[s] \in Nat
      BY <1>1, <1>8 DEF Subscribe, TypeOK
    <2>2. CursorFits(s)' /\ PhaseFits(s)' /\ NothingSkipped(s)'
      BY <1>1, <1>3, <1>4, <1>5, <2>1 DEF InStep, CursorFits, PhaseFits, NothingSkipped
    <2> QED
      BY <1>6, <2>2 DEF InStep
  <1>9. CASE ReadHighWater(s)
    <2>1. /\ phase[s] = "subscribed" /\ phase'[s] = "replaying" /\ cursor'[s] = cursor[s]
          /\ through'[s] = Larger(LatestSequence(s), cursor[s]) /\ readTo'[s] = cursor[s]
          /\ cursor[s] \in Nat
      BY <1>1, <1>9 DEF ReadHighWater, TypeOK
    <2>2. /\ through'[s] \in Nat /\ through'[s] >= cursor[s] /\ through'[s] >= LatestSequence(s)
          /\ through'[s] <= Len(log) /\ cursor[s] <= Len(log)
      BY <1>1, <1>2, <2>1 DEF Larger, InStep, CursorFits
    <2>3. page[s] = << >> /\ through[s] = cursor[s]
      BY <1>1, <2>1 DEF InStep, PhaseFits
    <2>4. CursorFits(s)' /\ PhaseFits(s)'
      <3>1. Live(s) \cup Coming(s) \subseteq Nat
        <4>1. /\ pending \in [Writers -> Seq(Event)]
              /\ inbox[s] \in Seq(Event) /\ buffer[s] \in Seq(Event)
          BY <1>1 DEF TypeOK
        <4> QED
          BY <4>1, SequencesAreNumbers DEF Live, Coming
      <3>2. \A n \in Live(s) \cup Coming(s) : n > through'[s] => n > cursor[s]
        BY <2>1, <2>2, <3>1
      <3>3. CursorFits(s)'
        BY <1>1, <1>3, <1>4, <1>5, <2>1, <2>2, <3>2 DEF InStep, CursorFits
      <3>4. PhaseFits(s)'
        BY <1>3, <2>1, <2>2, <2>3 DEF PhaseFits
      <3> QED
        BY <3>3, <3>4
    <2>5. ASSUME NEW n \in WantedAfter(s) PROVE ~ (n > through'[s])
      <3>1. n \in Nat /\ n <= Len(log) /\ log[n] \in Wants(s)
        BY <1>2, <2>1, <2>5 DEF WantedAfter
      <3>2. n > through'[s] => PassedOver(s, n)
        BY <1>2, <2>2, <3>1
      <3> QED
        BY <3>1, <3>2, Wishes DEF PassedOver
    <2>6. WantedAfter(s)' = WantedAfter(s) /\ \A n \in WantedAfter(s) : ~ (n <= cursor[s])
      BY <1>2, <1>3, <1>4, <2>1 DEF WantedAfter
    <2>7. Sequences(page[s])' = {}
      BY <1>3, <2>3 DEF Sequences
    <2>8. NothingSkipped(s)'
      BY <2>1, <2>5, <2>6, <2>7 DEF NothingSkipped
    <2> QED
      BY <1>6, <2>4, <2>8 DEF InStep
  <1> QED
    BY <1>7, <1>8, <1>9

LEMMA LiveAreNumbers ==
    ASSUME TypeOK, NEW s \in Subscribers
    PROVE  Live(s) \cup Coming(s) \cup Sequences(page[s]) \subseteq Nat
  <1>1. /\ pending \in [Writers -> Seq(Event)] /\ page[s] \in Seq(Event)
        /\ inbox[s] \in Seq(Event) /\ buffer[s] \in Seq(Event)
    BY DEF TypeOK
  <1> QED
    BY <1>1, SequencesAreNumbers DEF Live, Coming

\* The replay reads on: what it reads it will deliver.
LEMMA ReadPageStep ==
    ASSUME SInv, NEW s \in Subscribers, ReadPage(s)
    PROVE  InStep(s)'
  <1> DEFINE r    == readTo[s]
             t    == through[s]
             rows == Rows(s, r, t, PageSize)
             last == IF Len(rows) < PageSize THEN t ELSE rows[PageSize].seq
  <1>1. TypeOK /\ InStep(s)
    BY DEF SInv, WritersInv
  <1>2. /\ phase[s] = "replaying" /\ page[s] = << >> /\ r < t
        /\ UNCHANGED <<log, writerVars, kind, phase, cursor, inbox, through, buffer, missed>>
        /\ page'[s] = rows /\ readTo'[s] = last
    BY <1>1 DEF ReadPage, TypeOK
  <1>3. /\ r \in Nat /\ t \in Nat /\ cursor[s] \in Nat /\ Len(log) \in Nat
        /\ cursor[s] <= r /\ t <= Len(log)
    BY <1>1, <1>2 DEF TypeOK, InStep, PhaseFits
  <1>4. /\ rows \in Seq(Event) /\ Increasing(rows) /\ Logged(rows)
        /\ \A i \in DOMAIN rows : Wanted(s, rows[i])
        /\ last \in r .. t
        /\ \A n \in Sequences(rows) : r < n /\ n <= last
        /\ \A n \in (r + 1) .. last : log[n] \in Wants(s) => n \in Sequences(rows)
    <2>1. r <= t /\ PageSize \in Nat \ {0}
      BY <1>2, <1>3, SinkAssumption
    <2> HIDE DEF r, t
    <2> QED
      BY <1>1, <1>3, <2>1, RowsAre
  <1> HIDE DEF rows, last
  <1>5. Coming(s)' = Coming(s) /\ Wants(s)' = Wants(s)
    BY <1>2, StreamsDoNotPublish
  <1>6. Live(s)' = Live(s) /\ Sequences(page[s])' = Sequences(rows) /\ WantedAfter(s)' = WantedAfter(s)
    BY <1>2, <1>5 DEF Live, Sequences, WantedAfter
  <1>7. HoldsTheLog(s)'
    BY <1>1, <1>2, <1>4, <1>5, <1>6 DEF InStep, HoldsTheLog, Increasing, Logged, Wanted, Before, Sequences
  <1>8. CursorFits(s)' /\ PhaseFits(s)'
    BY <1>1, <1>2, <1>3, <1>4, <1>5, <1>6 DEF InStep, CursorFits, PhaseFits
  <1>9. NothingSkipped(s)'
    <2>1. \A n \in Sequences(rows) : cursor[s] < n /\ n <= last
      <3>1. Sequences(rows) \subseteq Nat
        BY <1>4, SequencesAreNumbers
      <3> QED
        BY <1>3, <1>4, <3>1
    <2>2. ASSUME NEW n \in WantedAfter(s), n <= last PROVE n \in Sequences(rows)
      <3>1. n \in Nat /\ n > cursor[s] /\ log[n] \in Wants(s)
        BY <1>3 DEF WantedAfter
      <3>2. ~ (n <= r)
        BY <1>1, <1>2 DEF InStep, NothingSkipped, Sequences
      <3> QED
        BY <1>3, <1>4, <2>2, <3>1, <3>2
    <2> QED
      BY <1>1, <1>2, <1>5, <1>6, <2>1, <2>2 DEF InStep, NothingSkipped
  <1> QED
    BY <1>7, <1>8, <1>9 DEF InStep

\* The replay delivers: the next event of the page.
LEMMA DeliverReplayedStep ==
    ASSUME SInv, NEW s \in Subscribers, DeliverReplayed(s)
    PROVE  InStep(s)'
  <1> DEFINE e == Head(page[s]).seq
  <1>1. TypeOK /\ InStep(s)
    BY DEF SInv, WritersInv
  <1>2. /\ phase[s] = "replaying" /\ page[s] # << >> /\ cursor'[s] = e /\ page'[s] = Tail(page[s])
        /\ UNCHANGED <<log, writerVars, kind, phase, inbox, through, readTo, buffer, missed>>
    BY <1>1 DEF DeliverReplayed, TypeOK
  <1>3. /\ page[s] \in Seq(Event) /\ cursor[s] \in Nat /\ readTo[s] \in Nat /\ through[s] \in Nat
        /\ Len(log) \in Nat /\ log \in Seq(AllTopics) /\ DOMAIN log = 1 .. Len(log)
    BY <1>1 DEF TypeOK
  <1>4. /\ Head(page[s]) = page[s][1] /\ 1 \in DOMAIN page[s] /\ Tail(page[s]) \in Seq(Event)
        /\ Sequences(page[s]) = {e} \cup Sequences(Tail(page[s]))
        /\ \A i \in DOMAIN Tail(page[s]) : i + 1 \in DOMAIN page[s] /\ Tail(page[s])[i] = page[s][i + 1]
        /\ Increasing(Tail(page[s])) /\ Logged(Tail(page[s]))
        /\ \A n \in Sequences(Tail(page[s])) : e < n
    BY <1>1, <1>2, <1>3, HeadAndTail DEF InStep, HoldsTheLog
  <1>5. e \in Nat /\ cursor[s] < e /\ e <= readTo[s] /\ e <= through[s] /\ e <= Len(log)
    <2>1. e \in Nat
      BY <1>3, <1>4, SequencesAreNumbers
    <2>2. cursor[s] < e /\ e <= readTo[s]
      BY <1>1, <1>2, <1>4 DEF InStep, NothingSkipped
    <2> HIDE DEF e
    <2> QED
      BY <1>1, <1>2, <1>3, <2>1, <2>2 DEF InStep, PhaseFits
  <1>6. e \in DOMAIN log /\ log[e] \in Wants(s)
    BY <1>1, <1>4 DEF InStep, HoldsTheLog, Logged, Wanted
  <1> HIDE DEF e
  <1>7. Coming(s)' = Coming(s) /\ Wants(s)' = Wants(s)
    BY <1>2, StreamsDoNotPublish
  <1>8. Live(s)' = Live(s) /\ Sequences(page[s])' = Sequences(Tail(page[s]))
    BY <1>2 DEF Live, Sequences
  <1>9. HoldsTheLog(s)'
    <2>1. Increasing(page[s])' /\ Logged(page[s])' /\ \A i \in DOMAIN page'[s] : Wanted(s, page[s][i])'
      <3>1. \A i \in DOMAIN Tail(page[s]) : Wanted(s, Tail(page[s])[i])
        BY <1>1, <1>4 DEF InStep, HoldsTheLog
      <3> QED
        BY <1>2, <1>4, <1>7, <3>1 DEF Increasing, Logged, Wanted
    <2> QED
      BY <1>1, <1>2, <1>7, <1>8, <2>1 DEF InStep, HoldsTheLog, Increasing, Logged, Wanted, Before, Sequences
  <1>10. CursorFits(s)' /\ PhaseFits(s)'
    <2>1. \A n \in Live(s) \cup Coming(s) : n > through[s] => n > e
      BY <1>1, <1>3, <1>5, LiveAreNumbers
    <2>2. kind[s] # "application" => log[e] # Project
      BY <1>6, Wishes
    <2>3. CursorFits(s)'
      BY <1>1, <1>2, <1>5, <1>7, <1>8, <2>1, <2>2 DEF InStep, CursorFits
    <2>4. PhaseFits(s)'
      BY <1>1, <1>2, <1>5 DEF InStep, PhaseFits
    <2> QED
      BY <2>3, <2>4
  <1>11. NothingSkipped(s)'
    <2>1. \A n \in WantedAfter(s)' : n \in WantedAfter(s) /\ n # e /\ n \in Nat
      BY <1>2, <1>3, <1>5, <1>7 DEF WantedAfter
    <2>2. \A n \in Sequences(Tail(page[s])) : e < n /\ n <= readTo[s]
      BY <1>1, <1>2, <1>4 DEF InStep, NothingSkipped
    <2> QED
      BY <1>1, <1>2, <1>4, <1>7, <1>8, <2>1, <2>2 DEF InStep, NothingSkipped
  <1> QED
    BY <1>9, <1>10, <1>11 DEF InStep

LEMMA GoLiveStep ==
    ASSUME SInv, NEW s \in Subscribers, GoLive(s)
    PROVE  InStep(s)'
  <1>1. TypeOK /\ InStep(s)
    BY DEF SInv, WritersInv
  <1>2. /\ phase[s] = "replaying" /\ page[s] = << >> /\ readTo[s] >= through[s] /\ phase'[s] = "live"
        /\ UNCHANGED <<log, writerVars, kind, cursor, inbox, through, readTo, page, buffer, missed>>
    BY <1>1 DEF GoLive, TypeOK
  <1>3. readTo[s] = through[s] /\ readTo[s] \in Nat /\ through[s] \in Nat
    BY <1>1, <1>2 DEF TypeOK, InStep, PhaseFits
  <1>4. Coming(s)' = Coming(s) /\ Wants(s)' = Wants(s)
    BY <1>2, StreamsDoNotPublish
  <1>5. Live(s)' = Live(s) /\ WantedAfter(s)' = WantedAfter(s)
    BY <1>2, <1>4 DEF Live, Sequences, WantedAfter
  <1>6. HoldsTheLog(s)'
    BY <1>1, <1>2, <1>4, <1>5 DEF InStep, HoldsTheLog, Increasing, Logged, Wanted, Before, Sequences
  <1>7. CursorFits(s)' /\ PhaseFits(s)'
    BY <1>1, <1>2, <1>3, <1>4, <1>5 DEF InStep, CursorFits, PhaseFits
  <1>8. NothingSkipped(s)'
    BY <1>1, <1>2, <1>4, <1>5 DEF InStep, NothingSkipped, Sequences
  <1> QED
    BY <1>6, <1>7, <1>8 DEF InStep

\* The first live event of the subscription.
LEMMA FirstOfInbox ==
    ASSUME TypeOK, NEW s \in Subscribers, HoldsTheLog(s), inbox[s] # << >>
    PROVE  LET e == Head(inbox[s])
               rest == Tail(inbox[s])
           IN  /\ e \in Event /\ rest \in Seq(Event)
               /\ Sequences(inbox[s]) = {e.seq} \cup Sequences(rest)
               /\ Increasing(rest) /\ Logged(rest)
               /\ \A n \in Sequences(rest) : e.seq < n
               /\ e.seq \in DOMAIN log /\ e.topic = log[e.seq]
  <1>1. inbox[s] \in Seq(Event) /\ Increasing(inbox[s]) /\ Logged(inbox[s])
    BY DEF TypeOK, HoldsTheLog
  <1>2. Head(inbox[s]) = inbox[s][1] /\ 1 \in DOMAIN inbox[s]
    BY <1>1, HeadAndTail
  <1> QED
    BY <1>1, <1>2, HeadAndTail DEF Logged

\* A bounded stream moves a live event into its buffer, or drops it.
LEMMA DrainStep ==
    ASSUME SInv, NEW s \in Subscribers, Drain(s)
    PROVE  InStep(s)'
  <1> DEFINE e    == Head(inbox[s])
             rest == Tail(inbox[s])
  <1>1. TypeOK /\ InStep(s) /\ HoldsTheLog(s)
    BY DEF SInv, WritersInv, InStep
  <1>2. /\ kind[s] # "worker" /\ inbox[s] # << >> /\ inbox'[s] = rest
        /\ buffer'[s] = IF IsNew(s, e) THEN Append(buffer[s], e) ELSE buffer[s]
        /\ UNCHANGED <<log, writerVars, kind, phase, cursor, through, readTo, page, missed>>
    BY <1>1 DEF Drain, TypeOK, Bounded
  <1>3. /\ e \in Event /\ rest \in Seq(Event)
        /\ Sequences(inbox[s]) = {e.seq} \cup Sequences(rest)
        /\ Increasing(rest) /\ Logged(rest)
        /\ \A n \in Sequences(rest) : e.seq < n
        /\ e.seq \in DOMAIN log /\ e.topic = log[e.seq]
    BY <1>1, <1>2, FirstOfInbox
  <1> HIDE DEF e, rest
  <1>4. Coming(s)' = Coming(s) /\ Wants(s)' = Wants(s)
    BY <1>2, StreamsDoNotPublish
  <1>5. /\ WantedAfter(s)' = WantedAfter(s) /\ Sequences(inbox[s])' = Sequences(rest)
        /\ Sequences(page[s])' = Sequences(page[s])
    BY <1>2, <1>4 DEF Sequences, WantedAfter
  <1>6. buffer[s] \in Seq(Event) /\ Sequences(buffer[s])' = Sequences(buffer'[s])
    BY <1>1 DEF TypeOK, Sequences
  <1>7. /\ Increasing(buffer'[s]) /\ Logged(buffer'[s])
        /\ \A i \in DOMAIN buffer'[s] : Wanted(s, buffer'[s][i])
        /\ Before(Sequences(buffer'[s]), Sequences(rest))
        /\ Sequences(buffer'[s]) =
             IF IsNew(s, e) THEN Sequences(buffer[s]) \cup {e.seq} ELSE Sequences(buffer[s])
    <2>0. /\ Increasing(buffer[s]) /\ Logged(buffer[s])
          /\ \A i \in DOMAIN buffer[s] : Wanted(s, buffer[s][i])
          /\ \A n \in Sequences(buffer[s]) : n < e.seq
          /\ Before(Sequences(buffer[s]), Sequences(rest))
      BY <1>1, <1>3 DEF HoldsTheLog, Before
    <2>1. CASE IsNew(s, e)
      <3> DEFINE more == Append(buffer[s], e)
      <3>1. /\ Sequences(more) = Sequences(buffer[s]) \cup {e.seq}
            /\ \A i \in DOMAIN more : more[i] = e \/ (i \in DOMAIN buffer[s] /\ more[i] = buffer[s][i])
            /\ Increasing(more) /\ Logged(more)
        BY <1>3, <1>6, <2>0, Appended
      <3>2. buffer'[s] = more /\ Wanted(s, e)
        BY <1>2, <2>1 DEF IsNew
      <3> HIDE DEF more
      <3>3. Before(Sequences(more), Sequences(rest))
        BY <1>3, <2>0, <3>1 DEF Before
      <3>4. \A i \in DOMAIN more : Wanted(s, more[i])
        BY <2>0, <3>1, <3>2
      <3> QED
        BY <2>1, <3>1, <3>2, <3>3, <3>4
    <2>2. CASE ~ IsNew(s, e)
      BY <1>2, <2>0, <2>2
    <2> QED
      BY <2>1, <2>2
  <1>8. Live(s)' = Sequences(buffer'[s]) \cup Sequences(rest)
    BY <1>5, <1>6 DEF Live
  <1>9. Live(s)' \subseteq Live(s) /\ \A n \in Live(s) : n \in Live(s)' \/ (n = e.seq /\ ~ IsNew(s, e))
    BY <1>3, <1>7, <1>8 DEF Live
  <1>10. HoldsTheLog(s)'
    <2>1. Before(Live(s), Coming(s))' /\ Before(Sequences(buffer[s]), Sequences(inbox[s]))'
      BY <1>1, <1>4, <1>5, <1>6, <1>7, <1>9 DEF HoldsTheLog, Before
    <2>2. /\ Increasing(inbox[s])' /\ Logged(inbox[s])' /\ Increasing(buffer[s])' /\ Logged(buffer[s])'
          /\ \A i \in DOMAIN buffer'[s] : Wanted(s, buffer[s][i])'
      BY <1>2, <1>3, <1>4, <1>7 DEF Increasing, Logged, Wanted
    <2>3. /\ Increasing(page[s])' /\ Logged(page[s])' /\ \A i \in DOMAIN page'[s] : Wanted(s, page[s][i])'
      BY <1>1, <1>2, <1>4 DEF HoldsTheLog, Increasing, Logged, Wanted
    <2> QED
      BY <2>1, <2>2, <2>3 DEF HoldsTheLog
  <1>11. CursorFits(s)'
    BY <1>1, <1>2, <1>4, <1>9 DEF InStep, CursorFits
  <1>12. PhaseFits(s)'
    BY <1>1, <1>2 DEF InStep, PhaseFits
  <1>13. NothingSkipped(s)'
    <2>1. ASSUME NEW n \in WantedAfter(s), n > through[s], n = e.seq PROVE IsNew(s, e)
      BY <1>3, <2>1 DEF IsNew, Wanted, WantedAfter
    <2>2. \A n \in WantedAfter(s) : n > through[s] /\ n \in Live(s) => n \in Live(s)'
      BY <1>9, <2>1
    <2> QED
      BY <1>1, <1>2, <1>4, <1>5, <2>2 DEF InStep, NothingSkipped
  <1> QED
    BY <1>10, <1>11, <1>12, <1>13 DEF InStep

LEMMA CloseStep ==
    ASSUME SInv, NEW s \in Subscribers, Overflow(s) \/ Disconnect(s)
    PROVE  InStep(s)'
  <1>1. /\ kind'[s] = kind[s] /\ cursor'[s] = cursor[s] /\ phase'[s] = "off" /\ inbox'[s] = << >>
        /\ page'[s] = << >> /\ buffer'[s] = << >> /\ missed'[s] = {} /\ log' = log
    BY DEF Overflow, Disconnect, Close, SInv, WritersInv, TypeOK
  <1> QED
    BY <1>1, StreamCloses DEF SInv, WritersInv

\* The first event of the live part is delivered if it is past the mark.
LEMMA LiveDelivered ==
    ASSUME TypeOK, NEW s \in Subscribers, InStep(s), phase[s] = "live", NEW e \in Event,
           e.seq \in DOMAIN log, e.topic = log[e.seq], e.seq \in Live(s),
           \A n \in Live(s) : n = e.seq \/ e.seq < n,
           UNCHANGED <<log, writerVars, kind, phase, through, readTo, page, missed>>,
           cursor'[s] = IF IsNew(s, e) THEN e.seq ELSE cursor[s],
           HoldsTheLog(s)', Live(s)' \subseteq Live(s) \ {e.seq}, Live(s) \ {e.seq} \subseteq Live(s)',
           kind[s] = "worker" => buffer'[s] = << >>
    PROVE  InStep(s)'
  <1>1. Coming(s)' = Coming(s) /\ Wants(s)' = Wants(s)
    BY StreamsDoNotPublish
  <1>2. /\ cursor[s] \in Nat /\ through[s] \in Nat /\ e.seq \in Nat /\ Len(log) \in Nat
        /\ DOMAIN log = 1 .. Len(log)
    BY DEF TypeOK, Event, EventsOn
  <1>3. Live(s) \cup Coming(s) \subseteq Nat
    BY LiveAreNumbers
  <1>4. Before(Live(s), Coming(s))
    BY DEF InStep, HoldsTheLog
  <1>5. IsNew(s, e) => cursor[s] < e.seq /\ e.seq > through[s] /\ log[e.seq] \in Wants(s)
    BY DEF InStep, CursorFits, IsNew, Wanted
  <1>6. CursorFits(s)'
    <2>1. ASSUME NEW n \in Live(s)' \cup Coming(s)', n > through[s] PROVE n > cursor'[s]
      <3>1. n \in Live(s) \cup Coming(s) /\ n \in Nat
        BY <1>1, <1>3, <2>1
      <3>2. IsNew(s, e) => n > e.seq
        BY <1>1, <1>2, <1>4, <2>1, <3>1 DEF Before
      <3>3. n > cursor[s]
        BY <2>1, <3>1 DEF InStep, CursorFits
      <3> QED
        BY <3>2, <3>3
    <2>2. cursor'[s] \in 0 .. Len(log)
      BY <1>2 DEF InStep, CursorFits
    <2>3. cursor'[s] # 0 /\ kind[s] # "application" => log[cursor'[s]] # Project
      BY <1>5, Wishes DEF InStep, CursorFits
    <2> QED
      BY <2>1, <2>2, <2>3 DEF InStep, CursorFits
  <1>7. PhaseFits(s)'
    BY DEF InStep, PhaseFits
  <1>8. NothingSkipped(s)'
    <2>1. ASSUME NEW n \in WantedAfter(s)' PROVE n \in WantedAfter(s) /\ (IsNew(s, e) => n > e.seq)
      BY <1>1, <1>2, <1>5, <2>1 DEF WantedAfter
    <2>2. Sequences(page[s]) = {} /\ Sequences(page[s])' = {}
      BY DEF InStep, PhaseFits, Sequences
    <2>3. ASSUME NEW n \in WantedAfter(s)' PROVE ~ (n <= readTo'[s])
      BY <2>1, <2>2, <2>3 DEF InStep, NothingSkipped
    <2>4. ASSUME NEW n \in WantedAfter(s)', n > through[s]
          PROVE  n \in Live(s)' \cup Coming(s)' \cup missed'[s]
      <3>1. n \in Live(s) \cup Coming(s) \cup missed[s]
        BY <2>1, <2>4 DEF InStep, NothingSkipped
      <3>2. n # e.seq
        <4>1. n = e.seq => IsNew(s, e)
          BY <2>1, <2>4 DEF IsNew, Wanted, WantedAfter
        <4> QED
          BY <1>2, <2>1, <4>1
      <3> QED
        BY <1>1, <3>1, <3>2
    <2> QED
      BY <2>2, <2>3, <2>4 DEF NothingSkipped
  <1> QED
    BY <1>6, <1>7, <1>8 DEF InStep

LEMMA DeliverBufferedStep ==
    ASSUME SInv, NEW s \in Subscribers, DeliverBuffered(s)
    PROVE  InStep(s)'
  <1> DEFINE e    == Head(buffer[s])
             rest == Tail(buffer[s])
  <1>1. TypeOK /\ InStep(s) /\ HoldsTheLog(s)
    BY DEF SInv, WritersInv, InStep
  <1>2. /\ phase[s] = "live" /\ kind[s] # "worker" /\ buffer[s] # << >> /\ buffer'[s] = rest
        /\ cursor'[s] = IF e.seq > through[s] THEN e.seq ELSE cursor[s]
        /\ UNCHANGED <<log, writerVars, kind, phase, inbox, through, readTo, page, missed>>
    BY <1>1 DEF DeliverBuffered, TypeOK, Bounded
  <1>3. buffer[s] \in Seq(Event) /\ Increasing(buffer[s]) /\ Logged(buffer[s])
    BY <1>1 DEF TypeOK, HoldsTheLog
  <1>4. /\ e \in Event /\ e = buffer[s][1] /\ 1 \in DOMAIN buffer[s]
        /\ Sequences(buffer[s]) = {e.seq} \cup Sequences(rest)
        /\ \A i \in DOMAIN rest : i + 1 \in DOMAIN buffer[s] /\ rest[i] = buffer[s][i + 1]
        /\ Increasing(rest) /\ Logged(rest)
        /\ \A n \in Sequences(rest) : e.seq < n
    BY <1>2, <1>3, HeadAndTail
  <1>5. e.seq \in DOMAIN log /\ e.topic = log[e.seq] /\ Wanted(s, e)
    BY <1>1, <1>3, <1>4 DEF Logged, HoldsTheLog
  <1> HIDE DEF e, rest
  <1>6. cursor'[s] = IF IsNew(s, e) THEN e.seq ELSE cursor[s]
    BY <1>2, <1>5 DEF IsNew
  <1>7. Coming(s)' = Coming(s) /\ Wants(s)' = Wants(s)
    BY <1>2, StreamsDoNotPublish
  <1>8. Sequences(buffer[s])' = Sequences(rest) /\ Sequences(inbox[s])' = Sequences(inbox[s])
    BY <1>2 DEF Sequences
  <1>9. /\ e.seq \in Live(s) /\ e.seq \notin Live(s)'
        /\ Live(s) = {e.seq} \cup Live(s)'
        /\ \A n \in Live(s) : n = e.seq \/ e.seq < n
    <2>1. \A n \in Sequences(inbox[s]) : e.seq < n
      BY <1>1, <1>4 DEF HoldsTheLog, Before
    <2>2. e.seq \in Nat
      BY <1>4 DEF Event, EventsOn
    <2> QED
      BY <1>4, <1>8, <2>1, <2>2 DEF Live
  <1>10. HoldsTheLog(s)'
    <2>1. Before(Live(s), Coming(s))' /\ Before(Sequences(buffer[s]), Sequences(inbox[s]))'
      BY <1>1, <1>4, <1>7, <1>8, <1>9 DEF HoldsTheLog, Before
    <2>2. /\ Increasing(buffer[s])' /\ Logged(buffer[s])'
          /\ \A i \in DOMAIN buffer'[s] : Wanted(s, buffer[s][i])'
      <3>1. \A i \in DOMAIN rest : Wanted(s, rest[i])
        BY <1>1, <1>4 DEF HoldsTheLog
      <3> QED
        BY <1>2, <1>4, <1>7, <3>1 DEF Increasing, Logged, Wanted
    <2>3. /\ Increasing(page[s])' /\ Logged(page[s])' /\ \A i \in DOMAIN page'[s] : Wanted(s, page[s][i])'
          /\ Increasing(inbox[s])' /\ Logged(inbox[s])'
      BY <1>1, <1>2, <1>7 DEF HoldsTheLog, Increasing, Logged, Wanted
    <2> QED
      BY <2>1, <2>2, <2>3 DEF HoldsTheLog
  <1> QED
    BY <1>1, <1>2, <1>4, <1>5, <1>6, <1>9, <1>10, LiveDelivered

LEMMA DeliverLiveStep ==
    ASSUME SInv, NEW s \in Subscribers, DeliverLive(s)
    PROVE  InStep(s)'
  <1> DEFINE e    == Head(inbox[s])
             rest == Tail(inbox[s])
  <1>1. TypeOK /\ InStep(s) /\ HoldsTheLog(s)
    BY DEF SInv, WritersInv, InStep
  <1>2. /\ phase[s] = "live" /\ kind[s] = "worker" /\ inbox[s] # << >> /\ inbox'[s] = rest
        /\ cursor'[s] = IF IsNew(s, e) THEN e.seq ELSE cursor[s]
        /\ UNCHANGED <<log, writerVars, kind, phase, through, readTo, page, buffer, missed>>
    BY <1>1 DEF DeliverLive, TypeOK, Bounded
  <1>3. /\ e \in Event /\ rest \in Seq(Event)
        /\ Sequences(inbox[s]) = {e.seq} \cup Sequences(rest)
        /\ Increasing(rest) /\ Logged(rest)
        /\ \A n \in Sequences(rest) : e.seq < n
        /\ e.seq \in DOMAIN log /\ e.topic = log[e.seq]
    BY <1>1, <1>2, FirstOfInbox
  <1> HIDE DEF e, rest
  <1>4. buffer[s] = << >> /\ Sequences(buffer[s]) = {} /\ buffer'[s] = << >>
    BY <1>1, <1>2 DEF InStep, CursorFits, Sequences
  <1>5. Coming(s)' = Coming(s) /\ Wants(s)' = Wants(s)
    BY <1>2, StreamsDoNotPublish
  <1>6. Sequences(inbox[s])' = Sequences(rest) /\ Sequences(buffer[s])' = {}
    BY <1>2, <1>4 DEF Sequences
  <1>7. /\ e.seq \in Live(s) /\ e.seq \notin Live(s)'
        /\ Live(s) = {e.seq} \cup Live(s)'
        /\ \A n \in Live(s) : n = e.seq \/ e.seq < n
    <2>1. e.seq \in Nat
      BY <1>3 DEF Event, EventsOn
    <2> QED
      BY <1>3, <1>4, <1>6, <2>1 DEF Live
  <1>8. HoldsTheLog(s)'
    <2>1. Before(Live(s), Coming(s))' /\ Before(Sequences(buffer[s]), Sequences(inbox[s]))'
      BY <1>1, <1>5, <1>6, <1>7 DEF HoldsTheLog, Before
    <2>2. Increasing(inbox[s])' /\ Logged(inbox[s])'
      BY <1>2, <1>3 DEF Increasing, Logged
    <2>3. /\ Increasing(page[s])' /\ Logged(page[s])' /\ \A i \in DOMAIN page'[s] : Wanted(s, page[s][i])'
          /\ Increasing(buffer[s])' /\ Logged(buffer[s])'
          /\ \A i \in DOMAIN buffer'[s] : Wanted(s, buffer[s][i])'
      BY <1>1, <1>2, <1>5 DEF HoldsTheLog, Increasing, Logged, Wanted
    <2> QED
      BY <2>1, <2>2, <2>3 DEF HoldsTheLog
  <1> QED
    BY <1>1, <1>2, <1>3, <1>4, <1>7, <1>8, LiveDelivered

\* The other streams wait.
LEMMA OthersWait ==
    ASSUME SInv, NEW s \in Subscribers, Follow(s) \/ Disconnect(s), NEW v \in Subscribers, v # s
    PROVE  InStep(v)'
  <1>1. UNCHANGED <<log, writerVars, kind>>
    BY StreamsDoNotWrite DEF Follow, Disconnect, Close, ReadPosition, Subscribe, ReadHighWater, ReadPage,
       DeliverReplayed, GoLive, Drain, Overflow, DeliverBuffered, DeliverLive
  <1>2. TypeOK /\ InStep(v)
    BY DEF SInv, WritersInv
  <1>3. Stays(v) /\ inbox'[v] = inbox[v] /\ missed'[v] = missed[v]
    <2> USE <1>1, <1>2 DEF Stays, TypeOK
    <2>1. CASE ReadPosition(s) \/ Subscribe(s) \/ ReadHighWater(s)
      BY <2>1 DEF ReadPosition, Subscribe, ReadHighWater
    <2>2. CASE ReadPage(s) \/ DeliverReplayed(s) \/ GoLive(s)
      BY <2>2 DEF ReadPage, DeliverReplayed, GoLive
    <2>3. CASE Drain(s)
      BY <2>3 DEF Drain
    <2>4. CASE DeliverBuffered(s) \/ DeliverLive(s)
      BY <2>4 DEF DeliverBuffered, DeliverLive
    <2>5. CASE Overflow(s) \/ Disconnect(s)
      BY <2>5 DEF Overflow, Disconnect, Close
    <2> QED
      BY <2>1, <2>2, <2>3, <2>4, <2>5 DEF Follow
  <1>4. Coming(v)' = Coming(v)
    BY <1>1, StreamsDoNotPublish
  <1> QED
    BY <1>1, <1>2, <1>3, <1>4, StreamWaits

\* The part of TypeOK that is about the streams.
StreamTypes ==
    /\ kind \in [Subscribers -> Kinds]
    /\ phase \in [Subscribers -> Phases]
    /\ cursor \in [Subscribers -> Nat]
    /\ inbox \in [Subscribers -> Seq(Event)]
    /\ through \in [Subscribers -> Nat]
    /\ readTo \in [Subscribers -> Nat]
    /\ page \in [Subscribers -> Seq(Event)]
    /\ buffer \in [Subscribers -> Seq(Event)]
    /\ missed \in [Subscribers -> SUBSET Nat]
    /\ faults \in Nat

LEMMA TypesAre == TypeOK <=> WriterTypes /\ StreamTypes
  BY DEF TypeOK, WriterTypes, StreamTypes

LEMMA TypesAreNext == TypeOK' <=> WriterTypes' /\ StreamTypes'
  BY DEF TypeOK, WriterTypes, StreamTypes

LEMMA FaultType ==
    ASSUME faults \in Nat, Fault
    PROVE  faults' \in Nat
  BY DEF Fault

LEMMA FollowTypes ==
    ASSUME SInv, NEW s \in Subscribers, Follow(s) \/ Disconnect(s)
    PROVE  StreamTypes'
  <1>0. TypeOK /\ StreamTypes /\ InStep(s)
    BY DEF SInv, WritersInv, TypeOK, StreamTypes
  <1>1. CASE ReadPosition(s) \/ Subscribe(s) \/ ReadHighWater(s)
    <2>1. LatestSequence(s) \in Nat
      BY <1>0, LatestIs DEF TypeOK
    <2>2. Larger(LatestSequence(s), cursor[s]) \in Nat
      BY <1>0, <2>1 DEF Larger, StreamTypes
    <2> QED
      BY <1>0, <1>1, <2>1, <2>2 DEF StreamTypes, ReadPosition, Subscribe, ReadHighWater, Phases
  <1>2. CASE ReadPage(s)
    <2> DEFINE rows == Rows(s, readTo[s], through[s], PageSize)
               last == IF Len(rows) < PageSize THEN through[s] ELSE rows[PageSize].seq
    <2>1. /\ readTo[s] \in Nat /\ through[s] \in Nat /\ readTo[s] < through[s]
          /\ phase[s] = "replaying"
      BY <1>0, <1>2 DEF StreamTypes, ReadPage
    <2>2. readTo[s] <= through[s] /\ through[s] <= Len(log) /\ PageSize \in Nat \ {0}
      BY <1>0, <2>1, SinkAssumption DEF InStep, PhaseFits
    <2>3. rows \in Seq(Event) /\ last \in readTo[s] .. through[s]
      BY <1>0, <2>1, <2>2, RowsAre
    <2>4. last \in Nat
      BY <2>1, <2>3
    <2>5. /\ page' = [page EXCEPT ![s] = rows] /\ readTo' = [readTo EXCEPT ![s] = last]
          /\ UNCHANGED <<kind, phase, cursor, inbox, through, buffer, missed, faults>>
      BY <1>2 DEF ReadPage
    <2> HIDE DEF rows, last
    <2> QED
      BY <1>0, <2>3, <2>4, <2>5 DEF StreamTypes
  <1>3. CASE DeliverReplayed(s)
    <2>1. page[s] \in Seq(Event) /\ page[s] # << >>
      BY <1>0, <1>3 DEF StreamTypes, DeliverReplayed
    <2>2. Head(page[s]).seq \in Nat /\ Tail(page[s]) \in Seq(Event)
      BY <2>1, HeadAndTail DEF Event, EventsOn
    <2> QED
      BY <1>0, <1>3, <2>2 DEF StreamTypes, DeliverReplayed
  <1>4. CASE GoLive(s)
    BY <1>0, <1>4 DEF StreamTypes, GoLive, Phases
  <1>5. CASE Drain(s)
    <2>1. inbox[s] \in Seq(Event) /\ inbox[s] # << >> /\ buffer[s] \in Seq(Event)
      BY <1>0, <1>5 DEF StreamTypes, Drain
    <2>2. /\ Head(inbox[s]) \in Event /\ Tail(inbox[s]) \in Seq(Event)
      BY <2>1, HeadAndTail
    <2>3. Append(buffer[s], Head(inbox[s])) \in Seq(Event)
      BY <2>1, <2>2, Appended
    <2> QED
      BY <1>0, <1>5, <2>2, <2>3 DEF StreamTypes, Drain
  <1>6. CASE DeliverBuffered(s)
    <2>1. buffer[s] \in Seq(Event) /\ buffer[s] # << >>
      BY <1>0, <1>6 DEF StreamTypes, DeliverBuffered
    <2>2. Head(buffer[s]).seq \in Nat /\ Tail(buffer[s]) \in Seq(Event)
      BY <2>1, HeadAndTail DEF Event, EventsOn
    <2> QED
      BY <1>0, <1>6, <2>2 DEF StreamTypes, DeliverBuffered
  <1>7. CASE DeliverLive(s)
    <2>1. inbox[s] \in Seq(Event) /\ inbox[s] # << >>
      BY <1>0, <1>7 DEF StreamTypes, DeliverLive
    <2>2. Head(inbox[s]).seq \in Nat /\ Tail(inbox[s]) \in Seq(Event)
      BY <2>1, HeadAndTail DEF Event, EventsOn
    <2> QED
      BY <1>0, <1>7, <2>2 DEF StreamTypes, DeliverLive
  <1>8. CASE Overflow(s) \/ Disconnect(s)
    <2>1. << >> \in Seq(Event) /\ faults' \in Nat
      BY <1>0, <1>8, FaultType DEF StreamTypes, Overflow, Disconnect
    <2>2. Close(s)
      BY <1>8 DEF Overflow, Disconnect
    <2> QED
      BY <1>0, <2>1, <2>2 DEF StreamTypes, Close, Phases
  <1> QED
    BY <1>1, <1>2, <1>3, <1>4, <1>5, <1>6, <1>7, <1>8 DEF Follow

LEMMA StreamStep ==
    ASSUME SInv, NEW s \in Subscribers, Follow(s) \/ Disconnect(s)
    PROVE  SInv'
  <1>1. UNCHANGED <<log, writerVars>>
    BY StreamsDoNotWrite
  <1>2. WInv'
    BY <1>1, StreamKeeps DEF SInv, WritersInv
  <1>3. TypeOK'
    BY <1>2, FollowTypes, TypesAreNext DEF WInv
  <1>4. BatchesArePending' /\ PendingIsLogged'
    BY <1>1 DEF SInv, WritersInv, BatchesArePending, PendingIsLogged, TopicsOf, Logged, writerVars
  <1>5. InStep(s)'
    BY OpeningStep, ReadPageStep, DeliverReplayedStep, GoLiveStep, DrainStep, CloseStep,
       DeliverBufferedStep, DeliverLiveStep DEF Follow
  <1>6. \A v \in Subscribers : InStep(v)'
    BY <1>5, OthersWait
  <1> QED
    BY <1>2, <1>3, <1>4, <1>6 DEF SInv, WritersInv

-----------------------------------------------------------------------------
(* The invariant.                                                          *)

LEMMA StoredIsTheBatch ==
    ASSUME WriterTypes, NEW b \in Batches
    PROVE  TopicsOf(Stored(b)) = b
  <1>1. b \in Seq(AllTopics)
    BY StoredType
  <1>2. /\ DOMAIN Stored(b) = DOMAIN b /\ b = [i \in DOMAIN b |-> b[i]]
        /\ \A i \in DOMAIN b : Stored(b)[i].topic = b[i]
    BY <1>1 DEF Stored
  <1> QED
    BY <1>2 DEF TopicsOf

LEMMA NoRows == << >> \in Batches /\ TopicsOf(<< >>) = << >> /\ << >> \in Seq(Event)
  BY DEF Batches, TopicsOf

\* A writer that is in a transaction, or has released the lane.
LEMMA QuietWriter ==
    ASSUME SInv, WInv', NEW w \in Writers, NEW stage, NEW events,
           pc[w] \notin Publishing, stage \notin Publishing, Goto(w, stage),
           pending' = [pending EXCEPT ![w] = events], TopicsOf(events) \in Batches,
           UNCHANGED <<log, kind, streamVars>>, faults' \in Nat
    PROVE  SInv'
  <1>1. /\ pending \in [Writers -> Seq(Event)] /\ pc \in [Writers -> Stages]
        /\ TypeOK /\ BatchesArePending /\ PendingIsLogged
    BY DEF SInv, WritersInv, TypeOK
  <1>2. /\ pending'[w] = events /\ pc'[w] = stage
        /\ \A v \in Writers \ {w} : pending'[v] = pending[v] /\ pc'[v] = pc[v]
    BY <1>1 DEF Goto
  <1>3. \A s \in Subscribers : InStep(s)'
    BY <1>2, QuietStep
  <1>4. TypeOK'
    <2>1. StreamTypes'
      BY <1>1 DEF TypeOK, StreamTypes, streamVars
    <2> QED
      BY <2>1, TypesAreNext DEF WInv
  <1>5. BatchesArePending'
    BY <1>1, <1>2 DEF BatchesArePending, TopicsOf
  <1>6. PendingIsLogged'
    BY <1>1, <1>2 DEF PendingIsLogged, Logged
  <1> QED
    BY <1>3, <1>4, <1>5, <1>6 DEF SInv, WritersInv

\* A writer that has committed.
LEMMA PublishingWriter ==
    ASSUME SInv, WInv', NEW w \in Writers, Publish(w) \/ InterruptPublish(w)
    PROVE  SInv'
  <1>1. TypeOK /\ BatchesArePending /\ PendingIsLogged /\ StreamTypes
    BY DEF SInv, WritersInv, TypeOK, StreamTypes
  <1>2. \A s \in Subscribers : InStep(s)'
    BY PublishStep, InterruptStep
  <1>3. pending' = pending /\ log' = log /\ pc[w] \in Publishing
        /\ \A v \in Writers \ {w} : pc'[v] = pc[v]
    BY <1>1 DEF Publish, InterruptPublish, Goto, TypeOK
  <1>4. StreamTypes'
    <2>1. CASE Publish(w)
      <3>1. ASSUME NEW s \in Subscribers PROVE inbox[s] \o Published(s, pc[w], pending[w]) \in Seq(Event)
        <4>1. inbox[s] \in Seq(Event) /\ pending[w] \in Seq(Event)
          BY <1>1 DEF TypeOK
        <4>2. Only(pending[w], EventsOn(Wants(s))) \in Seq(Event)
          BY <4>1, Filtered
        <4>3. Published(s, pc[w], pending[w]) \in Seq(Event)
          BY <4>1, <4>2, NoRows DEF Published
        <4> HIDE DEF Published
        <4> QED
          BY <4>1, <4>3, Joined
      <3>2. inbox' = [s \in Subscribers |-> inbox[s] \o Published(s, pc[w], pending[w])]
        BY <2>1 DEF Publish
      <3>3. inbox' \in [Subscribers -> Seq(Event)]
        BY <3>1, <3>2
      <3> QED
        BY <1>1, <2>1, <3>3 DEF StreamTypes, Publish
    <2>2. CASE InterruptPublish(w)
      <3>1. Sequences(pending[w]) \subseteq Nat
        BY <1>1, SequencesAreNumbers DEF TypeOK
      <3>2. ASSUME NEW s \in Subscribers
            PROVE  /\ missed[s] \cup {n \in Sequences(pending[w]) : n > through[s]} \in SUBSET Nat
                   /\ missed[s] \in SUBSET Nat
        BY <1>1, <3>1 DEF TypeOK
      <3>3. missed' \in [Subscribers -> SUBSET Nat]
        BY <2>2, <3>2 DEF InterruptPublish
      <3>4. faults' \in Nat
        BY <1>1, <2>2, FaultType DEF InterruptPublish, StreamTypes
      <3> QED
        BY <1>1, <2>2, <3>3, <3>4 DEF StreamTypes, InterruptPublish
    <2> QED
      BY <2>1, <2>2
  <1>5. TypeOK'
    BY <1>4, TypesAreNext DEF WInv
  <1>6. BatchesArePending'
    BY <1>1, <1>3 DEF BatchesArePending, TopicsOf
  <1>7. PendingIsLogged'
    BY <1>1, <1>3 DEF PendingIsLogged, Logged
  <1> QED
    BY <1>2, <1>5, <1>6, <1>7 DEF SInv, WritersInv

LEMMA CommittingWriter ==
    ASSUME SInv, WInv', NEW w \in Writers, Commit(w)
    PROVE  SInv' /\ \E b \in Batches : log' = log \o b
  <1>1. /\ \A s \in Subscribers : InStep(s)'
        /\ PendingIsLogged' /\ log' = log \o TopicsOf(pending[w])
    BY CommitStep
  <1>2. UNCHANGED <<pending, kind, streamVars, faults>>
    BY DEF Commit
  <1>3. TypeOK /\ BatchesArePending
    BY DEF SInv, WritersInv
  <1>4. StreamTypes'
    BY <1>2, <1>3 DEF TypeOK, StreamTypes, streamVars
  <1>5. TypeOK'
    BY <1>4, TypesAreNext DEF WInv
  <1>6. BatchesArePending'
    BY <1>2, <1>3 DEF BatchesArePending, TopicsOf
  <1>7. TopicsOf(pending[w]) \in Batches
    BY <1>3 DEF BatchesArePending
  <1> QED
    BY <1>1, <1>5, <1>6, <1>7 DEF SInv, WritersInv

LEMMA CrashKeepsStreams ==
    ASSUME SInv, WInv', Crash
    PROVE  SInv'
  <1>1. \A s \in Subscribers : InStep(s)'
    BY CrashStep
  <1>2. StreamTypes
    BY DEF SInv, WritersInv, TypeOK, StreamTypes
  <1>3. StreamTypes'
    <2>1. faults' \in Nat
      BY <1>2, FaultType DEF Crash, StreamTypes
    <2> QED
      BY <1>2, <2>1 DEF StreamTypes, Crash, Phases
  <1>4. TypeOK'
    BY <1>3, TypesAreNext DEF WInv
  <1>5. BatchesArePending'
    BY NoRows DEF Crash, BatchesArePending
  <1>6. PendingIsLogged'
    BY DEF Crash, PendingIsLogged, Publishing
  <1> QED
    BY <1>1, <1>4, <1>5, <1>6 DEF SInv, WritersInv

LEMMA SInvInit == Init => SInv
  <1> SUFFICES ASSUME Init PROVE SInv
    OBVIOUS
  <1>1. WInv
    BY WInvInit
  <1>2. StreamTypes
    BY DEF Init, StreamsOff, StreamTypes, Phases
  <1>3. BatchesArePending /\ PendingIsLogged
    BY NoRows DEF Init, WritersIdle, BatchesArePending, PendingIsLogged, Publishing
  <1>4. ASSUME NEW s \in Subscribers PROVE InStep(s)
    <2>1. /\ phase[s] = "off" /\ inbox[s] = << >> /\ page[s] = << >> /\ buffer[s] = << >>
          /\ missed[s] = {} /\ cursor[s] = 0 /\ log = << >>
      BY DEF Init, StreamsOff
    <2>2. Sequences(inbox[s]) = {} /\ Sequences(buffer[s]) = {} /\ Sequences(page[s]) = {}
      BY <2>1 DEF Sequences
    <2>3. Live(s) = {}
      BY <2>2 DEF Live
    <2>4. HoldsTheLog(s)
      BY <2>1, <2>2, <2>3 DEF HoldsTheLog, Increasing, Logged, Wanted, Before
    <2> QED
      BY <2>1, <2>3, <2>4 DEF InStep, CursorFits, PhaseFits, NothingSkipped
  <1> QED
    BY <1>1, <1>2, <1>3, <1>4, TypesAre DEF SInv, WritersInv, WInv

LEMMA SInvKeeps == SInv /\ [Next]_vars => SInv'
  <1> SUFFICES ASSUME SInv, [Next]_vars PROVE SInv'
    OBVIOUS
  <1>0. WInv' /\ WriterTypes /\ faults \in Nat
    BY WInvKeeps DEF SInv, WritersInv, WInv, TypeOK
  <1>1. ASSUME NEW w \in Writers, NEW b \in Batches, RunTransaction(w, b) PROVE SInv'
    <2>1. TopicsOf(Stored(b)) \in Batches
      BY <1>0, StoredIsTheBatch
    <2> QED
      BY <1>0, <1>1, <2>1, QuietWriter DEF RunTransaction, Publishing
  <1>2. ASSUME NEW w \in Writers, FailTransaction(w) \/ FailCommit(w) PROVE SInv'
    <2>1. ASSUME NEW stage \in {"idle", "releasing"}, pc[w] \notin Publishing, Rollback(w, stage) PROVE SInv'
      <3>1. stage \notin Publishing /\ faults' \in Nat
        BY <1>0, <2>1, FaultType DEF Rollback, Publishing
      <3> QED
        BY <1>0, <2>1, <3>1, NoRows, QuietWriter DEF Rollback
    <2> QED
      BY <1>2, <2>1 DEF FailTransaction, FailCommit, Publishing
  <1>3. ASSUME NEW w \in Writers, Publish(w) \/ InterruptPublish(w) PROVE SInv'
    BY <1>0, <1>3, PublishingWriter
  <1>4. ASSUME NEW w \in Writers, TakeLane(w) PROVE SInv'
    <2>1. pending' = [pending EXCEPT ![w] = pending[w]] /\ TopicsOf(pending[w]) \in Batches
      BY <1>0, <1>4 DEF TakeLane, SInv, WritersInv, BatchesArePending, WriterTypes
    <2> QED
      BY <1>0, <1>4, <2>1, QuietWriter DEF TakeLane, Publishing
  <1>5. ASSUME NEW w \in Writers, ReleaseLane(w) PROVE SInv'
    BY <1>0, <1>5, NoRows, QuietWriter DEF ReleaseLane, Publishing
  <1>6. ASSUME NEW w \in Writers, Commit(w) PROVE SInv'
    BY <1>0, <1>6, CommittingWriter
  <1>7. ASSUME NEW s \in Subscribers, Follow(s) \/ Disconnect(s) PROVE SInv'
    BY <1>7, StreamStep
  <1>8. CASE Crash
    BY <1>0, <1>8, CrashKeepsStreams
  <1>9. CASE UNCHANGED vars
    <2>1. TypeOK' /\ BatchesArePending' /\ PendingIsLogged'
      BY <1>9 DEF SInv, WritersInv, vars, writerVars, streamVars, TypeOK, BatchesArePending,
         PendingIsLogged, TopicsOf, Logged
    <2>2. ASSUME NEW s \in Subscribers PROVE InStep(s)'
      <3>1. Stays(s) /\ inbox'[s] = inbox[s] /\ missed'[s] = missed[s] /\ log' = log
        BY <1>9 DEF Stays, vars, streamVars
      <3>2. Coming(s)' = Coming(s)
        BY <1>9, StreamsDoNotPublish DEF vars
      <3> QED
        BY <3>1, <3>2, StreamWaits DEF SInv, WritersInv
    <2> QED
      BY <1>0, <2>1, <2>2 DEF SInv, WritersInv
  <1> QED
    BY <1>1, <1>2, <1>3, <1>4, <1>5, <1>6, <1>7, <1>8, <1>9 DEF Next, Finish

\* The variables keep their types: what is read from the table, published,
\* buffered and delivered are events, and a stream's latest sequence exists.
THEOREM SinkIsTyped == Spec => []TypeOK
  <1>1. SInv => TypeOK
    BY DEF SInv, WritersInv
  <1> QED
    BY SInvInit, SInvKeeps, <1>1, PTL DEF Spec

\* No stream can miss an event it wants: what it has not received is in its
\* page, in the part of the log it will read, in its subscription, in its
\* buffer, or about to be published, for any number of writers, subscribers
\* and pages, however their steps interleave (EventSink.stream).
THEOREM NothingIsSkipped == Spec => []NoEventIsOutOfReach
  <1>1. ASSUME SInv PROVE NoEventIsOutOfReach
    <2> SUFFICES ASSUME NEW s \in Subscribers, phase[s] \in {"subscribed", "replaying", "live"},
                        NEW n \in WantedAfter(s), n \notin OnTheWay(s)
                 PROVE  n \in missed[s]
      BY DEF NoEventIsOutOfReach, OutOfReach, WantedAfter
    <2>1. TypeOK /\ InStep(s)
      BY <1>1 DEF SInv, WritersInv
    <2>2. CASE phase[s] = "subscribed"
      BY <2>2 DEF OnTheWay, WantedAfter
    <2>3. CASE phase[s] \in {"replaying", "live"}
      <3>1. /\ n \notin (readTo[s] + 1) .. through[s] /\ n \notin Sequences(page[s])
            /\ n \notin Live(s) \cup Coming(s)
        BY <2>3 DEF OnTheWay, Live, Coming
      <3>2. /\ n <= readTo[s] => n \in Sequences(page[s])
            /\ n > through[s] => n \in Live(s) \cup Coming(s) \cup missed[s]
        BY <2>1, <2>3 DEF InStep, NothingSkipped
      <3>3. n \in Nat /\ readTo[s] \in Nat /\ through[s] \in Nat
        BY <2>1 DEF TypeOK, WantedAfter
      <3> QED
        BY <3>1, <3>2, <3>3
    <2> QED
      BY <2>2, <2>3
  <1> QED
    BY SInvInit, SInvKeeps, <1>1, PTL DEF Spec

-----------------------------------------------------------------------------
(* The feed that the sink implements (EventFeed).                          *)

\* The feed's readers, as the refinement maps them.
Wishlist  == [s \in Subscribers |-> Wants(s)]
Following == [s \in Subscribers |-> kind[s] # "worker" \/ phase[s] # "off"]

\* What a step does to what the feed has of a reader.
LEMMA FeedVariables ==
    Feed!feedVars = <<log, Wishlist, Following, cursor, missed>>
  BY DEF Feed!feedVars, Wishlist, Following

LEMMA WishesStay ==
    ASSUME UNCHANGED kind
    PROVE  Wishlist' = Wishlist
  BY DEF Wishlist, Wants

LEMMA AheadIs ==
    ASSUME TypeOK, NEW s \in Subscribers
    PROVE  Feed!Ahead(s) = WantedAfter(s)
  <1>1. cursor[s] \in Nat /\ DOMAIN log = 1 .. Len(log) /\ Len(log) \in Nat
    BY DEF TypeOK
  <1>2. \A i : i \in (cursor[s] + 1) .. Len(log) <=> i \in DOMAIN log /\ i > cursor[s]
    BY <1>1
  <1>3. Feed!Ahead(s) = {i \in DOMAIN log : i > cursor[s] /\ log[i] \in Wants(s)}
    BY DEF Feed!Ahead
  <1> QED
    BY <1>2, <1>3 DEF WantedAfter

\* A stream gets the next event it wants and has not missed.
LEMMA NextIsRead ==
    ASSUME TypeOK, NEW s \in Subscribers, Following[s], NEW n \in WantedAfter(s),
           \A i \in WantedAfter(s) : i \in missed[s] \/ n <= i,
           cursor' = [cursor EXCEPT ![s] = n],
           UNCHANGED <<log, kind, missed>>, Following' = Following
    PROVE  Feed!FeedNext
  <1>1. Feed!Ahead(s) = WantedAfter(s)
    BY AheadIs
  <1>2. UNCHANGED <<log, Wishlist, Following, missed>>
    BY WishesStay
  <1>3. Feed!Read(s)
    BY <1>1, <1>2 DEF Feed!Read, Wishlist, Following
  <1> QED
    BY <1>3 DEF Feed!FeedNext

\* Events that a reader will not get, or will after all.
LEMMA LostOrFound ==
    ASSUME SInv', UNCHANGED <<log, kind, cursor>>, Following' = Following
    PROVE  Feed!FeedNext
  <1>1. \A s \in Subscribers : missed'[s] \subseteq DOMAIN log /\ (missed'[s] # {} => Following[s])
    <2> SUFFICES ASSUME NEW s \in Subscribers
                 PROVE  missed'[s] \subseteq DOMAIN log /\ (missed'[s] # {} => Following[s])
      OBVIOUS
    <2>1. CursorFits(s)'
      BY DEF SInv, InStep
    <2>2. missed'[s] # {} => phase'[s] # "off"
      BY <2>1 DEF CursorFits
    <2>3. phase'[s] # "off" => Following'[s]
      BY DEF Following
    <2> QED
      BY <2>1, <2>2, <2>3 DEF CursorFits
  <1>2. UNCHANGED <<log, Wishlist, Following, cursor>>
    BY WishesStay
  <1>3. Feed!Lose
    BY <1>1, <1>2 DEF Feed!Lose, Wishlist, Following
  <1> QED
    BY <1>3 DEF Feed!FeedNext

\* The first event a live stream holds is the next one it is to get.
LEMMA FirstLiveIsNext ==
    ASSUME TypeOK, NEW s \in Subscribers, InStep(s), phase[s] = "live", NEW e \in Event,
           e.seq \in DOMAIN log, e.topic = log[e.seq], e.seq \in Live(s), IsNew(s, e),
           \A n \in Live(s) : n = e.seq \/ e.seq < n
    PROVE  /\ e.seq \in WantedAfter(s)
           /\ \A i \in WantedAfter(s) : i \in missed[s] \/ e.seq <= i
  <1>1. /\ cursor[s] \in Nat /\ through[s] \in Nat /\ e.seq \in Nat /\ Len(log) \in Nat
        /\ DOMAIN log = 1 .. Len(log) /\ readTo[s] = through[s]
    BY DEF TypeOK, Event, EventsOn, InStep, PhaseFits
  <1>2. e.seq > cursor[s] /\ log[e.seq] \in Wants(s)
    BY DEF InStep, CursorFits, IsNew, Wanted
  <1>3. ASSUME NEW i \in WantedAfter(s), i \notin missed[s] PROVE e.seq <= i
    <2>1. Sequences(page[s]) = {} /\ i \in Nat
      BY <1>1 DEF InStep, PhaseFits, Sequences, WantedAfter
    <2>2. i > through[s]
      BY <1>1, <1>3, <2>1 DEF InStep, NothingSkipped
    <2>3. i \in Live(s) \cup Coming(s)
      BY <1>3, <2>2 DEF InStep, NothingSkipped
    <2>4. i = e.seq \/ e.seq < i
      BY <2>3 DEF InStep, HoldsTheLog, Before
    <2> QED
      BY <1>1, <2>1, <2>4
  <1> QED
    BY <1>1, <1>2, <1>3 DEF WantedAfter

LEMMA DeliverReads ==
    ASSUME SInv, NEW s \in Subscribers, DeliverReplayed(s) \/ DeliverBuffered(s) \/ DeliverLive(s)
    PROVE  Feed!FeedNext \/ UNCHANGED Feed!feedVars
  <1>1. TypeOK /\ InStep(s) /\ HoldsTheLog(s)
    BY DEF SInv, WritersInv, InStep
  <1>2. phase[s] \in {"replaying", "live"} /\ UNCHANGED <<log, kind, phase, missed>>
    BY DEF DeliverReplayed, DeliverBuffered, DeliverLive
  <1>3. Following' = Following /\ Following[s] /\ Wishlist' = Wishlist
    BY <1>2, WishesStay DEF Following
  <1>4. ASSUME cursor' = cursor PROVE UNCHANGED Feed!feedVars
    BY <1>2, <1>3, <1>4, FeedVariables DEF Feed!feedVars, Wishlist, Following
  <1>5. CASE DeliverReplayed(s)
    <2> DEFINE e == Head(page[s]).seq
    <2>1. /\ phase[s] = "replaying" /\ page[s] # << >> /\ cursor' = [cursor EXCEPT ![s] = e]
      BY <1>5 DEF DeliverReplayed
    <2>2. page[s] \in Seq(Event) /\ Increasing(page[s]) /\ Logged(page[s])
      BY <1>1 DEF TypeOK, HoldsTheLog
    <2>3. /\ Head(page[s]) = page[s][1] /\ 1 \in DOMAIN page[s]
          /\ Sequences(page[s]) = {e} \cup Sequences(Tail(page[s]))
          /\ \A n \in Sequences(Tail(page[s])) : e < n
      BY <2>1, <2>2, HeadAndTail
    <2>4. e \in DOMAIN log /\ log[e] \in Wants(s) /\ cursor[s] < e /\ e <= readTo[s]
      BY <1>1, <2>1, <2>2, <2>3 DEF Logged, HoldsTheLog, Wanted, InStep, NothingSkipped
    <2> HIDE DEF e
    <2>5. cursor[s] \in Nat /\ readTo[s] \in Nat /\ DOMAIN log = 1 .. Len(log) /\ Len(log) \in Nat
      BY <1>1 DEF TypeOK
    <2>6. e \in WantedAfter(s)
      BY <2>4, <2>5 DEF WantedAfter
    <2>7. ASSUME NEW i \in WantedAfter(s) PROVE e <= i
      <3>1. i <= readTo[s] => i = e \/ e < i
        BY <1>1, <2>1, <2>3 DEF InStep, NothingSkipped
      <3>2. i \in Nat
        BY <2>5 DEF WantedAfter
      <3> QED
        BY <2>4, <2>5, <3>1, <3>2
    <2> QED
      BY <1>1, <1>2, <1>3, <2>1, <2>6, <2>7, NextIsRead
  <1>6. CASE DeliverBuffered(s)
    <2> DEFINE e == Head(buffer[s])
    <2>1. /\ phase[s] = "live" /\ buffer[s] # << >>
          /\ cursor' = IF e.seq > through[s] THEN [cursor EXCEPT ![s] = e.seq] ELSE cursor
      BY <1>6 DEF DeliverBuffered
    <2>2. buffer[s] \in Seq(Event) /\ Increasing(buffer[s]) /\ Logged(buffer[s])
      BY <1>1 DEF TypeOK, HoldsTheLog
    <2>3. /\ e \in Event /\ e = buffer[s][1] /\ 1 \in DOMAIN buffer[s]
          /\ Sequences(buffer[s]) = {e.seq} \cup Sequences(Tail(buffer[s]))
          /\ \A n \in Sequences(Tail(buffer[s])) : e.seq < n
      BY <2>1, <2>2, HeadAndTail
    <2>4. e.seq \in DOMAIN log /\ e.topic = log[e.seq] /\ Wanted(s, e)
      BY <1>1, <2>2, <2>3 DEF Logged, HoldsTheLog
    <2> HIDE DEF e
    <2>5. e.seq \in Live(s) /\ \A n \in Live(s) : n = e.seq \/ e.seq < n
      BY <1>1, <2>3 DEF Live, HoldsTheLog, Before
    <2>6. CASE e.seq > through[s]
      <3>1. IsNew(s, e)
        BY <2>4, <2>6 DEF IsNew
      <3>2. /\ e.seq \in WantedAfter(s)
            /\ \A i \in WantedAfter(s) : i \in missed[s] \/ e.seq <= i
        BY <1>1, <2>1, <2>3, <2>4, <2>5, <3>1, FirstLiveIsNext
      <3> QED
        BY <1>1, <1>2, <1>3, <2>1, <2>6, <3>2, NextIsRead
    <2>7. CASE ~ (e.seq > through[s])
      BY <1>4, <2>1, <2>7
    <2> QED
      BY <2>6, <2>7
  <1>7. CASE DeliverLive(s)
    <2> DEFINE e == Head(inbox[s])
    <2>1. /\ phase[s] = "live" /\ kind[s] = "worker" /\ inbox[s] # << >>
          /\ cursor' = IF IsNew(s, e) THEN [cursor EXCEPT ![s] = e.seq] ELSE cursor
      BY <1>1, <1>7 DEF DeliverLive, Bounded
    <2>2. /\ e \in Event /\ Sequences(inbox[s]) = {e.seq} \cup Sequences(Tail(inbox[s]))
          /\ \A n \in Sequences(Tail(inbox[s])) : e.seq < n
          /\ e.seq \in DOMAIN log /\ e.topic = log[e.seq]
      BY <1>1, <2>1, FirstOfInbox
    <2> HIDE DEF e
    <2>3. e.seq \in Live(s) /\ \A n \in Live(s) : n = e.seq \/ e.seq < n
      <3>1. Sequences(buffer[s]) = {}
        BY <1>1, <2>1 DEF InStep, CursorFits, Sequences
      <3> QED
        BY <2>2, <3>1 DEF Live
    <2>4. CASE IsNew(s, e)
      <3>1. /\ e.seq \in WantedAfter(s)
            /\ \A i \in WantedAfter(s) : i \in missed[s] \/ e.seq <= i
        BY <1>1, <2>1, <2>2, <2>3, <2>4, FirstLiveIsNext
      <3> QED
        BY <1>1, <1>2, <1>3, <2>1, <2>4, <3>1, NextIsRead
    <2>5. CASE ~ IsNew(s, e)
      BY <1>4, <2>1, <2>5
    <2> QED
      BY <2>4, <2>5
  <1> QED
    BY <1>5, <1>6, <1>7

\* A listener starts at the latest event: what follows it nobody listens to.
LEMMA PositionStarts ==
    ASSUME SInv, NEW s \in Subscribers, ReadPosition(s)
    PROVE  Feed!FeedNext
  <1> DEFINE n == LatestSequence(s)
  <1>1. TypeOK /\ InStep(s)
    BY DEF SInv, WritersInv
  <1>2. /\ kind[s] = "worker" /\ phase[s] = "off" /\ phase' = [phase EXCEPT ![s] = "positioned"]
        /\ cursor' = [cursor EXCEPT ![s] = n] /\ UNCHANGED <<log, kind, missed>>
    BY DEF ReadPosition
  <1>3. /\ n \in 0 .. Len(log) /\ \A i \in (n + 1) .. Len(log) : PassedOver(s, i)
        /\ Len(log) \in Nat /\ cursor[s] \in 0 .. Len(log)
        /\ cursor[s] # 0 => log[cursor[s]] # Project
    BY <1>1, <1>2, LatestIs DEF TypeOK, InStep, CursorFits
  <1> HIDE DEF n
  <1>4. n \in cursor[s] .. Len(log)
    <2>1. n < cursor[s] => PassedOver(s, cursor[s]) /\ cursor[s] # 0
      BY <1>3
    <2> QED
      BY <1>3, <2>1 DEF PassedOver
  <1>5. \A i \in (n + 1) .. Len(log) : log[i] \notin Wants(s)
    BY <1>3, Wishes DEF PassedOver
  <1>6. UNCHANGED <<log, Wishlist, missed>>
    BY <1>2, WishesStay
  <1>7. ~ Following[s] /\ Following' = [Following EXCEPT ![s] = TRUE]
    <2>1. ~ Following[s]
      BY <1>2 DEF Following
    <2>2. \A r \in Subscribers \ {s} : (kind'[r] # "worker" \/ phase'[r] # "off") <=> (kind[r] # "worker" \/ phase[r] # "off")
      BY <1>1, <1>2 DEF TypeOK
    <2>3. phase'[s] # "off"
      BY <1>1, <1>2 DEF TypeOK
    <2> QED
      BY <2>1, <2>2, <2>3 DEF Following
  <1>8. Feed!StartAtEnd(s)
    BY <1>2, <1>4, <1>5, <1>6, <1>7 DEF Feed!StartAtEnd, Wishlist, Following
  <1> QED
    BY <1>8 DEF Feed!FeedNext

\* After a crash the listeners start over, and nothing is lost.
LEMMA CrashLeaves ==
    ASSUME SInv, Crash
    PROVE  Feed!FeedNext
  <1>1. UNCHANGED <<log, kind, cursor>> /\ phase' = [s \in Subscribers |-> "off"]
        /\ missed' = [s \in Subscribers |-> {}]
    BY DEF Crash
  <1>2. PICK R \in SUBSET Subscribers : R = {s \in Subscribers : kind[s] = "worker"}
    OBVIOUS
  <1>3. Following' = [r \in Subscribers |-> Following[r] /\ r \notin R]
    <2>1. \A r \in Subscribers :
             (kind'[r] # "worker" \/ phase'[r] # "off") <=> ((kind[r] # "worker" \/ phase[r] # "off") /\ r \notin R)
      BY <1>1, <1>2
    <2> QED
      BY <2>1 DEF Following
  <1>4. UNCHANGED <<log, Wishlist, cursor>>
    BY <1>1, WishesStay
  <1>5. Feed!Leave(R)
    BY <1>1, <1>3, <1>4 DEF Feed!Leave, Wishlist, Following
  <1> QED
    BY <1>5 DEF Feed!FeedNext

\* A closed stream of a client is one it will open again.
LEMMA ClosingForgets ==
    ASSUME SInv, SInv', NEW s \in Subscribers, Overflow(s) \/ Disconnect(s)
    PROVE  Feed!FeedNext
  <1>1. kind[s] # "worker" /\ Close(s)
    BY DEF Overflow, Disconnect, HasRoom, Bounded
  <1>2. UNCHANGED <<log, kind, cursor>> /\ phase' = [phase EXCEPT ![s] = "off"]
    BY <1>1 DEF Close
  <1>3. Following' = Following
    BY <1>1, <1>2 DEF Following, SInv, WritersInv, TypeOK
  <1> QED
    BY <1>2, <1>3, LostOrFound

LEMMA CommitAppends ==
    ASSUME SInv, WInv', NEW w \in Writers, Commit(w)
    PROVE  Feed!FeedNext
  <1>1. PICK b \in Batches : log' = log \o b
    BY CommittingWriter
  <1>2. UNCHANGED <<kind, phase, cursor, missed>>
    BY DEF Commit, streamVars
  <1>3. UNCHANGED <<Wishlist, Following, cursor, missed>>
    BY <1>2, WishesStay DEF Following
  <1>4. Feed!AppendBatch
    BY <1>1, <1>3 DEF Feed!AppendBatch, Wishlist, Following
  <1> QED
    BY <1>4 DEF Feed!FeedNext

LEMMA FeedInitially ==
    ASSUME Init
    PROVE  Feed!FeedInit
  <1>1. \A s \in Subscribers : Wants(s) \in SUBSET AllTopics
    BY Wishes
  <1>2. log = << >> /\ cursor = [s \in Subscribers |-> 0] /\ missed = [s \in Subscribers |-> {}]
    BY DEF Init, StreamsOff
  <1> QED
    BY <1>1, <1>2 DEF Feed!FeedInit

LEMMA StepOfTheFeed ==
    ASSUME SInv, SInv', [Next]_vars
    PROVE  Feed!FeedNext \/ UNCHANGED Feed!feedVars
  <1>1. ASSUME UNCHANGED <<log, kind, cursor, missed>>, Following' = Following
        PROVE  UNCHANGED Feed!feedVars
    <2>1. UNCHANGED Wishlist
      BY <1>1, WishesStay
    <2> QED
      BY <1>1, <2>1 DEF Feed!feedVars, Wishlist, Following
  <1>2. ASSUME UNCHANGED <<log, kind, cursor, missed, phase>> PROVE UNCHANGED Feed!feedVars
    BY <1>1, <1>2 DEF Following
  <1>3. ASSUME NEW w \in Writers, NEW b \in Batches, RunTransaction(w, b) PROVE UNCHANGED Feed!feedVars
    BY <1>2, <1>3 DEF RunTransaction, streamVars
  <1>4. ASSUME NEW w \in Writers, FailTransaction(w) \/ FailCommit(w) \/ TakeLane(w) \/ ReleaseLane(w)
        PROVE  UNCHANGED Feed!feedVars
    BY <1>2, <1>4 DEF FailTransaction, FailCommit, Rollback, TakeLane, ReleaseLane, streamVars
  <1>5. ASSUME NEW w \in Writers, Commit(w) PROVE Feed!FeedNext
    BY <1>5, CommitAppends DEF SInv, WritersInv
  <1>6. ASSUME NEW w \in Writers, Publish(w) PROVE UNCHANGED Feed!feedVars
    BY <1>2, <1>6 DEF Publish
  <1>7. ASSUME NEW w \in Writers, InterruptPublish(w) PROVE Feed!FeedNext
    BY <1>7, LostOrFound DEF InterruptPublish, Following
  <1>8. ASSUME NEW s \in Subscribers, Overflow(s) \/ Disconnect(s) PROVE Feed!FeedNext
    BY <1>8, ClosingForgets
  <1>9. ASSUME NEW s \in Subscribers, Subscribe(s) \/ ReadHighWater(s) \/ GoLive(s)
        PROVE  UNCHANGED Feed!feedVars
    <2>1. UNCHANGED <<log, kind, cursor, missed>>
      BY <1>9 DEF Subscribe, ReadHighWater, GoLive
    <2>2. Following' = Following
      <3>1. phase \in [Subscribers -> Phases]
        BY DEF SInv, WritersInv, TypeOK
      <3>2. PICK p \in {"subscribed", "replaying", "live"} : phase' = [phase EXCEPT ![s] = p]
        BY <1>9 DEF Subscribe, ReadHighWater, GoLive
      <3>3. kind[s] # "worker" \/ phase[s] # "off"
        BY <1>9 DEF Subscribe, ReadHighWater, GoLive
      <3>4. \A r \in Subscribers :
               (kind'[r] # "worker" \/ phase'[r] # "off") <=> (kind[r] # "worker" \/ phase[r] # "off")
        BY <2>1, <3>1, <3>2, <3>3
      <3> QED
        BY <3>4 DEF Following
    <2> QED
      BY <1>1, <2>1, <2>2
  <1>10. ASSUME NEW s \in Subscribers, ReadPage(s) \/ Drain(s) PROVE UNCHANGED Feed!feedVars
    BY <1>2, <1>10 DEF ReadPage, Drain
  <1>11. ASSUME NEW s \in Subscribers, DeliverReplayed(s) \/ DeliverBuffered(s) \/ DeliverLive(s)
         PROVE  Feed!FeedNext \/ UNCHANGED Feed!feedVars
    BY <1>11, DeliverReads
  <1>12. ASSUME NEW s \in Subscribers, ReadPosition(s) PROVE Feed!FeedNext
    BY <1>12, PositionStarts
  <1>13. CASE Crash
    BY <1>13, CrashLeaves
  <1>14. CASE UNCHANGED vars
    BY <1>2, <1>14 DEF vars, streamVars
  <1> QED
    BY <1>3, <1>4, <1>5, <1>6, <1>7, <1>8, <1>9, <1>10, <1>11, <1>12, <1>13, <1>14
       DEF Next, Finish, Follow

\* The sink is the feed it promises to be: every stream gets the events it
\* wants in the order of one growing log, each once and none skipped, across
\* pages, the switch from replay to live, full buffers, lost connections and
\* crashes.
THEOREM SinkIsAFeed == Spec => ImplementsEventFeed
  <1>1. SInv /\ SInv' /\ [Next]_vars => [Feed!FeedNext]_Feed!feedVars
    BY StepOfTheFeed
  <1>2. Init => Feed!FeedInit
    BY FeedInitially
  <1> QED
    BY SInvInit, SInvKeeps, <1>1, <1>2, PTL DEF Spec, ImplementsEventFeed, Feed!FeedSpec
=============================================================================
