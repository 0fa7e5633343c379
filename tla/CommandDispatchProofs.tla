----------------------- MODULE CommandDispatchProofs ------------------------
(***************************************************************************)
(* Theorems about CommandDispatch, for all sets of fibers, threads,        *)
(* projects, command ids and requests, and every value of the bounds.      *)
(***************************************************************************)
EXTENDS CommandDispatch, FiniteSetTheorems, TLAPS

USE DispatchAssumption

\* What the argument needs of the types: a fiber at work has a real request.
Types ==
    /\ receipts = [c \in Commands |-> receipts[c]]
    /\ log \in Seq([id : Commands \cup {System}, aggregate : Aggregates])
    /\ pc \in [Fibers -> Stages]
    /\ request \in [Fibers -> Requests \cup {NoRequest}]
    /\ \A f \in Fibers : pc[f] # "idle" => request[f] \in Requests

IInv == Types /\ ReceiptsMatchTheLog

LEMMA RequestType ==
    ASSUME NEW r \in Requests
    PROVE  r.id \in Commands /\ r.id # System /\ r.aggregate \in Aggregates
  BY DEF Aggregates

LEMMA InitIInv == Init => IInv
  BY DEF Init, FibersIdle, IInv, Types, ReceiptsMatchTheLog, Stages

\* What the log says of the receipt of an event.
LEMMA EventReceipt ==
    ASSUME IInv, NEW i \in DOMAIN log, log[i].id # System
    PROVE  /\ log[i].id \in Commands
           /\ receipts[log[i].id].status = "accepted"
           /\ receipts[log[i].id].sequence = i
  <1> DEFINE r == receipts[log[i].id]
  <1>1. r = [aggregate |-> log[i].aggregate, status |-> "accepted", sequence |-> i]
    BY DEF IInv, ReceiptsMatchTheLog
  <1>2. r.status = "accepted" /\ r.sequence = i
    <2> HIDE DEF r
    <2> QED BY <1>1
  <1>3. log[i] \in [id : Commands \cup {System}, aggregate : Aggregates]
    <2> DEFINE S == [id : Commands \cup {System}, aggregate : Aggregates]
    <2>1. log \in Seq(S)
      BY DEF IInv, Types
    <2> HIDE DEF S
    <2>2. log[i] \in S
      BY <2>1
    <2> QED
      BY <2>2 DEF S
  <1> QED
    BY <1>2, <1>3

\* A fiber that leaves keeps the types of the fibers.
LEMMA LeaveTypes ==
    ASSUME Types, NEW f \in Fibers, Leave(f)
    PROVE  /\ pc' \in [Fibers -> Stages]
           /\ request' \in [Fibers -> Requests \cup {NoRequest}]
           /\ \A g \in Fibers : pc'[g] # "idle" => request'[g] \in Requests
  <1>1. pc' = [pc EXCEPT ![f] = "idle"] /\ request' = [request EXCEPT ![f] = NoRequest]
    BY DEF Leave, Goto
  <1>2. "idle" \in Stages
    BY DEF Stages
  <1> QED
    BY <1>1, <1>2 DEF Types

\* So does one that goes on with its request.
LEMMA GotoTypes ==
    ASSUME Types, NEW f \in Fibers, pc[f] # "idle", NEW stage \in Stages,
           Goto(f, stage), UNCHANGED request
    PROVE  /\ pc' \in [Fibers -> Stages]
           /\ request' \in [Fibers -> Requests \cup {NoRequest}]
           /\ \A g \in Fibers : pc'[g] # "idle" => request'[g] \in Requests
  BY DEF Types, Goto

FiberTypes ==
    /\ pc \in [Fibers -> Stages]
    /\ request \in [Fibers -> Requests \cup {NoRequest}]
    /\ \A f \in Fibers : pc[f] # "idle" => request[f] \in Requests

\* Steps that write neither a receipt nor an event.
LEMMA QuietIInv ==
    ASSUME IInv, FiberTypes', UNCHANGED <<receipts, log>>
    PROVE  IInv'
  BY DEF IInv, Types, FiberTypes, ReceiptsMatchTheLog

\* A receipt is written for an id that has none, and no event with that id is
\* in the log.
LEMMA ReceiptIInv ==
    ASSUME IInv, NEW f \in Fibers, pc[f] # "idle", Reserved(f), FiberTypes',
           NEW status, NEW n, SetReceipt(f, status, n), UNCHANGED log
    PROVE  IInv'
  <1> DEFINE c == request[f].id
  <1>1. c \in Commands
    BY RequestType DEF IInv, Types
  <1>2. receipts[c].status = "none"
    BY DEF Reserved, OwnReceipt, NoReceipt
  <1>3. \A i \in DOMAIN log : log[i].id # c
    <2> SUFFICES ASSUME NEW i \in DOMAIN log, log[i].id = c PROVE FALSE
      OBVIOUS
    <2>1. log[i].id # System
      BY <1>1
    <2> QED
      BY <1>2, <2>1, EventReceipt
  <1>4. Types'
    BY <1>1 DEF IInv, Types, FiberTypes, SetReceipt
  <1>5. ReceiptsMatchTheLog'
    BY <1>1, <1>3 DEF IInv, Types, ReceiptsMatchTheLog, SetReceipt
  <1> QED
    BY <1>4, <1>5 DEF IInv

\* A transaction that commits writes the receipt that points at its event.
LEMMA CommitIInv ==
    ASSUME IInv, NEW f \in Fibers, Commit(f)
    PROVE  IInv'
  <1> DEFINE c == request[f].id
  <1>1. /\ pc[f] # "idle" /\ receipts[c].status = "none"
        /\ log' = Append(log, [id |-> c, aggregate |-> Aim(f)])
        /\ receipts' = [receipts EXCEPT ![c] =
              [aggregate |-> Aim(f), status |-> "accepted", sequence |-> Len(log) + 1]]
    BY DEF Commit, Reserved, OwnReceipt, NoReceipt, Append1, SetReceipt
  <1>2. c \in Commands /\ c # System /\ Aim(f) \in Aggregates
    BY <1>1, RequestType DEF IInv, Types, Aim
  <1>3. \A i \in DOMAIN log : log[i].id # c
    <2> SUFFICES ASSUME NEW i \in DOMAIN log, log[i].id = c PROVE FALSE
      OBVIOUS
    <2>1. log[i].id # System
      BY <1>2
    <2> QED
      BY <1>1, <2>1, EventReceipt
  <1>4. FiberTypes'
    <2>1. CASE Goto(f, "promoting") /\ UNCHANGED request
      <3>1. "promoting" \in Stages
        BY DEF Stages
      <3> QED
        BY <1>1, <2>1, <3>1, GotoTypes DEF IInv, FiberTypes
    <2>2. CASE Leave(f)
      BY <2>2, LeaveTypes DEF IInv, FiberTypes
    <2> QED
      BY <2>1, <2>2 DEF Commit, Answer
  <1>5. Types'
    <2>1. [id |-> c, aggregate |-> Aim(f)] \in [id : Commands \cup {System}, aggregate : Aggregates]
      BY <1>2
    <2>2. log' \in Seq([id : Commands \cup {System}, aggregate : Aggregates])
      BY <1>1, <2>1 DEF IInv, Types
    <2>3. receipts' = [d \in Commands |-> receipts'[d]]
      BY <1>1 DEF IInv, Types
    <2> QED
      BY <1>4, <2>2, <2>3 DEF Types, FiberTypes
  <1>6. ReceiptsMatchTheLog'
    <2> SUFFICES ASSUME NEW i \in DOMAIN log', log'[i].id # System
                 PROVE  receipts'[log'[i].id] =
                            [aggregate |-> log'[i].aggregate, status |-> "accepted", sequence |-> i]
      BY DEF ReceiptsMatchTheLog
    <2>1. CASE i = Len(log) + 1
      BY <1>1, <1>2, <2>1 DEF IInv, Types
    <2>2. CASE i \in DOMAIN log
      <3>1. log'[i] = log[i]
        BY <1>1, <2>2 DEF IInv, Types
      <3>2. log[i].id # c /\ log[i].id \in Commands
        BY <1>3, <2>2, <3>1, EventReceipt
      <3> QED
        BY <1>1, <2>2, <3>1, <3>2 DEF IInv, Types, ReceiptsMatchTheLog
    <2> QED
      BY <1>1, <2>1, <2>2 DEF IInv, Types
  <1> QED
    BY <1>5, <1>6 DEF IInv

\* The start of a queue is an event without a receipt.
LEMMA PromoteIInv ==
    ASSUME IInv, NEW f \in Fibers, Promote(f)
    PROVE  IInv'
  <1>1. pc[f] # "idle" /\ Leave(f) /\ UNCHANGED receipts
    BY DEF Promote, Answer
  <1>2. FiberTypes'
    BY <1>1, LeaveTypes DEF IInv, FiberTypes
  <1>3. CASE UNCHANGED log
    BY <1>1, <1>2, <1>3, QuietIInv
  <1>4. CASE log' = Append(log, [id |-> System, aggregate |-> Aim(f)])
    <2>1. Aim(f) \in Aggregates
      BY <1>1, RequestType DEF IInv, Types, Aim
    <2>2. Types'
      BY <1>1, <1>2, <1>4, <2>1 DEF IInv, Types, FiberTypes
    <2>3. ReceiptsMatchTheLog'
      BY <1>1, <1>4 DEF IInv, Types, ReceiptsMatchTheLog
    <2> QED
      BY <2>2, <2>3 DEF IInv
  <1> QED
    BY <1>3, <1>4 DEF Promote

LEMMA RefuseIInv ==
    ASSUME IInv, NEW f \in Fibers, NEW result, Refuse(f, result)
    PROVE  IInv'
  BY LeaveTypes, QuietIInv DEF Refuse, Answer, IInv, FiberTypes

LEMMA ReplayIInv ==
    ASSUME IInv, NEW f \in Fibers, pc[f] # "idle", NEW receipt, Replay(f, receipt)
    PROVE  IInv'
  <1>1. "promoting" \in Stages
    BY DEF Stages
  <1>2. FiberTypes' /\ UNCHANGED <<receipts, log>>
    BY <1>1, LeaveTypes, GotoTypes DEF Replay, Answer, IInv, FiberTypes
  <1> QED
    BY <1>2, QuietIInv

LEMMA AnswerFromIInv ==
    ASSUME IInv, NEW f \in Fibers, pc[f] # "idle",
           (\E receipt : AnswerFrom(f, receipt)) \/ AnswerFromProject(f)
    PROVE  IInv'
  BY RefuseIInv, ReplayIInv DEF AnswerFrom, AnswerFromProject

LEMMA HandleIInv ==
    ASSUME IInv, NEW f \in Fibers, Handle(f)
    PROVE  IInv'
  <1>1. Stages = {"idle", "waiting", "lookup", "planning", "committing", "recording", "rejecting", "promoting"}
    BY DEF Stages
  <1>2. CASE Enter(f)
    BY <1>1, <1>2, GotoTypes, QuietIInv DEF Enter, IInv, FiberTypes
  <1>3. CASE Lookup(f)
    <2>1. pc[f] # "idle"
      BY <1>3 DEF Lookup
    <2>2. CASE Goto(f, "planning") /\ UNCHANGED <<receipts, log, request>>
      BY <1>1, <2>1, <2>2, GotoTypes, QuietIInv DEF IInv, FiberTypes
    <2> QED
      BY <1>3, <2>1, <2>2, RefuseIInv, ReplayIInv DEF Lookup
  <1>4. CASE Plan(f)
    BY <1>1, <1>4, GotoTypes, QuietIInv DEF Plan, IInv, FiberTypes
  <1>5. CASE Commit(f)
    BY <1>5, CommitIInv
  <1>6. CASE CommitTaken(f)
    BY <1>6, RefuseIInv, AnswerFromIInv DEF CommitTaken
  <1>7. CASE RecordEmpty(f)
    <2>1. pc[f] # "idle" /\ FiberTypes' /\ UNCHANGED log
      BY <1>7, LeaveTypes DEF RecordEmpty, Answer, IInv, FiberTypes
    <2>2. CASE Reserved(f)
      BY <1>7, <2>1, <2>2, ReceiptIInv DEF RecordEmpty
    <2>3. CASE ~ Reserved(f)
      BY <1>7, <2>1, <2>3, QuietIInv DEF RecordEmpty
    <2> QED
      BY <2>2, <2>3
  <1>8. CASE Reject(f)
    <2>1. pc[f] # "idle"
      BY <1>8 DEF Reject
    <2>2. ASSUME Reserved(f), SetReceipt(f, "rejected", LatestSequence(Aim(f))), Leave(f), UNCHANGED log
          PROVE  IInv'
      BY <2>1, <2>2, LeaveTypes, ReceiptIInv DEF IInv, FiberTypes
    <2> QED
      BY <1>8, <2>1, <2>2, RefuseIInv, AnswerFromIInv DEF Reject, Answer
  <1>9. CASE Promote(f)
    BY <1>9, PromoteIInv
  <1> QED
    BY <1>2, <1>3, <1>4, <1>5, <1>6, <1>7, <1>8, <1>9 DEF Handle

LEMMA NextIInv == IInv /\ [Next]_vars => IInv'
  <1> SUFFICES ASSUME IInv, [Next]_vars PROVE IInv'
    OBVIOUS
  <1>1. CASE UNCHANGED vars
    BY <1>1 DEF vars, fiberVars, IInv, Types, ReceiptsMatchTheLog
  <1>2. ASSUME NEW f \in Fibers, NEW r \in Requests, Send(f, r) PROVE IInv'
    <2>1. "waiting" \in Stages
      BY DEF Stages
    <2>2. FiberTypes'
      BY <1>2, <2>1 DEF Send, Goto, IInv, Types, FiberTypes
    <2> QED
      BY <1>2, <2>2, QuietIInv DEF Send
  <1>3. ASSUME NEW f \in Fibers, Handle(f) PROVE IInv'
    BY <1>3, HandleIInv
  <1>4. ASSUME NEW f \in Fibers, FailStatement(f) \/ Interrupt(f) PROVE IInv'
    BY <1>4, LeaveTypes, QuietIInv DEF FailStatement, Interrupt, Answer, IInv, FiberTypes
  <1>5. CASE Crash
    <2>1. "idle" \in Stages
      BY DEF Stages
    <2> QED
      BY <1>5, <2>1, QuietIInv DEF Crash, FiberTypes
  <1> QED
    BY <1>1, <1>2, <1>3, <1>4, <1>5 DEF Next

LEMMA IInvHolds == Spec => []IInv
  BY InitIInv, NextIInv, PTL DEF Spec

-----------------------------------------------------------------------------
(* Types.                                                                  *)

\* The batches of an aggregate have a last one, so LatestSequence is a number:
\* what MAX(sequence) finds.
HasLatest(a) == \E n \in Batches(a) \cup {0} : \A i \in Batches(a) : i <= n

TInv == TypeOK /\ \A a \in Aggregates : HasLatest(a)

\* A fiber at work handles a request, as in Types.
Working(f) == request[f] \in Requests

\* The types of what only handlers change, and of what clients have.
HandlerTypes ==
    /\ locks \in [Aggregates -> Seq(Fibers)]
    /\ pc \in [Fibers -> Stages]
    /\ request \in [Fibers -> Requests \cup {NoRequest}]
    /\ planned \in [Fibers -> Nat]
    /\ sequence \in [Fibers -> Nat]
AnswerTypes == answers \subseteq [request : Requests, result : Results, sequence : Nat]

LEMMA LatestType ==
    ASSUME TInv, NEW a \in Aggregates
    PROVE  LatestSequence(a) \in Nat /\ Version(a) \in Nat
  <1>1. log \in Seq([id : Commands \cup {System}, aggregate : Aggregates])
    BY DEF TInv, TypeOK
  <1>2. Len(log) \in Nat /\ Batches(a) \subseteq 1 .. Len(log)
    BY <1>1 DEF Batches
  <1>3. \E n \in Batches(a) \cup {0} : \A i \in Batches(a) : i <= n
    BY DEF TInv, HasLatest
  <1>4. LatestSequence(a) \in Nat
    BY <1>2, <1>3 DEF LatestSequence
  <1>5. IsFiniteSet(Batches(a))
    <2>1. IsFiniteSet(1 .. Len(log))
      BY <1>2, FS_Interval
    <2> QED
      BY <1>2, <2>1, FS_Subset
  <1> QED
    BY <1>4, <1>5, FS_CardinalityType DEF Version

LEMMA ReceiptNumber ==
    ASSUME TypeOK, NEW f \in Fibers, Working(f)
    PROVE  /\ OwnReceipt(f).sequence \in Nat
           /\ ThreadReceipt(request[f].id).sequence \in Nat
  <1>1. \A c \in Commands : receipts[c].sequence \in Nat
    BY DEF TypeOK, Receipt, NoReceipt
  <1> QED
    BY <1>1, RequestType DEF Working, OwnReceipt, ThreadReceipt, NoReceipt

LEMMA GoOnTypes ==
    ASSUME TypeOK, NEW f \in Fibers, NEW stage \in Stages, Goto(f, stage),
           UNCHANGED <<locks, request>>, NEW n \in Nat, NEW m \in Nat,
           planned' = planned \/ planned' = [planned EXCEPT ![f] = n],
           sequence' = sequence \/ sequence' = [sequence EXCEPT ![f] = m]
    PROVE  HandlerTypes'
  BY DEF TypeOK, Goto, HandlerTypes

LEMMA LeaveHandlerTypes ==
    ASSUME TypeOK, NEW f \in Fibers, Working(f), Leave(f)
    PROVE  HandlerTypes'
  <1>1. Aim(f) \in Aggregates
    BY RequestType DEF Working, Aim
  <1>2. Without(locks[Aim(f)], f) \in Seq(Fibers)
    BY <1>1, WithoutType DEF TypeOK
  <1>3. "idle" \in Stages
    BY DEF Stages
  <1>4. locks' \in [Aggregates -> Seq(Fibers)]
    BY <1>1, <1>2 DEF Leave, TypeOK
  <1> QED
    BY <1>3, <1>4 DEF Leave, Goto, TypeOK, HandlerTypes

LEMMA AnswerType ==
    ASSUME TypeOK, NEW f \in Fibers, Working(f), NEW result \in Results, NEW n \in Nat,
           Answer(f, result, n)
    PROVE  HandlerTypes' /\ AnswerTypes'
  <1>1. HandlerTypes'
    BY LeaveHandlerTypes DEF Answer
  <1>2. [request |-> request[f], result |-> result, sequence |-> n]
            \in [request : Requests, result : Results, sequence : Nat]
    BY DEF Working
  <1> QED
    BY <1>1, <1>2 DEF Answer, AnswerTypes, TypeOK

\* A step that appends nothing.
LEMMA SameLogType ==
    ASSUME TInv, HandlerTypes', AnswerTypes', UNCHANGED log,
           receipts' \in [Commands -> Receipt \cup {NoReceipt}],
           runQueue' \in [Threads -> {"held", "ready", "started"}],
           sent' \in Nat, faults' \in Nat
    PROVE  TInv'
  BY DEF TInv, TypeOK, HandlerTypes, AnswerTypes, HasLatest, Batches

\* A step that appends one batch: it is the latest of its aggregate.
LEMMA AppendType ==
    ASSUME TInv, HandlerTypes', AnswerTypes',
           NEW e \in [id : Commands \cup {System}, aggregate : Aggregates],
           log' = Append(log, e),
           receipts' \in [Commands -> Receipt \cup {NoReceipt}],
           runQueue' \in [Threads -> {"held", "ready", "started"}],
           sent' \in Nat, faults' \in Nat
    PROVE  TInv'
  <1> DEFINE S == [id : Commands \cup {System}, aggregate : Aggregates]
  <1>1. log \in Seq(S) /\ e \in S
    BY DEF TInv, TypeOK
  <1> HIDE DEF S
  <1>2. /\ log' \in Seq(S)
        /\ Len(log) \in Nat /\ DOMAIN log = 1 .. Len(log)
        /\ DOMAIN log' = 1 .. (Len(log) + 1)
        /\ \A i \in 1 .. Len(log) : log'[i] = log[i]
        /\ log'[Len(log) + 1] = e
    BY <1>1
  <1>3. TypeOK'
    BY <1>2 DEF TInv, TypeOK, HandlerTypes, AnswerTypes, S
  <1>4. ASSUME NEW a \in Aggregates PROVE HasLatest(a)'
    <2>1. CASE e.aggregate = a
      <3>1. Len(log) + 1 \in Batches(a)' /\ \A i \in Batches(a)' : i <= Len(log) + 1
        BY <1>2, <2>1 DEF Batches
      <3> QED
        BY <3>1 DEF HasLatest
    <2>2. CASE e.aggregate # a
      <3>1. Batches(a)' = Batches(a)
        BY <1>2, <2>2 DEF Batches
      <3> QED
        BY <3>1 DEF TInv, HasLatest
    <2> QED
      BY <2>1, <2>2
  <1> QED
    BY <1>3, <1>4 DEF TInv

LEMMA RefuseType ==
    ASSUME TInv, NEW f \in Fibers, Working(f), NEW result \in Results, Refuse(f, result)
    PROVE  TInv'
  <1>1. HandlerTypes' /\ AnswerTypes'
    BY AnswerType DEF TInv, Refuse
  <1> QED
    BY <1>1, SameLogType DEF TInv, TypeOK, Refuse

LEMMA ReplayType ==
    ASSUME TInv, NEW f \in Fibers, Working(f), NEW receipt, receipt.sequence \in Nat,
           Replay(f, receipt)
    PROVE  TInv'
  <1>1. "promoting" \in Stages /\ "ok" \in Results
    BY DEF Stages, Results
  <1>2. HandlerTypes' /\ AnswerTypes'
    <2>1. CASE Answer(f, "ok", receipt.sequence)
      BY <1>1, <2>1, AnswerType DEF TInv
    <2>2. CASE /\ Goto(f, "promoting") /\ UNCHANGED <<locks, request, planned, answers>>
               /\ sequence' = [sequence EXCEPT ![f] = receipt.sequence]
      BY <1>1, <2>2, GoOnTypes DEF TInv, TypeOK, AnswerTypes
    <2> QED
      BY <2>1, <2>2 DEF Replay
  <1> QED
    BY <1>2, SameLogType DEF TInv, TypeOK, Replay

LEMMA AnswerFromType ==
    ASSUME TInv, NEW f \in Fibers, Working(f),
           \/ AnswerFrom(f, ThreadReceipt(request[f].id))
           \/ AnswerFromProject(f)
    PROVE  TInv'
  <1>1. "rejected" \in Results /\ "conflict" \in Results
    BY DEF Results
  <1>2. OwnReceipt(f).sequence \in Nat /\ ThreadReceipt(request[f].id).sequence \in Nat
    BY ReceiptNumber DEF TInv
  <1> QED
    BY <1>1, <1>2, RefuseType, ReplayType DEF AnswerFrom, AnswerFromProject

\* A handler writes a receipt of its own aggregate.
LEMMA SetReceiptType ==
    ASSUME TInv, NEW f \in Fibers, Working(f), NEW status \in {"accepted", "rejected"},
           NEW n \in Nat, SetReceipt(f, status, n)
    PROVE  receipts' \in [Commands -> Receipt \cup {NoReceipt}]
  <1>1. request[f].id \in Commands /\ Aim(f) \in Aggregates
    BY RequestType DEF Working, Aim
  <1>2. [aggregate |-> Aim(f), status |-> status, sequence |-> n] \in Receipt
    BY <1>1 DEF Receipt
  <1> QED
    BY <1>1, <1>2 DEF SetReceipt, TInv, TypeOK

LEMMA CommitType ==
    ASSUME TInv, NEW f \in Fibers, Working(f), Commit(f)
    PROVE  TInv'
  <1>1. Aim(f) \in Aggregates /\ request[f].id \in Commands
    BY RequestType DEF Working, Aim
  <1>2. Len(log) + 1 \in Nat
    BY DEF TInv, TypeOK
  <1>3. receipts' \in [Commands -> Receipt \cup {NoReceipt}]
    BY <1>2, SetReceiptType DEF Commit
  <1>4. "promoting" \in Stages /\ "ok" \in Results
    BY DEF Stages, Results
  <1>5. HandlerTypes' /\ AnswerTypes'
    <2>1. CASE Answer(f, "ok", Len(log) + 1)
      BY <1>2, <1>4, <2>1, AnswerType DEF TInv
    <2>2. CASE /\ Goto(f, "promoting") /\ UNCHANGED <<locks, request, planned, answers>>
               /\ sequence' = [sequence EXCEPT ![f] = Len(log) + 1]
      BY <1>2, <1>4, <2>2, GoOnTypes DEF TInv, TypeOK, AnswerTypes
    <2> QED
      BY <2>1, <2>2 DEF Commit
  <1>6. runQueue' \in [Threads -> {"held", "ready", "started"}]
    BY DEF Commit, TInv, TypeOK
  <1>7. sent' \in Nat /\ faults' \in Nat
    BY DEF Commit, TInv, TypeOK
  <1>8. [id |-> request[f].id, aggregate |-> Aim(f)]
            \in [id : Commands \cup {System}, aggregate : Aggregates]
    BY <1>1
  <1> QED
    BY <1>3, <1>5, <1>6, <1>7, <1>8, AppendType DEF Commit, Append1

LEMMA PromoteType ==
    ASSUME TInv, NEW f \in Fibers, Working(f), Promote(f)
    PROVE  TInv'
  <1>1. Aim(f) \in Aggregates
    BY RequestType DEF Working, Aim
  <1>2. "ok" \in Results
    BY DEF Results
  <1>3. HandlerTypes' /\ AnswerTypes'
    BY <1>2, AnswerType DEF Promote, TInv, TypeOK
  <1>4. /\ runQueue' \in [Threads -> {"held", "ready", "started"}]
        /\ receipts' \in [Commands -> Receipt \cup {NoReceipt}]
        /\ sent' \in Nat /\ faults' \in Nat
    BY DEF Promote, TInv, TypeOK
  <1>5. [id |-> System, aggregate |-> Aim(f)]
            \in [id : Commands \cup {System}, aggregate : Aggregates]
    BY <1>1
  <1> QED
    BY <1>3, <1>4, <1>5, AppendType, SameLogType DEF Promote

LEMMA HandleType ==
    ASSUME TInv, NEW f \in Fibers, Working(f), Handle(f)
    PROVE  TInv'
  <1>1. Stages = {"idle", "waiting", "lookup", "planning", "committing", "recording", "rejecting", "promoting"}
    BY DEF Stages
  <1>2. Results = {"ok", "rejected", "failed", "conflict", "error"}
    BY DEF Results
  <1>3. Aim(f) \in Aggregates
    BY RequestType DEF Working, Aim
  <1>4. LatestSequence(Aim(f)) \in Nat /\ Version(Aim(f)) \in Nat
    BY <1>3, LatestType
  <1>5. ASSUME NEW stage \in Stages, Goto(f, stage), planned' = planned \/
                   planned' = [planned EXCEPT ![f] = Version(Aim(f))],
               UNCHANGED <<receipts, log, runQueue, locks, request, sequence, answers, sent, faults>>
        PROVE  TInv'
    <2>1. HandlerTypes'
      BY <1>4, <1>5, GoOnTypes DEF TInv
    <2> QED
      BY <1>5, <2>1, SameLogType DEF TInv, TypeOK, AnswerTypes
  <1>6. CASE Enter(f)
    BY <1>1, <1>5, <1>6 DEF Enter
  <1>7. CASE Lookup(f)
    <2>1. ThreadReceipt(request[f].id).sequence \in Nat
      BY ReceiptNumber DEF TInv
    <2>2. CASE Goto(f, "planning") /\ UNCHANGED <<receipts, log, runQueue, locks, request,
                                                  planned, sequence, answers, sent, faults>>
      BY <1>1, <1>5, <2>2
    <2> QED
      BY <1>2, <1>7, <2>1, <2>2, RefuseType, ReplayType DEF Lookup
  <1>8. CASE Plan(f)
    BY <1>1, <1>5, <1>8 DEF Plan
  <1>9. CASE Commit(f)
    BY <1>9, CommitType
  <1>10. CASE CommitTaken(f)
    BY <1>2, <1>10, RefuseType, AnswerFromType DEF CommitTaken
  <1>11. CASE RecordEmpty(f)
    <2>1. receipts' \in [Commands -> Receipt \cup {NoReceipt}]
      BY <1>4, <1>11, SetReceiptType DEF RecordEmpty, TInv, TypeOK
    <2>2. HandlerTypes' /\ AnswerTypes'
      BY <1>2, <1>4, <1>11, AnswerType DEF RecordEmpty, TInv
    <2> QED
      BY <1>11, <2>1, <2>2, SameLogType DEF RecordEmpty, TInv, TypeOK
  <1>12. CASE Reject(f)
    <2>1. ASSUME SetReceipt(f, "rejected", LatestSequence(Aim(f))), NEW result \in Results,
                 Answer(f, result, 0), UNCHANGED <<log, runQueue, sent, faults>>
          PROVE  TInv'
      <3>1. receipts' \in [Commands -> Receipt \cup {NoReceipt}]
        BY <1>4, <2>1, SetReceiptType
      <3>2. HandlerTypes' /\ AnswerTypes'
        BY <2>1, AnswerType DEF TInv
      <3> QED
        BY <2>1, <3>1, <3>2, SameLogType DEF TInv, TypeOK
    <2> QED
      BY <1>2, <1>12, <2>1, RefuseType, AnswerFromType DEF Reject
  <1>13. CASE Promote(f)
    BY <1>13, PromoteType
  <1> QED
    BY <1>6, <1>7, <1>8, <1>9, <1>10, <1>11, <1>12, <1>13 DEF Handle

LEMMA TypeStep == IInv /\ TInv /\ [Next]_vars => TInv'
  <1> SUFFICES ASSUME IInv, TInv, [Next]_vars PROVE TInv'
    OBVIOUS
  <1>1. CASE UNCHANGED vars
    BY <1>1 DEF vars, fiberVars, TInv, TypeOK, HasLatest, Batches
  <1>2. ASSUME NEW f \in Fibers, NEW r \in Requests, Send(f, r) PROVE TInv'
    <2>1. r.aggregate \in Aggregates /\ "waiting" \in Stages
      BY RequestType DEF Stages
    <2>2. Append(locks[r.aggregate], f) \in Seq(Fibers)
      BY <2>1 DEF TInv, TypeOK
    <2>3. locks' \in [Aggregates -> Seq(Fibers)]
      BY <1>2, <2>1, <2>2 DEF Send, TInv, TypeOK
    <2>4. HandlerTypes'
      BY <1>2, <2>1, <2>3 DEF Send, Goto, HandlerTypes, TInv, TypeOK
    <2> QED
      BY <1>2, <2>4, SameLogType DEF Send, AnswerTypes, TInv, TypeOK
  <1>3. ASSUME NEW f \in Fibers, Handle(f) PROVE TInv'
    <2>1. pc[f] # "idle"
      BY <1>3 DEF Handle, Enter, Lookup, Plan, Commit, CommitTaken, RecordEmpty, Reject, Promote
    <2> QED
      BY <1>3, <2>1, HandleType DEF IInv, Types, Working
  <1>4. ASSUME NEW f \in Fibers, FailStatement(f) \/ Interrupt(f) PROVE TInv'
    <2>1. Working(f) /\ "error" \in Results
      BY <1>4 DEF FailStatement, Interrupt, IInv, Types, Working, Results
    <2>2. HandlerTypes' /\ AnswerTypes'
      BY <1>4, <2>1, AnswerType, LeaveHandlerTypes
         DEF FailStatement, Interrupt, TInv, TypeOK, AnswerTypes
    <2> QED
      BY <1>4, <2>2, SameLogType DEF FailStatement, Interrupt, Fault, TInv, TypeOK
  <1>5. CASE Crash
    <2>1. HandlerTypes' /\ AnswerTypes'
      BY <1>5 DEF Crash, HandlerTypes, AnswerTypes, TInv, TypeOK, Stages
    <2>2. runQueue' \in [Threads -> {"held", "ready", "started"}]
      BY <1>5 DEF Crash, TInv, TypeOK
    <2> QED
      BY <1>5, <2>1, <2>2, SameLogType DEF Crash, Fault, TInv, TypeOK
  <1> QED
    BY <1>1, <1>2, <1>3, <1>4, <1>5 DEF Next

\* Every variable keeps its type, whatever ids clients reuse and wherever the
\* server fails; the sequence a client is answered with is a number even for a
\* thread that has no events.
THEOREM TypesHold == Spec => []TypeOK
  <1>1. Init => TInv
    BY DEF Init, FibersIdle, TInv, TypeOK, HasLatest, Batches, Stages
  <1>2. TInv => TypeOK
    BY DEF TInv
  <1> QED
    BY <1>1, <1>2, IInvHolds, TypeStep, PTL DEF Spec

-----------------------------------------------------------------------------
(* The lock of an aggregate, and what a plan may rely on under it.         *)

\* Who is at work is in the line of its aggregate, and who is past waiting is
\* the first of it.
InLine ==
    \A f \in Fibers : pc[f] # "idle" =>
        \E i \in 1 .. Len(locks[Aim(f)]) : locks[Aim(f)][i] = f
AtHead ==
    \A f \in Fibers : pc[f] \notin {"idle", "waiting"} =>
        locks[Aim(f)] # <<>> /\ locks[Aim(f)][1] = f

LInv == InLine /\ AtHead /\ PlansAreCurrent

LEMMA FirstInLine ==
    ASSUME TypeOK, InLine, NEW f \in Fibers, Working(f), pc[f] # "idle", Holds(f)
    PROVE  locks[Aim(f)] # <<>> /\ locks[Aim(f)][1] = f
  <1>1. locks[Aim(f)] \in Seq(Fibers)
    BY RequestType DEF Working, Aim, TypeOK
  <1>2. locks[Aim(f)] # <<>>
    BY <1>1 DEF InLine
  <1> QED
    BY <1>1, <1>2 DEF Holds

\* A handler that goes on keeps its place.
LEMMA GoOnLine ==
    ASSUME TypeOK, InLine, AtHead, NEW f \in Fibers, pc[f] # "idle", NEW stage \in Stages,
           Goto(f, stage), UNCHANGED <<locks, request>>,
           locks[Aim(f)] # <<>> /\ locks[Aim(f)][1] = f
    PROVE  InLine' /\ AtHead'
  <1>1. \A g \in Fibers : Aim(g)' = Aim(g) /\ (g # f => pc'[g] = pc[g])
    BY DEF Aim, Goto, TypeOK
  <1> QED
    BY <1>1 DEF InLine, AtHead

\* A handler that ends leaves the others where they are.
LEMMA LeaveLine ==
    ASSUME TypeOK, InLine, AtHead, \A g \in Fibers : pc[g] # "idle" => Working(g),
           NEW f \in Fibers, pc[f] # "idle", Leave(f)
    PROVE  InLine' /\ AtHead'
  <1>1. pc'[f] = "idle"
    BY DEF Leave, Goto, TypeOK
  <1>2. ASSUME NEW g \in Fibers, g # f, pc[g] # "idle"
        PROVE  /\ pc'[g] = pc[g] /\ Aim(g)' = Aim(g)
               /\ \/ locks'[Aim(g)] = locks[Aim(g)]
                  \/ locks'[Aim(g)] = Without(locks[Aim(g)], f)
               /\ locks[Aim(g)] \in Seq(Fibers)
    <2>1. Aim(g) \in Aggregates
      BY <1>2, RequestType DEF Working, Aim
    <2> QED
      BY <1>2, <2>1 DEF Leave, Goto, Aim, TypeOK
  <1>3. ASSUME NEW g \in Fibers, pc'[g] # "idle" PROVE g # f /\ pc[g] # "idle"
    BY <1>1, <1>3 DEF Leave, Goto, TypeOK
  <1>4. InLine'
    <2> SUFFICES ASSUME NEW g \in Fibers, pc'[g] # "idle"
                 PROVE  \E i \in 1 .. Len(locks'[Aim(g)']) : locks'[Aim(g)'][i] = g
      BY DEF InLine
    <2> DEFINE a == Aim(g)
    <2>1. g # f /\ Aim(g)' = a /\ locks[a] \in Seq(Fibers)
      BY <1>2, <1>3
    <2>2. \E i \in 1 .. Len(locks[a]) : locks[a][i] = g
      BY <1>3 DEF InLine
    <2>3. locks'[a] = locks[a] \/ locks'[a] = Without(locks[a], f)
      BY <1>2, <1>3
    <2> HIDE DEF a
    <2>4. Stands(g, Without(locks[a], f))
      <3>1. Stands(g, locks[a])
        BY <2>2 DEF Stands
      <3> QED
        BY <2>1, <3>1, WithoutKeeps
    <2>5. \E i \in 1 .. Len(locks'[a]) : locks'[a][i] = g
      BY <2>2, <2>3, <2>4 DEF Stands
    <2> QED
      BY <2>1, <2>5
  <1>5. AtHead'
    <2> SUFFICES ASSUME NEW g \in Fibers, pc'[g] \notin {"idle", "waiting"}
                 PROVE  locks'[Aim(g)'] # <<>> /\ locks'[Aim(g)'][1] = g
      BY DEF AtHead
    <2> DEFINE a == Aim(g)
    <2>1. g # f /\ Aim(g)' = a /\ locks[a] \in Seq(Fibers)
      BY <1>2, <1>3
    <2>2. locks[a] # <<>> /\ locks[a][1] = g
      BY <1>2, <1>3 DEF AtHead
    <2>3. locks'[a] = locks[a] \/ locks'[a] = Without(locks[a], f)
      BY <1>2, <1>3
    <2> HIDE DEF a
    <2>4. Without(locks[a], f) # <<>> /\ Without(locks[a], f)[1] = g
      <3> DEFINE line == locks[a]
      <3>1. line \in Seq(Fibers) /\ line # <<>> /\ line[1] = g
        BY <2>1, <2>2
      <3> HIDE DEF line
      <3>2. Without(line, f) # <<>> /\ Without(line, f)[1] = g
        BY <2>1, <3>1, WithoutKeepsFirst
      <3> QED
        BY <3>2 DEF line
    <2> QED
      BY <2>1, <2>2, <2>3, <2>4
  <1> QED
    BY <1>4, <1>5

\* What one handler does: it leaves, or it goes on under its lock; it appends
\* only to its own aggregate; and it commits what it has just planned.
HandlerStep(f) ==
    /\ pc[f] # "idle"
    /\ \/ Leave(f)
       \/ /\ \E stage \in Stages \ {"idle", "waiting"} : Goto(f, stage)
          /\ UNCHANGED <<locks, request>>
          /\ pc[f] # "waiting" \/ Holds(f)
    /\ \/ UNCHANGED log
       \/ /\ pc[f] # "waiting"
          /\ \E id \in Commands \cup {System} : log' = Append(log, [id |-> id, aggregate |-> Aim(f)])
    /\ \A g \in Fibers \ {f} : planned'[g] = planned[g]
    /\ pc'[f] = "committing" => planned'[f] = Version(Aim(f)) /\ UNCHANGED <<log, request>>

LEMMA LeaveStep ==
    ASSUME TypeOK, NEW f \in Fibers, pc[f] # "idle", Leave(f),
           \/ UNCHANGED log
           \/ /\ pc[f] # "waiting"
              /\ \E id \in Commands \cup {System} :
                    log' = Append(log, [id |-> id, aggregate |-> Aim(f)])
    PROVE  HandlerStep(f)
  <1>1. pc'[f] = "idle" /\ \A g \in Fibers \ {f} : planned'[g] = planned[g]
    BY DEF Leave, Goto, TypeOK
  <1> QED
    BY <1>1 DEF HandlerStep

LEMMA GoOnStep ==
    ASSUME TypeOK, NEW f \in Fibers, pc[f] # "idle", NEW stage \in Stages \ {"idle", "waiting", "committing"},
           Goto(f, stage), UNCHANGED <<locks, request, planned>>, pc[f] # "waiting" \/ Holds(f),
           \/ UNCHANGED log
           \/ /\ pc[f] # "waiting"
              /\ \E id \in Commands \cup {System} :
                    log' = Append(log, [id |-> id, aggregate |-> Aim(f)])
    PROVE  HandlerStep(f)
  <1>1. pc'[f] = stage
    BY DEF Goto, TypeOK
  <1> QED
    BY <1>1 DEF HandlerStep

LEMMA ReplayStep ==
    ASSUME TypeOK, NEW f \in Fibers, pc[f] \notin {"idle", "waiting"}, NEW receipt,
           Replay(f, receipt)
    PROVE  HandlerStep(f)
  <1>1. "promoting" \in Stages \ {"idle", "waiting", "committing"}
    BY DEF Stages
  <1> QED
    BY <1>1, GoOnStep, LeaveStep DEF Replay, Answer

LEMMA RefuseStep ==
    ASSUME TypeOK, NEW f \in Fibers, pc[f] # "idle", NEW result, Refuse(f, result)
    PROVE  HandlerStep(f)
  BY LeaveStep DEF Refuse, Answer

LEMMA AnswerFromStep ==
    ASSUME TypeOK, NEW f \in Fibers, pc[f] \notin {"idle", "waiting"},
           (\E receipt : AnswerFrom(f, receipt)) \/ AnswerFromProject(f)
    PROVE  HandlerStep(f)
  BY ReplayStep, RefuseStep DEF AnswerFrom, AnswerFromProject

LEMMA HandleIsStep ==
    ASSUME TypeOK, NEW f \in Fibers, Working(f), Handle(f)
    PROVE  HandlerStep(f)
  <1>1. Stages = {"idle", "waiting", "lookup", "planning", "committing", "recording", "rejecting", "promoting"}
    BY DEF Stages
  <1>2. request[f].id \in Commands
    BY RequestType DEF Working
  <1>3. CASE Enter(f)
    BY <1>1, <1>3, GoOnStep DEF Enter
  <1>4. CASE Lookup(f)
    BY <1>1, <1>4, GoOnStep, RefuseStep, ReplayStep DEF Lookup
  <1>5. CASE Plan(f)
    <2>1. planned'[f] = Version(Aim(f)) /\ \A g \in Fibers \ {f} : planned'[g] = planned[g]
      BY <1>5 DEF Plan, TypeOK
    <2> QED
      BY <1>1, <1>5, <2>1 DEF Plan, HandlerStep
  <1>6. CASE Commit(f)
    <2>1. "promoting" \in Stages \ {"idle", "waiting", "committing"}
      BY <1>1
    <2>2. pc[f] = "committing" /\ log' = Append(log, [id |-> request[f].id, aggregate |-> Aim(f)])
      BY <1>6 DEF Commit, Append1
    <2>3. CASE Goto(f, "promoting") /\ UNCHANGED <<locks, request, planned>>
      BY <1>2, <2>1, <2>2, <2>3, GoOnStep
    <2>4. CASE Leave(f)
      BY <1>2, <2>2, <2>4, LeaveStep
    <2> QED
      BY <1>6, <2>3, <2>4 DEF Commit, Answer
  <1>7. CASE CommitTaken(f)
    BY <1>7, RefuseStep, AnswerFromStep DEF CommitTaken
  <1>8. CASE RecordEmpty(f)
    BY <1>8, LeaveStep DEF RecordEmpty, Answer
  <1>9. CASE Reject(f)
    <2>1. CASE Leave(f) /\ UNCHANGED log
      BY <1>9, <2>1, LeaveStep DEF Reject
    <2> QED
      BY <1>9, <2>1, RefuseStep, AnswerFromStep DEF Reject, Answer
  <1>10. CASE Promote(f)
    BY <1>10, LeaveStep DEF Promote, Answer
  <1> QED
    BY <1>3, <1>4, <1>5, <1>6, <1>7, <1>8, <1>9, <1>10 DEF Handle

\* Only the first of a line appends to its aggregate, so a plan of another
\* aggregate has nothing to notice, and of the same there is no other.
LEMMA PlansStep ==
    ASSUME TInv, AtHead, PlansAreCurrent, \A g \in Fibers : pc[g] # "idle" => Working(g),
           NEW f \in Fibers, HandlerStep(f)
    PROVE  PlansAreCurrent'
  <1> SUFFICES ASSUME NEW g \in Fibers, pc'[g] = "committing"
               PROVE  planned'[g] = Version(Aim(g))'
    BY DEF PlansAreCurrent
  <1>1. CASE g = f
    BY <1>1 DEF HandlerStep, Version, Batches, Aim
  <1>2. CASE g # f
    <2>1. pc[g] = "committing" /\ Aim(g)' = Aim(g) /\ planned'[g] = planned[g]
      BY <1>2 DEF HandlerStep, Leave, Goto, Aim, TInv, TypeOK
    <2>2. CASE UNCHANGED log
      BY <2>1, <2>2 DEF PlansAreCurrent, Version, Batches
    <2>3. CASE ~ UNCHANGED log
      <3>1. PICK id \in Commands \cup {System} :
                /\ pc[f] \notin {"idle", "waiting"}
                /\ log' = Append(log, [id |-> id, aggregate |-> Aim(f)])
        BY <2>3 DEF HandlerStep
      <3>2. Aim(f) # Aim(g)
        BY <1>2, <2>1, <3>1 DEF AtHead
      <3>3. Batches(Aim(g))' = Batches(Aim(g))
        <4> DEFINE S == [id : Commands \cup {System}, aggregate : Aggregates]
                   e == [id |-> id, aggregate |-> Aim(f)]
        <4>1. log \in Seq(S)
          BY DEF TInv, TypeOK
        <4>2. e.aggregate = Aim(f)
          OBVIOUS
        <4> HIDE DEF S, e
        <4>3. /\ Len(log) \in Nat /\ DOMAIN log = 1 .. Len(log)
              /\ DOMAIN log' = 1 .. (Len(log) + 1)
              /\ \A i \in 1 .. Len(log) : log'[i] = log[i]
              /\ log'[Len(log) + 1] = e
          BY <3>1, <4>1 DEF e
        <4> QED
          BY <2>1, <3>2, <4>2, <4>3 DEF Batches
      <3> QED
        BY <2>1, <3>3 DEF PlansAreCurrent, Version
    <2> QED
      BY <2>2, <2>3
  <1> QED
    BY <1>1, <1>2

LEMMA HandlerLInv ==
    ASSUME TInv, LInv, \A g \in Fibers : pc[g] # "idle" => Working(g),
           NEW f \in Fibers, HandlerStep(f)
    PROVE  LInv'
  <1>1. pc[f] # "idle" /\ Working(f)
    BY DEF HandlerStep
  <1>2. CASE Leave(f)
    BY <1>1, <1>2, LeaveLine, PlansStep DEF TInv, LInv
  <1>3. CASE ~ Leave(f)
    <2>1. PICK stage \in Stages : Goto(f, stage)
      BY <1>3 DEF HandlerStep
    <2>2. UNCHANGED <<locks, request>> /\ (pc[f] # "waiting" \/ Holds(f))
      BY <1>3 DEF HandlerStep
    <2>3. locks[Aim(f)] # <<>> /\ locks[Aim(f)][1] = f
      BY <1>1, <2>2, FirstInLine DEF LInv, AtHead, TInv
    <2> QED
      BY <1>1, <2>1, <2>2, <2>3, GoOnLine, PlansStep DEF TInv, LInv
  <1> QED
    BY <1>2, <1>3

LEMMA LockStep == IInv /\ TInv /\ LInv /\ [Next]_vars => LInv'
  <1> SUFFICES ASSUME IInv, TInv, LInv, [Next]_vars PROVE LInv'
    OBVIOUS
  <1>0. \A g \in Fibers : pc[g] # "idle" => Working(g)
    BY DEF IInv, Types, Working
  <1>1. CASE UNCHANGED vars
    BY <1>1 DEF vars, fiberVars, LInv, InLine, AtHead, PlansAreCurrent, Aim, Version, Batches
  <1>2. ASSUME NEW f \in Fibers, NEW r \in Requests, Send(f, r) PROVE LInv'
    <2>1. r.aggregate \in Aggregates
      BY RequestType
    <2>2. locks[r.aggregate] \in Seq(Fibers)
      BY <2>1 DEF TInv, TypeOK
    <2> DEFINE line == locks[r.aggregate]
    <2>3. /\ Len(line) \in Nat /\ Len(Append(line, f)) = Len(line) + 1
          /\ \A i \in 1 .. Len(line) : Append(line, f)[i] = line[i]
          /\ Append(line, f)[Len(line) + 1] = f
          /\ Append(line, f) # <<>> /\ (line # <<>> => 1 \in 1 .. Len(line))
      BY <2>2
    <2>4. /\ pc'[f] = "waiting" /\ Aim(f)' = r.aggregate
          /\ locks'[r.aggregate] = Append(line, f)
          /\ \A g \in Fibers \ {f} : pc'[g] = pc[g] /\ Aim(g)' = Aim(g)
          /\ \A a \in Aggregates \ {r.aggregate} : locks'[a] = locks[a]
      BY <1>2, <2>1 DEF Send, Goto, Aim, TInv, TypeOK
    <2> HIDE DEF line
    <2>5. InLine'
      <3> SUFFICES ASSUME NEW g \in Fibers, pc'[g] # "idle"
                   PROVE  \E i \in 1 .. Len(locks'[Aim(g)']) : locks'[Aim(g)'][i] = g
        BY DEF InLine
      <3>1. CASE g = f
        BY <2>3, <2>4, <3>1
      <3>2. CASE g # f
        <4>1. PICK i \in 1 .. Len(locks[Aim(g)]) : locks[Aim(g)][i] = g
          BY <2>4, <3>2 DEF LInv, InLine
        <4>2. CASE Aim(g) = r.aggregate
          BY <2>3, <2>4, <3>2, <4>1, <4>2 DEF line
        <4>3. CASE Aim(g) # r.aggregate
          <5>1. Aim(g) \in Aggregates
            BY <1>0, <2>4, <3>2, RequestType DEF Working, Aim
          <5> QED
            BY <2>4, <3>2, <4>1, <4>3, <5>1
        <4> QED
          BY <4>2, <4>3
      <3> QED
        BY <3>1, <3>2
    <2>6. AtHead'
      <3> SUFFICES ASSUME NEW g \in Fibers, pc'[g] \notin {"idle", "waiting"}
                   PROVE  locks'[Aim(g)'] # <<>> /\ locks'[Aim(g)'][1] = g
        BY DEF AtHead
      <3>1. g # f /\ locks[Aim(g)] # <<>> /\ locks[Aim(g)][1] = g /\ Aim(g) \in Aggregates
        BY <1>0, <2>4, RequestType DEF LInv, AtHead, Working, Aim
      <3>2. CASE Aim(g) = r.aggregate
        BY <2>3, <2>4, <3>1, <3>2 DEF line
      <3>3. CASE Aim(g) # r.aggregate
        BY <2>4, <3>1, <3>3
      <3> QED
        BY <3>2, <3>3
    <2>7. PlansAreCurrent'
      <3>1. UNCHANGED <<log, planned>>
        BY <1>2 DEF Send
      <3> QED
        BY <2>4, <3>1 DEF LInv, PlansAreCurrent, Version, Batches
    <2> QED
      BY <2>5, <2>6, <2>7 DEF LInv
  <1>3. ASSUME NEW f \in Fibers, Handle(f) PROVE LInv'
    <2>1. pc[f] # "idle"
      BY <1>3 DEF Handle, Enter, Lookup, Plan, Commit, CommitTaken, RecordEmpty, Reject, Promote
    <2> QED
      BY <1>0, <1>3, <2>1, HandleIsStep, HandlerLInv DEF TInv
  <1>4. ASSUME NEW f \in Fibers, FailStatement(f) \/ Interrupt(f) PROVE LInv'
    <2>1. pc[f] # "idle" /\ Leave(f) /\ UNCHANGED log
      BY <1>4 DEF FailStatement, Interrupt, Answer
    <2> QED
      BY <1>0, <2>1, LeaveStep, HandlerLInv DEF TInv
  <1>5. CASE Crash
    BY <1>5 DEF Crash, LInv, InLine, AtHead, PlansAreCurrent
  <1> QED
    BY <1>1, <1>2, <1>3, <1>4, <1>5 DEF Next

\* From the moment a command is planned until it commits, no other command of
\* its thread or project commits, and no queued run of it is started: whoever
\* appends to an aggregate is the first in its line, and that is one fiber.
THEOREM PlansStayCurrent == Spec => []PlansAreCurrent
  <1>1. Init => TInv /\ LInv
    BY DEF Init, FibersIdle, TInv, TypeOK, HasLatest, Batches, Stages,
           LInv, InLine, AtHead, PlansAreCurrent
  <1>2. LInv => PlansAreCurrent
    BY DEF LInv
  <1> QED
    BY <1>1, <1>2, IInvHolds, TypeStep, LockStep, PTL DEF Spec

-----------------------------------------------------------------------------
(* The lines of fibers are a FifoLock.                                     *)

\* A line has each fiber once, and only fibers at work on its aggregate.
Queued ==
    \A a \in Aggregates :
        /\ Distinct(locks[a])
        /\ \A g \in Fibers : Stands(g, locks[a]) => pc[g] # "idle" /\ Aim(g) = a

Inside == {f \in Fibers : pc[f] \notin {"idle", "waiting"}}

\* The fibers at work have something to do, in a line they stand in.
AtWork ==
    \A g \in Fibers : pc[g] # "idle" =>
        Aim(g) \in Aggregates /\ Stands(g, locks[Aim(g)])

LEMMA LInvAtWork == IInv /\ LInv => AtWork
  <1> SUFFICES ASSUME IInv, LInv PROVE AtWork
    OBVIOUS
  <1>1. \A g \in Fibers : pc[g] # "idle" => Aim(g) \in Aggregates
    BY RequestType DEF IInv, Types, Aim
  <1> QED
    BY <1>1 DEF AtWork, LInv, InLine, Stands

\* A new request goes to the end of its line.
LEMMA SendJoins ==
    ASSUME TypeOK, Queued, NEW f \in Fibers, NEW r \in Requests, Send(f, r)
    PROVE  Lock!LockNext /\ Queued'
  <1> DEFINE line == locks[r.aggregate]
  <1>1. r.aggregate \in Aggregates /\ line \in Seq(Fibers) /\ pc[f] = "idle"
    BY RequestType DEF TypeOK, Send
  <1>2. /\ pc'[f] = "waiting" /\ Aim(f)' = r.aggregate
        /\ locks' = [locks EXCEPT ![r.aggregate] = Append(line, f)]
        /\ \A g \in Fibers \ {f} : pc'[g] = pc[g] /\ Aim(g)' = Aim(g)
        /\ \A a \in Aggregates \ {r.aggregate} : locks'[a] = locks[a]
        /\ locks'[r.aggregate] = Append(line, f)
    BY <1>1 DEF Send, Goto, Aim, TypeOK
  <1>3. \A a \in Aggregates : ~ Stands(f, locks[a])
    BY <1>1 DEF Queued
  <1>4. Inside' = Inside
    BY <1>1, <1>2 DEF Inside
  <1>5. Lock!Join(f, r.aggregate)
    <2>1. \A a \in Aggregates : DOMAIN locks[a] = 1 .. Len(locks[a])
      BY DEF TypeOK
    <2>2. \A a \in Aggregates : \A i \in DOMAIN locks[a] : locks[a][i] # f
      BY <1>3, <2>1 DEF Stands
    <2> QED
      BY <1>2, <1>4, <2>2 DEF Lock!Join, Inside
  <1> HIDE DEF line
  <1>6. /\ Len(line) \in Nat /\ Len(Append(line, f)) = Len(line) + 1
        /\ \A i \in 1 .. Len(line) : Append(line, f)[i] = line[i]
        /\ Append(line, f)[Len(line) + 1] = f
    BY <1>1
  <1>7. /\ Distinct(Append(line, f))
        /\ \A g : Stands(g, Append(line, f)) => g = f \/ Stands(g, line)
    <2>1. ~ Stands(f, line) /\ Distinct(line)
      BY <1>1, <1>3 DEF Queued, line
    <2> QED
      BY <1>6, <2>1 DEF Distinct, Stands
  <1>8. Queued'
    <2> SUFFICES ASSUME NEW a \in Aggregates
                 PROVE  /\ Distinct(locks'[a])
                        /\ \A g \in Fibers : Stands(g, locks'[a]) => pc'[g] # "idle" /\ Aim(g)' = a
      BY DEF Queued
    <2>1. CASE a = r.aggregate
      BY <1>2, <1>7, <2>1 DEF Queued, line
    <2>2. CASE a # r.aggregate
      <3>1. locks'[a] = locks[a]
        BY <1>2, <2>2
      <3> QED
        BY <1>2, <1>3, <3>1 DEF Queued
    <2> QED
      BY <2>1, <2>2
  <1> QED
    BY <1>1, <1>5, <1>8 DEF Lock!LockNext

\* Whoever ends leaves its line.
LEMMA LeaveLeaves ==
    ASSUME TypeOK, Queued, AtWork, NEW f \in Fibers, pc[f] # "idle", Leave(f)
    PROVE  Lock!LockNext /\ Queued'
  <1> PICK a0 \in Aggregates : a0 = Aim(f)
    BY DEF AtWork
  <1>1. a0 \in Aggregates /\ Stands(f, locks[a0]) /\ locks[a0] \in Seq(Fibers)
    BY DEF AtWork, TypeOK
  <1>2. /\ pc'[f] = "idle" /\ locks' = [locks EXCEPT ![a0] = Without(@, f)]
        /\ locks'[a0] = Without(locks[a0], f)
        /\ \A a \in Aggregates \ {a0} : locks'[a] = locks[a]
        /\ \A g \in Fibers \ {f} : pc'[g] = pc[g] /\ Aim(g)' = Aim(g)
    BY <1>1 DEF Leave, Goto, Aim, TypeOK
  <1>3. Inside' = Inside \ {f}
    BY <1>2 DEF Inside
  <1>4. Lock!Leave(f, a0)
    <2>1. \E i \in DOMAIN locks[a0] : locks[a0][i] = f
      <3>1. DOMAIN locks[a0] = 1 .. Len(locks[a0])
        BY <1>1
      <3> QED
        BY <1>1, <3>1 DEF Stands
    <2>2. Lock!Without(locks[a0], f) = Without(locks[a0], f)
      BY DEF Lock!Without, Without
    <2> QED
      BY <1>2, <1>3, <2>1, <2>2 DEF Lock!Leave, Inside
  <1>5. Queued'
    <2> SUFFICES ASSUME NEW a \in Aggregates
                 PROVE  /\ Distinct(locks'[a])
                        /\ \A g \in Fibers : Stands(g, locks'[a]) => pc'[g] # "idle" /\ Aim(g)' = a
      BY DEF Queued
    <2>1. /\ Distinct(locks[a])
          /\ \A g \in Fibers : Stands(g, locks[a]) => pc[g] # "idle" /\ Aim(g) = a
      BY DEF Queued
    <2>2. CASE a = a0
      <3>1. /\ Distinct(Without(locks[a], f)) /\ ~ Stands(f, Without(locks[a], f))
            /\ \A g : Stands(g, Without(locks[a], f)) => Stands(g, locks[a])
        BY <1>1, <2>1, <2>2, WithoutLeaves
      <3>2. locks'[a] = Without(locks[a], f)
        BY <1>2, <2>2
      <3> QED
        BY <1>2, <2>1, <3>1, <3>2
    <2>3. CASE a # a0
      <3>1. locks'[a] = locks[a] /\ ~ Stands(f, locks[a])
        BY <1>2, <2>1, <2>3
      <3> QED
        BY <1>2, <2>1, <3>1
    <2> QED
      BY <2>2, <2>3
  <1> QED
    BY <1>4, <1>5 DEF Lock!LockNext

\* Whoever goes on is the first of its line, and inside.
LEMMA GoOnEnters ==
    ASSUME TypeOK, Queued, AtWork, NEW f \in Fibers, pc[f] # "idle",
           NEW stage \in Stages \ {"idle", "waiting"}, Goto(f, stage), UNCHANGED <<locks, request>>,
           locks[Aim(f)] # <<>> /\ locks[Aim(f)][1] = f
    PROVE  Lock!LockNext /\ Queued'
  <1> PICK a \in Aggregates : a = Aim(f)
    BY DEF AtWork
  <1>1. pc'[f] = stage /\ \A g \in Fibers : Aim(g)' = Aim(g) /\ (g # f => pc'[g] = pc[g])
    BY DEF Goto, Aim, TypeOK
  <1>2. Inside' = Inside \cup {f}
    BY <1>1 DEF Inside
  <1>3. locks[a] \in Seq(Fibers)
    BY DEF TypeOK
  <1>4. Head(locks[a]) = f
    BY <1>3
  <1>5. Lock!Enter(f, a)
    BY <1>2, <1>4 DEF Lock!Enter, Inside
  <1>6. Queued'
    BY <1>1 DEF Queued
  <1> QED
    BY <1>5, <1>6 DEF Lock!LockNext

LEMMA FifoStep ==
    IInv /\ TInv /\ LInv /\ Queued /\ [Next]_vars => [Lock!LockNext]_<<locks, Inside>> /\ Queued'
  <1> SUFFICES ASSUME IInv, TInv, LInv, Queued, [Next]_vars
               PROVE  (Lock!LockNext \/ UNCHANGED <<locks, Inside>>) /\ Queued'
    OBVIOUS
  <1>0. /\ TypeOK /\ AtWork /\ InLine /\ AtHead
        /\ \A g \in Fibers : pc[g] # "idle" => Working(g)
    BY LInvAtWork DEF TInv, LInv, IInv, Types, Working
  <1>1. CASE UNCHANGED vars
    BY <1>1 DEF vars, fiberVars, Queued, Aim, Inside
  <1>2. ASSUME NEW f \in Fibers, NEW r \in Requests, Send(f, r) PROVE Lock!LockNext /\ Queued'
    BY <1>0, <1>2, SendJoins
  <1>3. ASSUME NEW f \in Fibers, Handle(f) PROVE Lock!LockNext /\ Queued'
    <2>1. pc[f] # "idle"
      BY <1>3 DEF Handle, Enter, Lookup, Plan, Commit, CommitTaken, RecordEmpty, Reject, Promote
    <2>2. HandlerStep(f)
      BY <1>0, <1>3, <2>1, HandleIsStep
    <2>3. CASE Leave(f)
      BY <1>0, <2>1, <2>3, LeaveLeaves
    <2>4. CASE ~ Leave(f)
      <3>1. PICK stage \in Stages \ {"idle", "waiting"} : Goto(f, stage)
        BY <2>2, <2>4 DEF HandlerStep
      <3>2. UNCHANGED <<locks, request>> /\ (pc[f] # "waiting" \/ Holds(f))
        BY <2>2, <2>4 DEF HandlerStep
      <3>3. locks[Aim(f)] # <<>> /\ locks[Aim(f)][1] = f
        BY <1>0, <2>1, <3>2, FirstInLine DEF AtHead
      <3> QED
        BY <1>0, <2>1, <3>1, <3>2, <3>3, GoOnEnters
    <2> QED
      BY <2>3, <2>4
  <1>4. ASSUME NEW f \in Fibers, FailStatement(f) \/ Interrupt(f) PROVE Lock!LockNext /\ Queued'
    <2>1. pc[f] # "idle" /\ Leave(f)
      BY <1>4 DEF FailStatement, Interrupt, Answer
    <2> QED
      BY <1>0, <2>1, LeaveLeaves
  <1>5. CASE Crash
    <2>1. /\ locks' = [a \in Aggregates |-> <<>>]
          /\ \A f \in Fibers : pc'[f] = "idle"
      BY <1>5 DEF Crash
    <2>2. Inside' = {}
      BY <2>1 DEF Inside
    <2>3. Lock!Restart
      BY <2>1, <2>2 DEF Lock!Restart, Inside
    <2>4. Queued'
      BY <2>1 DEF Queued, Distinct, Stands
    <2> QED
      BY <2>3, <2>4 DEF Lock!LockNext
  <1> QED
    BY <1>1, <1>2, <1>3, <1>4, <1>5 DEF Next

\* Requests of one thread or project are served in the order they came, one at
\* a time, through failures, interruptions and restarts.
THEOREM LinesAreFifoLocks == Spec => KeepsToTheLock
  <1>1. Init => TInv /\ LInv /\ Queued
    BY DEF Init, FibersIdle, TInv, TypeOK, HasLatest, Batches, Stages,
           LInv, InLine, AtHead, PlansAreCurrent, Queued, Distinct, Stands
  <1>2. Init => Lock!LockInit
    BY DEF Init, FibersIdle, Lock!LockInit
  <1>3. Spec => [](IInv /\ TInv /\ LInv /\ Queued)
    BY <1>1, IInvHolds, TypeStep, LockStep, FifoStep, PTL DEF Spec
  <1>4. IInv /\ TInv /\ LInv /\ Queued /\ [Next]_vars
            => [Lock!LockNext]_<<locks, {f \in Fibers : pc[f] \notin {"idle", "waiting"}}>>
    BY FifoStep DEF Inside
  <1> QED
    BY <1>2, <1>3, <1>4, PTL DEF Spec, KeepsToTheLock, Lock!LockSpec

-----------------------------------------------------------------------------
(* Receipts.                                                               *)

\* Every committed event has an accepted receipt that names its aggregate and
\* its sequence, whatever requests share their ids and wherever a handler or
\* the server fails: a receipt is only ever written where there is none.
THEOREM ReceiptsMatch == Spec => []ReceiptsMatchTheLog
  <1>1. IInv => ReceiptsMatchTheLog
    BY DEF IInv
  <1> QED
    BY <1>1, IInvHolds, PTL

\* So no command commits its events twice: two would share one receipt, which
\* holds one sequence.
THEOREM CommandsCommitOnce == Spec => []CommittedOnce
  <1>1. IInv => CommittedOnce
    <2> SUFFICES ASSUME IInv, NEW i \in DOMAIN log, NEW j \in DOMAIN log,
                        log[i].id = log[j].id, log[i].id # System
                 PROVE  i = j
      BY DEF CommittedOnce
    <2>1. /\ receipts[log[i].id].sequence = i
          /\ receipts[log[j].id].sequence = j
      BY EventReceipt
    <2> QED
      BY <2>1
  <1> QED
    BY <1>1, IInvHolds, PTL

-----------------------------------------------------------------------------
(* Answers.                                                                *)

\* The ids of commands that may find nothing to record are aimed at one thread.
SettlesAreOwn ==
    \A r, q \in Requests : r.kind = "settle" /\ q.id = r.id => q.aggregate = r.aggregate

Final == {"ok", "rejected", "failed"}

\* A receipt is that of a request.
WrittenFor ==
    \A c \in Commands : receipts[c] # NoReceipt =>
        \E r \in Requests : r.id = c /\ r.aggregate = receipts[c].aggregate

\* What the receipt of its id has to do with an answer.
Said(a) ==
    /\ a.result \in Final => receipts[a.request.id] # NoReceipt
    /\ a.result = "ok" =>
          /\ receipts[a.request.id].status = "accepted"
          /\ receipts[a.request.id].sequence = a.sequence
          /\ a.request.kind # "project" => receipts[a.request.id].aggregate \in Threads
    /\ a.result = "rejected" => receipts[a.request.id].status = "rejected" /\ a.sequence = 0
    /\ a.result = "failed" =>
          /\ a.request.kind # "project" /\ a.sequence = 0
          /\ receipts[a.request.id].status = "accepted" =>
                receipts[a.request.id].aggregate # a.request.aggregate

\* A handler that found no receipt of its thread, and has not answered.
Undecided == {"planning", "committing", "recording", "rejecting"}

\* What a handler may rely on: only work on another thread or project can have
\* taken its id, and what was answered to its request before fits its answer.
Doing(f) ==
    /\ pc[f] = "recording" => request[f].kind = "settle"
    /\ pc[f] \in Undecided /\ request[f].kind # "project" =>
          /\ OwnReceipt(f) # NoReceipt => OwnReceipt(f).aggregate # Aim(f)
          /\ \A a \in answers : a.request = request[f] /\ a.result \in Final =>
                OwnReceipt(f).aggregate \in Projects
    /\ pc[f] = "promoting" =>
          /\ request[f].kind = "resume"
          /\ OwnReceipt(f).status = "accepted" /\ OwnReceipt(f).sequence = sequence[f]
          /\ OwnReceipt(f).aggregate \in Threads
          /\ \A a \in answers : a.request = request[f] => a.result # "failed"

NeverBoth ==
    \A a, b \in answers : a.request = b.request /\ a.result = "ok" => b.result # "failed"

AInv ==
    /\ WrittenFor
    /\ \A a \in answers : Said(a)
    /\ NeverBoth
    /\ \A f \in Fibers : Doing(f)

\* A handler writes a receipt only where there is none.
Writes(f) ==
    \/ UNCHANGED receipts
    \/ /\ Reserved(f) /\ pc[f] # "waiting"
       /\ \E status \in {"accepted", "rejected"}, n \in Nat : SetReceipt(f, status, n)

OthersStay(f) ==
    \A g \in Fibers \ {f} :
        pc'[g] = pc[g] /\ request'[g] = request[g] /\ sequence'[g] = sequence[g]

LEMMA ReceiptsStay ==
    ASSUME TypeOK, NEW f \in Fibers, Writes(f), NEW c \in Commands, receipts[c] # NoReceipt
    PROVE  receipts'[c] = receipts[c]
  BY DEF Writes, SetReceipt, Reserved, OwnReceipt, TypeOK

LEMMA WritesOwn ==
    ASSUME TypeOK, NEW f \in Fibers, Working(f), Writes(f), NEW c \in Commands,
           receipts'[c] # receipts[c]
    PROVE  c = request[f].id /\ receipts'[c].aggregate = Aim(f) /\ pc[f] # "waiting"
  <1>1. PICK status \in {"accepted", "rejected"}, n \in Nat : SetReceipt(f, status, n)
    BY DEF Writes
  <1>2. request[f].id \in Commands
    BY RequestType DEF Working
  <1> QED
    BY <1>1, <1>2 DEF Writes, SetReceipt, TypeOK

\* Two handlers past waiting are aimed at different threads or projects.
LEMMA HeadsDiffer ==
    ASSUME AtHead, NEW f \in Fibers, NEW g \in Fibers \ {f},
           pc[f] \notin {"idle", "waiting"}, pc[g] \notin {"idle", "waiting"}
    PROVE  Aim(f) # Aim(g)
  BY DEF AtHead

LEMMA SaidStays ==
    ASSUME TypeOK, NEW f \in Fibers, Writes(f), NEW a \in answers, Said(a)
    PROVE  Said(a)'
  <1>1. a.request.id \in Commands
    <2>1. a.request \in Requests
      BY DEF TypeOK
    <2> QED
      BY <2>1, RequestType
  <1>2. a.result \in Final => receipts'[a.request.id] = receipts[a.request.id]
    BY <1>1, ReceiptsStay DEF Said
  <1> QED
    BY <1>2 DEF Said, Final

LEMMA DoingStays ==
    ASSUME TInv, AInv, AtHead, \A g \in Fibers : pc[g] # "idle" => Working(g),
           NEW f \in Fibers, Working(f), pc[f] # "idle", Writes(f), OthersStay(f),
           \A a \in answers' \ answers : a.request = request[f] /\ pc[f] # "waiting",
           NEW g \in Fibers \ {f}
    PROVE  Doing(g)'
  <1>1. pc'[g] = pc[g] /\ request'[g] = request[g] /\ sequence'[g] = sequence[g]
        /\ Aim(g)' = Aim(g) /\ OwnReceipt(g)' = receipts'[request[g].id]
    BY DEF OthersStay, Aim, OwnReceipt
  <1>2. TypeOK /\ Doing(g)
    BY DEF TInv, AInv
  <1>3. CASE pc[g] \in {"idle", "waiting", "lookup"}
    BY <1>1, <1>3 DEF Doing, Undecided
  <1>4. CASE pc[g] \notin {"idle", "waiting", "lookup"}
    <2>1. request[g] \in Requests /\ request[g].id \in Commands
      BY <1>4, RequestType DEF Working
    <2>2. pc[f] # "waiting" => Aim(f) # Aim(g)
      BY <1>4, HeadsDiffer
    <2>3. \A a \in answers' : a.request = request[g] => a \in answers
      BY <2>2 DEF Aim
    <2>4. OwnReceipt(g) # NoReceipt => receipts'[request[g].id] = OwnReceipt(g)
      BY <1>2, <2>1, ReceiptsStay DEF OwnReceipt
    <2>5. receipts'[request[g].id] = OwnReceipt(g) \/ receipts'[request[g].id].aggregate # Aim(g)
      <3>1. receipts'[request[g].id] # receipts[request[g].id]
               => receipts'[request[g].id].aggregate = Aim(f) /\ pc[f] # "waiting"
        BY <1>2, <2>1, WritesOwn
      <3> QED
        BY <2>2, <3>1 DEF OwnReceipt
    <2>6. ASSUME NEW a \in answers, a.request = request[g], a.result \in Final
          PROVE  OwnReceipt(g) # NoReceipt
      BY <2>6 DEF AInv, Said, OwnReceipt
    <2>7. pc[g] = "promoting" => OwnReceipt(g) # NoReceipt
      BY <1>2 DEF Doing, NoReceipt
    <2>8. pc[g] = "recording" => request[g].kind = "settle"
      BY <1>2 DEF Doing
    <2>9. ASSUME pc[g] \in Undecided, request[g].kind # "project"
          PROVE  /\ OwnReceipt(g)' # NoReceipt => OwnReceipt(g)'.aggregate # Aim(g)
                 /\ \A a \in answers' : a.request = request[g] /\ a.result \in Final =>
                       OwnReceipt(g)'.aggregate \in Projects
      BY <1>1, <1>2, <2>3, <2>4, <2>5, <2>6, <2>9 DEF Doing
    <2>10. ASSUME pc[g] = "promoting"
           PROVE  /\ request[g].kind = "resume"
                  /\ OwnReceipt(g)'.status = "accepted" /\ OwnReceipt(g)'.sequence = sequence[g]
                  /\ OwnReceipt(g)'.aggregate \in Threads
                  /\ \A a \in answers' : a.request = request[g] => a.result # "failed"
      BY <1>1, <1>2, <2>3, <2>4, <2>7, <2>10 DEF Doing
    <2> QED
      BY <1>1, <2>8, <2>9, <2>10 DEF Doing, NoReceipt
  <1> QED
    BY <1>3, <1>4

LEMMA WrittenStep ==
    ASSUME TypeOK, WrittenFor, NEW f \in Fibers, Working(f), Writes(f)
    PROVE  WrittenFor'
  <1> SUFFICES ASSUME NEW c \in Commands, receipts'[c] # NoReceipt
               PROVE  \E r \in Requests : r.id = c /\ r.aggregate = receipts'[c].aggregate
    BY DEF WrittenFor, NoReceipt
  <1>1. CASE receipts'[c] = receipts[c]
    BY <1>1 DEF WrittenFor
  <1>2. CASE receipts'[c] # receipts[c]
    <2>1. c = request[f].id /\ receipts'[c].aggregate = Aim(f)
      BY <1>2, WritesOwn
    <2> QED
      BY <2>1 DEF Working, Aim
  <1> QED
    BY <1>1, <1>2

\* A handler that goes on, or ends without an answer.
LEMMA QuietAnswers ==
    ASSUME TInv, AInv, AtHead, \A g \in Fibers : pc[g] # "idle" => Working(g),
           NEW f \in Fibers, Working(f), pc[f] # "idle", Writes(f), OthersStay(f),
           UNCHANGED answers, Doing(f)'
    PROVE  AInv'
  <1>1. WrittenFor'
    BY WrittenStep DEF TInv, AInv
  <1>2. \A a \in answers : Said(a)'
    BY SaidStays DEF TInv, AInv
  <1>3. NeverBoth'
    BY DEF AInv, NeverBoth
  <1>4. \A g \in Fibers \ {f} : Doing(g)'
    BY DoingStays
  <1> QED
    BY <1>1, <1>2, <1>3, <1>4 DEF AInv

\* A handler that answers: what it says fits the receipt and the answers before.
LEMMA OneMoreAnswer ==
    ASSUME TInv, AInv, AtHead, \A g \in Fibers : pc[g] # "idle" => Working(g),
           NEW f \in Fibers, Working(f), pc[f] \notin {"idle", "waiting"},
           Writes(f), OthersStay(f), pc'[f] = "idle",
           NEW x, x.request = request[f], answers' = answers \cup {x}, Said(x)',
           x.result = "ok" =>
              \A a \in answers : a.request = request[f] => a.result # "failed",
           x.result = "failed" =>
              \A a \in answers : a.request = request[f] => a.result # "ok"
    PROVE  AInv'
  <1>1. WrittenFor'
    BY WrittenStep DEF TInv, AInv
  <1>2. \A a \in answers : Said(a)'
    BY SaidStays DEF TInv, AInv
  <1>3. NeverBoth'
    BY DEF AInv, NeverBoth
  <1>4. \A g \in Fibers \ {f} : Doing(g)'
    BY DoingStays
  <1>5. Doing(f)'
    BY DEF Doing, Undecided
  <1> QED
    BY <1>1, <1>2, <1>3, <1>4, <1>5 DEF AInv

\* What a handler does to its own fields when it ends.
LEMMA LeaveStays ==
    ASSUME TypeOK, NEW f \in Fibers, Leave(f)
    PROVE  OthersStay(f) /\ pc'[f] = "idle"
  BY DEF Leave, Goto, OthersStay, TypeOK

LEMMA GotoStays ==
    ASSUME TypeOK, NEW f \in Fibers, NEW stage \in Stages, Goto(f, stage), UNCHANGED request,
           sequence' = sequence \/ \E n \in Nat : sequence' = [sequence EXCEPT ![f] = n]
    PROVE  OthersStay(f) /\ pc'[f] = stage
  BY DEF Goto, OthersStay, TypeOK

\* The answer of a handler, with what a lemma about it has to show.
LEMMA AnswerFits ==
    ASSUME TInv, AInv, AtHead, \A g \in Fibers : pc[g] # "idle" => Working(g),
           NEW f \in Fibers, Working(f), pc[f] \notin {"idle", "waiting"}, Writes(f),
           NEW result, NEW n, Answer(f, result, n),
           NEW receipt, receipt = receipts'[request[f].id],
           result \in Final => receipt # NoReceipt,
           result = "ok" =>
              /\ receipt.status = "accepted" /\ receipt.sequence = n
              /\ request[f].kind # "project" => receipt.aggregate \in Threads
              /\ \A a \in answers : a.request = request[f] => a.result # "failed",
           result = "rejected" => receipt.status = "rejected" /\ n = 0,
           result = "failed" =>
              /\ request[f].kind # "project" /\ n = 0
              /\ receipt.status = "accepted" => receipt.aggregate # Aim(f)
              /\ \A a \in answers : a.request = request[f] => a.result # "ok"
    PROVE  AInv'
  <1>1. PICK x : x = [request |-> request[f], result |-> result, sequence |-> n]
    OBVIOUS
  <1>2. x.request = request[f] /\ x.result = result /\ x.sequence = n
    BY <1>1
  <1>3. Said(x)'
    BY <1>2 DEF Said, Aim, NoReceipt
  <1>4. answers' = answers \cup {x} /\ Leave(f)
    BY <1>1 DEF Answer
  <1>5. OthersStay(f) /\ pc'[f] = "idle"
    BY <1>4, LeaveStays DEF TInv
  <1> QED
    BY <1>2, <1>3, <1>4, <1>5, OneMoreAnswer

\* What the proofs of the steps share.
AtIt(f) ==
    /\ TInv /\ AInv /\ AtHead /\ \A g \in Fibers : pc[g] # "idle" => Working(g)
    /\ Working(f) /\ pc[f] \notin {"idle", "waiting"}

\* An answer that is not final.
LEMMA ErrorFits ==
    ASSUME NEW f \in Fibers, AtIt(f), UNCHANGED receipts,
           NEW result \in {"conflict", "error"}, NEW n, Answer(f, result, n)
    PROVE  AInv'
  <1>1. result \notin Final /\ Writes(f) /\ result \notin {"ok", "rejected", "failed"}
    BY DEF Final, Writes
  <1> QED
    BY <1>1, AnswerFits DEF AtIt

\* A receipt that says rejected answers so.
LEMMA RejectedFits ==
    ASSUME NEW f \in Fibers, AtIt(f), Writes(f), receipts'[request[f].id].status = "rejected",
           Answer(f, "rejected", 0)
    PROVE  AInv'
  <1>1. receipts'[request[f].id] # NoReceipt
    BY DEF NoReceipt
  <1> QED
    BY <1>1, AnswerFits DEF AtIt

\* Kinds are aimed as they should be.
LEMMA KindAim ==
    ASSUME NEW f \in Fibers, Working(f)
    PROVE  /\ request[f].kind = "project" => Aim(f) \in Projects
           /\ request[f].kind # "project" => Aim(f) \in Threads /\ Aim(f) \notin Projects
           /\ request[f].id \in Commands
  BY RequestType DEF Working, Aim, Aggregates

\* A replay of an accepted receipt, where no failure was told before.
LEMMA ReplayFits ==
    ASSUME NEW f \in Fibers, AtIt(f), NEW receipt, receipt = receipts[request[f].id],
           receipt.status = "accepted", receipt.sequence \in Nat, Replay(f, receipt),
           request[f].kind # "project" => receipt.aggregate \in Threads,
           \A a \in answers : a.request = request[f] => a.result # "failed"
    PROVE  AInv'
  <1>1. Writes(f) /\ receipts' = receipts /\ receipt # NoReceipt
    BY DEF Replay, Writes, NoReceipt
  <1>2. CASE request[f].kind # "resume"
    <2>1. Answer(f, "ok", receipt.sequence)
      BY <1>2 DEF Replay
    <2> QED
      BY <1>1, <2>1, AnswerFits DEF AtIt
  <1>3. CASE request[f].kind = "resume"
    <2>1. /\ Goto(f, "promoting") /\ sequence' = [sequence EXCEPT ![f] = receipt.sequence]
          /\ UNCHANGED <<request, answers>>
      BY <1>3 DEF Replay
    <2>2. "promoting" \in Stages
      BY DEF Stages
    <2>3. OthersStay(f) /\ pc'[f] = "promoting"
      BY <2>1, <2>2, GotoStays DEF AtIt, TInv
    <2>4. sequence'[f] = receipt.sequence
      BY <2>1 DEF AtIt, TInv, TypeOK
    <2>5. Doing(f)'
      BY <1>1, <1>3, <2>1, <2>3, <2>4 DEF Doing, OwnReceipt, Undecided
    <2> QED
      BY <1>1, <2>1, <2>3, <2>5, QuietAnswers DEF AtIt
  <1> QED
    BY <1>2, <1>3

\* A handler that goes on without having found a receipt.
LEMMA GoOnFits ==
    ASSUME NEW f \in Fibers, TInv, AInv, AtHead, \A g \in Fibers : pc[g] # "idle" => Working(g),
           pc[f] # "idle", NEW stage \in Stages, Goto(f, stage),
           UNCHANGED <<receipts, request, sequence, answers>>,
           stage \in Undecided /\ request[f].kind # "project" =>
              /\ OwnReceipt(f) # NoReceipt => OwnReceipt(f).aggregate # Aim(f)
              /\ \A a \in answers : a.request = request[f] /\ a.result \in Final =>
                    OwnReceipt(f).aggregate \in Projects,
           stage = "recording" => request[f].kind = "settle",
           stage # "promoting"
    PROVE  AInv'
  <1>1. OthersStay(f) /\ pc'[f] = stage
    BY GotoStays DEF TInv
  <1>2. Doing(f)'
    <2>1. /\ OwnReceipt(f)' = OwnReceipt(f) /\ Aim(f)' = Aim(f)
          /\ request'[f] = request[f] /\ answers' = answers
      BY DEF OwnReceipt, Aim
    <2> QED
      BY <1>1, <2>1 DEF Doing, NoReceipt
  <1>3. Writes(f)
    BY DEF Writes
  <1> QED
    BY <1>1, <1>2, <1>3, QuietAnswers DEF Working

LEMMA EnterFits ==
    ASSUME NEW f \in Fibers, TInv, AInv, AtHead, \A g \in Fibers : pc[g] # "idle" => Working(g),
           Enter(f)
    PROVE  AInv'
  <1>1. /\ pc[f] = "waiting"
        /\ UNCHANGED <<receipts, request, sequence, answers>>
    BY DEF Enter
  <1>2. CASE request[f].kind = "project" /\ Goto(f, "planning")
    <2>1. "planning" \in Stages
      BY DEF Stages
    <2> QED
      BY <1>1, <1>2, <2>1, GoOnFits
  <1>3. CASE Goto(f, "lookup")
    <2>1. "lookup" \in Stages /\ "lookup" \notin Undecided
      BY DEF Stages, Undecided
    <2> QED
      BY <1>1, <1>3, <2>1, GoOnFits
  <1> QED
    BY <1>2, <1>3 DEF Enter

\* Whoever is told that a command failed and asks again finds no success of its
\* own thread.
LEMMA NoFailureBefore ==
    ASSUME NEW f \in Fibers, AtIt(f), OwnReceipt(f).status = "accepted",
           \/ OwnReceipt(f).aggregate = Aim(f)
           \/ request[f].kind = "project"
    PROVE  \A a \in answers : a.request = request[f] => a.result # "failed"
  BY DEF AtIt, AInv, Said, OwnReceipt, Aim

LEMMA LookupFits ==
    ASSUME NEW f \in Fibers, AtIt(f), Lookup(f)
    PROVE  AInv'
  <1> PICK receipt : receipt = ThreadReceipt(request[f].id)
    OBVIOUS
  <1>1. receipt.status \in {"accepted", "rejected"} => receipt = receipts[request[f].id]
            /\ receipt.aggregate \in Threads
    BY DEF ThreadReceipt, NoReceipt
  <1>2. CASE receipt = NoReceipt /\ Goto(f, "planning")
             /\ UNCHANGED <<receipts, request, sequence, answers>>
    <2>1. OwnReceipt(f) = NoReceipt \/ OwnReceipt(f).aggregate \notin Threads
      BY <1>2 DEF ThreadReceipt, OwnReceipt
    <2>2. request[f].id \in Commands /\ (request[f].kind # "project" => Aim(f) \in Threads)
      BY KindAim DEF AtIt
    <2>3. OwnReceipt(f) # NoReceipt => OwnReceipt(f).aggregate \in Aggregates
      BY <2>2 DEF AtIt, TInv, TypeOK, OwnReceipt, Receipt
    <2>4. ASSUME NEW a \in answers, a.request = request[f], a.result \in Final
          PROVE  OwnReceipt(f).aggregate \in Projects
      <3>1. OwnReceipt(f) # NoReceipt
        BY <2>4 DEF AtIt, AInv, Said, OwnReceipt
      <3> QED
        BY <2>1, <2>3, <3>1 DEF Aggregates
    <2>5. request[f].kind # "project" => (OwnReceipt(f) # NoReceipt => OwnReceipt(f).aggregate # Aim(f))
      BY <2>1, <2>2
    <2>6. "planning" \in Stages
      BY DEF Stages
    <2> QED
      BY <1>2, <2>4, <2>5, <2>6, GoOnFits DEF AtIt
  <1>3. CASE receipt.status = "rejected" /\ Refuse(f, "rejected")
    <2>1. Writes(f) /\ Answer(f, "rejected", 0) /\ receipts' = receipts
      BY <1>3 DEF Refuse, Writes
    <2> QED
      BY <1>1, <1>3, <2>1, RejectedFits
  <1>4. CASE Refuse(f, "conflict")
    BY <1>4, ErrorFits DEF Refuse
  <1>5. CASE receipt.status = "accepted" /\ receipt.aggregate = Aim(f) /\ Replay(f, receipt)
    <2>1. receipt = OwnReceipt(f) /\ receipt.aggregate \in Threads
      BY <1>1, <1>5 DEF OwnReceipt
    <2>2. receipt.sequence \in Nat
      BY ReceiptNumber DEF AtIt, Working, TInv
    <2>3. \A a \in answers : a.request = request[f] => a.result # "failed"
      BY <1>5, <2>1, NoFailureBefore
    <2> QED
      BY <1>5, <2>1, <2>2, <2>3, ReplayFits DEF OwnReceipt
  <1> QED
    BY <1>2, <1>3, <1>4, <1>5 DEF Lookup

\* Nothing final was answered to a request whose id has no receipt.
LEMMA NothingSaid ==
    ASSUME NEW f \in Fibers, AtIt(f), Reserved(f)
    PROVE  \A a \in answers : a.request = request[f] => a.result \notin Final
  BY DEF AtIt, AInv, Said, Reserved, OwnReceipt

LEMMA WritesSet ==
    ASSUME NEW f \in Fibers, AtIt(f), Reserved(f), NEW status \in {"accepted", "rejected"},
           NEW n \in Nat, SetReceipt(f, status, n)
    PROVE  /\ Writes(f)
           /\ receipts'[request[f].id] = [aggregate |-> Aim(f), status |-> status, sequence |-> n]
  <1>1. request[f].id \in Commands
    BY KindAim DEF AtIt
  <1> QED
    BY <1>1 DEF AtIt, TInv, TypeOK, Writes, SetReceipt

LEMMA PlanFits ==
    ASSUME NEW f \in Fibers, AtIt(f), Plan(f)
    PROVE  AInv'
  <1>1. pc[f] = "planning" /\ UNCHANGED <<receipts, request, sequence, answers>>
    BY DEF Plan
  <1>2. PICK stage \in {"committing", "recording", "rejecting"} :
           Goto(f, stage) /\ (stage = "recording" => request[f].kind = "settle")
    BY DEF Plan
  <1>3. stage \in Stages
    BY DEF Stages
  <1>4. Doing(f)
    BY DEF AtIt, AInv
  <1>5. request[f].kind # "project" =>
           /\ OwnReceipt(f) # NoReceipt => OwnReceipt(f).aggregate # Aim(f)
           /\ \A a \in answers : a.request = request[f] /\ a.result \in Final =>
                 OwnReceipt(f).aggregate \in Projects
    BY <1>1, <1>4 DEF Doing, Undecided
  <1> QED
    BY <1>1, <1>2, <1>3, <1>5, GoOnFits DEF AtIt

LEMMA CommitFits ==
    ASSUME NEW f \in Fibers, AtIt(f), Commit(f)
    PROVE  AInv'
  <1> PICK n \in Nat : n = Len(log) + 1
    BY DEF AtIt, TInv, TypeOK
  <1> PICK receipt : receipt = receipts'[request[f].id]
    OBVIOUS
  <1>1. Reserved(f) /\ SetReceipt(f, "accepted", n)
    BY DEF Commit
  <1>2. Writes(f) /\ receipt = [aggregate |-> Aim(f), status |-> "accepted", sequence |-> n]
    BY <1>1, WritesSet
  <1>3. /\ receipt.aggregate = Aim(f) /\ receipt.status = "accepted"
        /\ receipt.sequence = n /\ receipt # NoReceipt /\ Writes(f)
    BY <1>2 DEF NoReceipt
  <1>4. \A a \in answers : a.request = request[f] => a.result # "failed"
    BY <1>1, NothingSaid DEF Final
  <1>5. request[f].kind # "project" => Aim(f) \in Threads
    BY KindAim DEF AtIt
  <1>6. CASE Answer(f, "ok", n)
    BY <1>3, <1>4, <1>5, <1>6, AnswerFits DEF AtIt
  <1>7. CASE /\ request[f].kind = "resume" /\ Goto(f, "promoting")
             /\ sequence' = [sequence EXCEPT ![f] = n] /\ UNCHANGED <<request, answers>>
    <2>1. "promoting" \in Stages
      BY DEF Stages
    <2>2. OthersStay(f) /\ pc'[f] = "promoting"
      BY <1>7, <2>1, GotoStays DEF AtIt, TInv
    <2>3. sequence'[f] = n /\ request'[f] = request[f] /\ OwnReceipt(f)' = receipt
      BY <1>7 DEF AtIt, TInv, TypeOK, OwnReceipt
    <2>4. Doing(f)'
      BY <1>3, <1>4, <1>5, <1>7, <2>2, <2>3 DEF Doing, Undecided
    <2> QED
      BY <1>3, <1>7, <2>2, <2>4, QuietAnswers DEF AtIt
  <1> QED
    BY <1>6, <1>7 DEF Commit

\* The id of a plan of this thread was taken meanwhile.
LEMMA NoSuccessBefore ==
    ASSUME NEW f \in Fibers, AtIt(f), pc[f] \in Undecided, request[f].kind # "project",
           NEW a \in answers, a.request = request[f], a.result \in Final
    PROVE  OwnReceipt(f).aggregate \in Projects /\ a.result # "ok"
  <1>1. OwnReceipt(f).aggregate \in Projects
    BY DEF AtIt, AInv, Doing
  <1>2. a.result = "ok" => OwnReceipt(f).aggregate \in Threads
    BY DEF AtIt, AInv, Said, OwnReceipt
  <1> QED
    BY <1>1, <1>2

LEMMA ProjectFits ==
    ASSUME NEW f \in Fibers, AtIt(f), request[f].kind = "project", AnswerFromProject(f)
    PROVE  AInv'
  <1> PICK receipt : receipt = OwnReceipt(f)
    OBVIOUS
  <1>1. receipt.sequence \in Nat /\ receipt = receipts[request[f].id]
    BY ReceiptNumber DEF AtIt, TInv, OwnReceipt
  <1>2. CASE Refuse(f, "conflict")
    BY <1>2, ErrorFits DEF Refuse
  <1>3. CASE receipt.status = "rejected" /\ Refuse(f, "rejected")
    <2>1. Writes(f) /\ Answer(f, "rejected", 0) /\ receipts' = receipts
      BY <1>3 DEF Refuse, Writes
    <2> QED
      BY <1>1, <1>3, <2>1, RejectedFits
  <1>4. CASE receipt.status = "accepted" /\ Replay(f, receipt)
    BY <1>1, <1>4, NoFailureBefore, ReplayFits DEF OwnReceipt
  <1> QED
    BY <1>2, <1>3, <1>4 DEF AnswerFromProject, AnswerFrom

LEMMA CommitTakenFits ==
    ASSUME NEW f \in Fibers, AtIt(f), CommitTaken(f)
    PROVE  AInv'
  <1> PICK receipt : receipt = ThreadReceipt(request[f].id)
    OBVIOUS
  <1>1. receipt.status \in {"accepted", "rejected"} => receipt = receipts[request[f].id]
            /\ receipt.aggregate \in Threads
    BY DEF ThreadReceipt, NoReceipt
  <1>2. CASE request[f].kind = "project" /\ AnswerFromProject(f)
    BY <1>2, ProjectFits
  <1>3. CASE Refuse(f, "error")
    BY <1>3, ErrorFits DEF Refuse
  <1>4. CASE receipt.status = "rejected" /\ Refuse(f, "rejected")
    <2>1. Writes(f) /\ Answer(f, "rejected", 0) /\ receipts' = receipts
      BY <1>4 DEF Refuse, Writes
    <2> QED
      BY <1>1, <1>4, <2>1, RejectedFits
  <1>5. CASE request[f].kind # "project" /\ receipt.status = "accepted" /\ Replay(f, receipt)
    <2>1. receipt = OwnReceipt(f) /\ receipt.aggregate \in Threads
      BY <1>1, <1>5 DEF OwnReceipt
    <2>2. receipt.sequence \in Nat
      BY ReceiptNumber DEF AtIt, TInv
    <2>3. \A a \in answers : a.request = request[f] => a.result # "failed"
      <3>1. pc[f] \in Undecided
        BY DEF CommitTaken, Undecided
      <3> QED
        BY <1>5, <2>1, <3>1, NoSuccessBefore DEF Final
    <2> QED
      BY <1>5, <2>1, <2>2, <2>3, ReplayFits DEF OwnReceipt
  <1> QED
    BY <1>2, <1>3, <1>4, <1>5 DEF CommitTaken, AnswerFrom

\* No other thread or project takes the id of a command that settles.
LEMMA SettleReserved ==
    ASSUME SettlesAreOwn, NEW f \in Fibers, AtIt(f), pc[f] = "recording"
    PROVE  Reserved(f) /\ request[f].kind = "settle"
  <1>1. Doing(f) /\ request[f].id \in Commands /\ request[f] \in Requests
    BY KindAim DEF AtIt, AInv, Working
  <1>2. request[f].kind = "settle"
    BY <1>1 DEF Doing
  <1>3. ASSUME OwnReceipt(f) # NoReceipt PROVE FALSE
    <2>1. PICK r \in Requests : r.id = request[f].id /\ r.aggregate = OwnReceipt(f).aggregate
      BY <1>1, <1>3 DEF AtIt, AInv, WrittenFor, OwnReceipt
    <2>2. r.aggregate = Aim(f)
      BY <1>1, <1>2, <2>1 DEF SettlesAreOwn, Aim
    <2>3. OwnReceipt(f).aggregate # Aim(f)
      BY <1>1, <1>2, <1>3 DEF Doing, Undecided
    <2> QED
      BY <2>1, <2>2, <2>3
  <1> QED
    BY <1>2, <1>3 DEF Reserved

LEMMA RecordEmptyFits ==
    ASSUME SettlesAreOwn, NEW f \in Fibers, AtIt(f), RecordEmpty(f)
    PROVE  AInv'
  <1>1. Reserved(f) /\ request[f].kind = "settle"
    BY SettleReserved DEF RecordEmpty
  <1>2. Aim(f) \in Threads
    BY <1>1, KindAim DEF AtIt
  <1>3. LatestSequence(Aim(f)) \in Nat
    BY <1>2, LatestType DEF AtIt, TInv, Aggregates
  <1> PICK n \in Nat : n = LatestSequence(Aim(f))
    BY <1>3
  <1> PICK receipt : receipt = receipts'[request[f].id]
    OBVIOUS
  <1>4. SetReceipt(f, "accepted", n) /\ Answer(f, "ok", n)
    BY <1>1 DEF RecordEmpty
  <1>5. Writes(f) /\ receipt = [aggregate |-> Aim(f), status |-> "accepted", sequence |-> n]
    BY <1>1, <1>4, WritesSet
  <1>6. /\ receipt.aggregate = Aim(f) /\ receipt.status = "accepted"
        /\ receipt.sequence = n /\ receipt # NoReceipt /\ Writes(f)
    BY <1>5 DEF NoReceipt
  <1>7. \A a \in answers : a.request = request[f] => a.result # "failed"
    BY <1>1, NothingSaid DEF Final
  <1> QED
    BY <1>2, <1>4, <1>6, <1>7, AnswerFits DEF AtIt

LEMMA RejectFits ==
    ASSUME NEW f \in Fibers, AtIt(f), Reject(f)
    PROVE  AInv'
  <1>1. pc[f] \in Undecided /\ Doing(f)
    BY DEF Reject, Undecided, AtIt, AInv
  <1>2. CASE /\ Reserved(f) /\ SetReceipt(f, "rejected", LatestSequence(Aim(f)))
             /\ Answer(f, IF request[f].kind = "project" THEN "rejected" ELSE "failed", 0)
    <2>1. Aim(f) \in Aggregates
      BY KindAim DEF AtIt, Aggregates
    <2> PICK n \in Nat : n = LatestSequence(Aim(f))
      BY <2>1, LatestType DEF AtIt, TInv
    <2> PICK receipt : receipt = receipts'[request[f].id]
      OBVIOUS
    <2>2. Writes(f) /\ receipt = [aggregate |-> Aim(f), status |-> "rejected", sequence |-> n]
      BY <1>2, WritesSet
    <2>3. receipt.status = "rejected" /\ receipt # NoReceipt /\ Writes(f)
      BY <2>2 DEF NoReceipt
    <2>4. CASE request[f].kind = "project"
      BY <1>2, <2>3, <2>4, RejectedFits
    <2>5. CASE request[f].kind # "project"
      <3>1. Answer(f, "failed", 0)
        BY <1>2, <2>5
      <3>2. \A a \in answers : a.request = request[f] => a.result # "ok"
        BY <1>2, NothingSaid DEF Final
      <3> QED
        BY <2>3, <2>5, <3>1, <3>2, AnswerFits DEF AtIt
    <2> QED
      BY <2>4, <2>5
  <1>3. CASE ~ Reserved(f) /\ request[f].kind # "project" /\ Refuse(f, "failed")
    <2> PICK receipt : receipt = OwnReceipt(f)
      OBVIOUS
    <2>1. Writes(f) /\ Answer(f, "failed", 0) /\ receipt = receipts'[request[f].id]
      BY <1>3 DEF Refuse, Writes, OwnReceipt
    <2>2. receipt # NoReceipt /\ receipt.aggregate # Aim(f)
      BY <1>1, <1>3 DEF Reserved, Doing
    <2>3. \A a \in answers : a.request = request[f] => a.result # "ok"
      BY <1>1, <1>3, NoSuccessBefore DEF Final
    <2> QED
      BY <1>3, <2>1, <2>2, <2>3, AnswerFits DEF AtIt
  <1>4. CASE request[f].kind = "project" /\ AnswerFromProject(f)
    BY <1>4, ProjectFits
  <1> QED
    BY <1>2, <1>3, <1>4 DEF Reject

LEMMA PromoteFits ==
    ASSUME NEW f \in Fibers, AtIt(f), Promote(f)
    PROVE  AInv'
  <1> PICK receipt : receipt = OwnReceipt(f)
    OBVIOUS
  <1>1. pc[f] = "promoting" /\ Doing(f) /\ Answer(f, "ok", sequence[f]) /\ receipts' = receipts
    BY DEF Promote, AtIt, AInv
  <1>2. /\ receipt.status = "accepted" /\ receipt.sequence = sequence[f]
        /\ receipt.aggregate \in Threads /\ receipt # NoReceipt
        /\ \A a \in answers : a.request = request[f] => a.result # "failed"
    BY <1>1 DEF Doing, NoReceipt
  <1>3. receipt = receipts'[request[f].id] /\ Writes(f)
    BY <1>1 DEF OwnReceipt, Writes
  <1> QED
    BY <1>1, <1>2, <1>3, AnswerFits DEF AtIt

LEMMA AnswersStep == SettlesAreOwn /\ IInv /\ TInv /\ LInv /\ AInv /\ [Next]_vars => AInv'
  <1> SUFFICES ASSUME SettlesAreOwn, IInv, TInv, LInv, AInv, [Next]_vars PROVE AInv'
    OBVIOUS
  <1>0. AtHead /\ \A g \in Fibers : pc[g] # "idle" => Working(g)
    BY DEF IInv, Types, Working, LInv
  <1>1. CASE UNCHANGED vars
    BY <1>1 DEF vars, fiberVars, AInv, WrittenFor, Said, NeverBoth, Doing, OwnReceipt, Aim, NoReceipt
  <1>2. ASSUME NEW f \in Fibers, NEW r \in Requests, Send(f, r) PROVE AInv'
    <2>1. UNCHANGED <<receipts, answers, sequence>>
      BY <1>2 DEF Send
    <2>2. /\ pc'[f] = "waiting"
          /\ \A g \in Fibers \ {f} : pc'[g] = pc[g] /\ request'[g] = request[g]
      BY <1>2 DEF Send, Goto, TInv, TypeOK
    <2>3. ASSUME NEW g \in Fibers PROVE Doing(g)'
      <3>1. CASE g = f
        BY <2>2, <3>1 DEF Doing, Undecided
      <3>2. CASE g # f
        <4>1. /\ pc'[g] = pc[g] /\ request'[g] = request[g] /\ sequence'[g] = sequence[g]
              /\ OwnReceipt(g)' = OwnReceipt(g) /\ Aim(g)' = Aim(g) /\ Doing(g)
          BY <2>1, <2>2, <3>2 DEF OwnReceipt, Aim, AInv
        <4> QED
          BY <2>1, <4>1 DEF Doing, NoReceipt
      <3> QED
        BY <3>1, <3>2
    <2> QED
      BY <2>1, <2>3 DEF AInv, WrittenFor, Said, NeverBoth, NoReceipt
  <1>3. ASSUME NEW f \in Fibers, Handle(f) PROVE AInv'
    <2>1. Enter(f) \/ pc[f] \notin {"idle", "waiting"}
      BY <1>3 DEF Handle, Lookup, Plan, Commit, CommitTaken, RecordEmpty, Reject, Promote
    <2>2. pc[f] \notin {"idle", "waiting"} => AtIt(f)
      BY <1>0 DEF AtIt
    <2> QED
      BY <1>0, <1>3, <2>1, <2>2, EnterFits, LookupFits, PlanFits, CommitFits, CommitTakenFits,
         RecordEmptyFits, RejectFits, PromoteFits DEF Handle, Enter
  <1>4. ASSUME NEW f \in Fibers, FailStatement(f) PROVE AInv'
    <2>1. AtIt(f) /\ Answer(f, "error", 0) /\ UNCHANGED receipts
      BY <1>0, <1>4 DEF FailStatement, AtIt
    <2> QED
      BY <2>1, ErrorFits
  <1>5. ASSUME NEW f \in Fibers, Interrupt(f) PROVE AInv'
    <2>1. pc[f] # "idle" /\ Leave(f) /\ UNCHANGED <<receipts, answers>>
      BY <1>5 DEF Interrupt
    <2>2. OthersStay(f) /\ pc'[f] = "idle"
      BY <2>1, LeaveStays DEF TInv
    <2>3. Doing(f)' /\ Writes(f)
      BY <2>1, <2>2 DEF Doing, Undecided, Writes
    <2> QED
      BY <1>0, <2>1, <2>2, <2>3, QuietAnswers
  <1>6. CASE Crash
    BY <1>6 DEF Crash, AInv, WrittenFor, Said, NeverBoth, Doing, Undecided, NoReceipt
  <1> QED
    BY <1>1, <1>2, <1>3, <1>4, <1>5, <1>6 DEF Next

LEMMA AInvAgrees == AInv => AnswersAgree
  <1> SUFFICES ASSUME AInv, NEW a \in answers, NEW b \in answers, a.request = b.request,
                      a.result \in Final, b.result \in Final
               PROVE  (a.result = "ok" <=> b.result = "ok") /\ a.sequence = b.sequence
    BY DEF AnswersAgree, Final
  <1>1. Said(a) /\ Said(b)
    BY DEF AInv
  <1>2. a.result = "ok" <=> b.result = "ok"
    BY <1>1 DEF Said, AInv, NeverBoth, Final
  <1>3. a.sequence = b.sequence
    BY <1>1, <1>2 DEF Said, Final
  <1> QED
    BY <1>2, <1>3

\* A client that asks again gets the same outcome and the same sequence,
\* whatever ids clients reuse but for those of commands that may find nothing to
\* record: such a command does not look whether its id was taken meanwhile.
THEOREM AnswersStayTrue == ASSUME SettlesAreOwn PROVE Spec => []AnswersAgree
  <1>1. Init => TInv /\ LInv
    BY DEF Init, FibersIdle, TInv, TypeOK, HasLatest, Batches, Stages,
           LInv, InLine, AtHead, PlansAreCurrent
  <1>2. Init => AInv
    BY DEF Init, FibersIdle, AInv, WrittenFor, NeverBoth, Doing, Undecided
  <1>3. IInv /\ TInv /\ LInv /\ AInv /\ [Next]_vars => AInv'
    BY AnswersStep
  <1> QED
    BY <1>1, <1>2, <1>3, AInvAgrees, IInvHolds, TypeStep, LockStep, PTL DEF Spec

-----------------------------------------------------------------------------
(* What is done is done once, and a resumed queue is not left ready.       *)

\* A success has a receipt, whatever ids clients reuse.
DInv ==
    /\ \A a \in answers : a.result = "ok" => receipts[a.request.id] # NoReceipt
    /\ \A f \in Fibers : pc[f] = "promoting" => OwnReceipt(f) # NoReceipt
    /\ \A f \in Fibers : pc[f] = "recording" => request[f].kind = "settle"

\* How a handler answers, and what it has when it goes on.
Tells(f) ==
    \/ UNCHANGED answers
    \/ \E result \in Results, n \in Nat :
          /\ answers' = answers \cup {[request |-> request[f], result |-> result, sequence |-> n]}
          /\ result = "ok" => receipts'[request[f].id] # NoReceipt
          /\ pc'[f] = "idle"
          /\ result = "ok" /\ request[f].kind = "resume" => runQueue'[Aim(f)] # "ready"

GoesOn(f) ==
    /\ pc'[f] # "idle" => UNCHANGED request
    /\ pc'[f] = "promoting" => receipts'[request[f].id] # NoReceipt
    /\ pc'[f] = "recording" => request[f].kind = "settle"

Logs(f) ==
    \/ UNCHANGED log
    \/ \E id \in Commands \cup {System}, a \in Aggregates :
          /\ log' = Append(log, [id |-> id, aggregate |-> a])
          /\ id # System => id = request[f].id /\ Reserved(f)

Does(f) == Writes(f) /\ OthersStay(f) /\ Tells(f) /\ GoesOn(f) /\ Logs(f)

\* Where a handler is, with what it may rely on.
AtHand(f) ==
    /\ TInv /\ DInv /\ Working(f) /\ pc[f] # "idle"

LEMMA AnswerDoes ==
    ASSUME NEW f \in Fibers, AtHand(f), Writes(f), Logs(f), NEW result \in Results, NEW n \in Nat,
           Answer(f, result, n), result = "ok" => receipts'[request[f].id] # NoReceipt,
           result = "ok" /\ request[f].kind = "resume" => runQueue'[Aim(f)] # "ready"
    PROVE  Does(f)
  <1>1. Leave(f)
    BY DEF Answer
  <1>2. OthersStay(f) /\ pc'[f] = "idle"
    BY <1>1, LeaveStays DEF AtHand, TInv
  <1>3. GoesOn(f)
    BY <1>2 DEF GoesOn
  <1>4. Tells(f)
    BY <1>2 DEF Tells, Answer
  <1> QED
    BY <1>2, <1>3, <1>4 DEF Does

LEMMA GotoDoes ==
    ASSUME NEW f \in Fibers, AtHand(f), Writes(f), Logs(f), NEW stage \in Stages, Goto(f, stage),
           UNCHANGED <<request, answers>>,
           sequence' = sequence \/ \E n \in Nat : sequence' = [sequence EXCEPT ![f] = n],
           stage = "promoting" => receipts'[request[f].id] # NoReceipt,
           stage = "recording" => request[f].kind = "settle"
    PROVE  Does(f)
  <1>1. OthersStay(f) /\ pc'[f] = stage
    BY GotoStays DEF AtHand, TInv
  <1> QED
    BY <1>1 DEF Does, GoesOn, Tells

LEMMA RefuseDoes ==
    ASSUME NEW f \in Fibers, AtHand(f), NEW result \in Results \ {"ok"}, Refuse(f, result)
    PROVE  Does(f)
  <1>1. Writes(f) /\ Logs(f) /\ Answer(f, result, 0)
    BY DEF Refuse, Writes, Logs
  <1> QED
    BY <1>1, AnswerDoes

LEMMA ReplayDoes ==
    ASSUME NEW f \in Fibers, AtHand(f), NEW receipt, receipt = receipts[request[f].id],
           receipt.status = "accepted", receipt.sequence \in Nat, Replay(f, receipt)
    PROVE  Does(f)
  <1>1. Writes(f) /\ Logs(f) /\ receipts'[request[f].id] # NoReceipt
    BY DEF Replay, Writes, Logs, NoReceipt
  <1>2. "ok" \in Results /\ "promoting" \in Stages
    BY DEF Results, Stages
  <1>3. CASE request[f].kind # "resume" /\ Answer(f, "ok", receipt.sequence)
    BY <1>1, <1>2, <1>3, AnswerDoes
  <1>4. CASE /\ Goto(f, "promoting") /\ UNCHANGED <<request, answers>>
             /\ sequence' = [sequence EXCEPT ![f] = receipt.sequence]
    BY <1>1, <1>2, <1>4, GotoDoes
  <1> QED
    BY <1>3, <1>4 DEF Replay

LEMMA AnswerFromDoes ==
    ASSUME NEW f \in Fibers, AtHand(f),
           \/ AnswerFrom(f, ThreadReceipt(request[f].id))
           \/ AnswerFromProject(f)
    PROVE  Does(f)
  <1> PICK receipt : receipt = receipts[request[f].id]
    OBVIOUS
  <1>1. receipt = OwnReceipt(f) /\ receipt.sequence \in Nat
    BY ReceiptNumber DEF AtHand, TInv, OwnReceipt
  <1>2. ThreadReceipt(request[f].id).status = "accepted" => ThreadReceipt(request[f].id) = receipt
    BY DEF ThreadReceipt, NoReceipt
  <1>3. \A result \in {"rejected", "conflict"} : result \in Results \ {"ok"}
    BY DEF Results
  <1>4. CASE Refuse(f, "rejected") \/ Refuse(f, "conflict")
    BY <1>3, <1>4, RefuseDoes
  <1>5. CASE receipt.status = "accepted" /\ Replay(f, receipt)
    BY <1>1, <1>5, ReplayDoes
  <1> QED
    BY <1>1, <1>2, <1>4, <1>5 DEF AnswerFrom, AnswerFromProject

LEMMA SetDoes ==
    ASSUME NEW f \in Fibers, AtHand(f), pc[f] # "waiting", Reserved(f),
           NEW status \in {"accepted", "rejected"}, NEW n \in Nat, SetReceipt(f, status, n)
    PROVE  Writes(f) /\ receipts'[request[f].id] # NoReceipt
  <1>1. request[f].id \in Commands
    BY KindAim DEF AtHand
  <1>2. receipts'[request[f].id].status = status
    BY <1>1 DEF AtHand, TInv, TypeOK, SetReceipt
  <1> QED
    BY <1>2 DEF Writes, NoReceipt

LEMMA CommitDoes ==
    ASSUME NEW f \in Fibers, AtHand(f), Commit(f)
    PROVE  Does(f)
  <1> PICK n \in Nat : n = Len(log) + 1
    BY DEF AtHand, TInv, TypeOK
  <1>1. pc[f] # "waiting" /\ Reserved(f) /\ SetReceipt(f, "accepted", n)
    BY DEF Commit
  <1>2. Writes(f) /\ receipts'[request[f].id] # NoReceipt
    BY <1>1, SetDoes
  <1>3. request[f].id \in Commands /\ Aim(f) \in Aggregates
    BY KindAim DEF AtHand, Aggregates
  <1>4. Logs(f)
    BY <1>1, <1>3 DEF Logs, Commit, Append1
  <1>5. "ok" \in Results /\ "promoting" \in Stages
    BY DEF Results, Stages
  <1>6. CASE request[f].kind # "resume" /\ Answer(f, "ok", n)
    BY <1>2, <1>4, <1>5, <1>6, AnswerDoes
  <1>7. CASE Goto(f, "promoting") /\ UNCHANGED <<request, answers>>
             /\ sequence' = [sequence EXCEPT ![f] = n]
    BY <1>2, <1>4, <1>5, <1>7, GotoDoes
  <1> QED
    BY <1>6, <1>7 DEF Commit

LEMMA RecordEmptyDoes ==
    ASSUME NEW f \in Fibers, AtHand(f), RecordEmpty(f)
    PROVE  Does(f)
  <1>1. request[f].kind = "settle" /\ Logs(f) /\ pc[f] # "waiting"
    BY DEF RecordEmpty, AtHand, DInv, Logs
  <1>2. Aim(f) \in Aggregates /\ "ok" \in Results
    BY KindAim DEF AtHand, Aggregates, Results
  <1> PICK n \in Nat : n = LatestSequence(Aim(f))
    BY <1>2, LatestType DEF AtHand
  <1>3. Answer(f, "ok", n)
    BY DEF RecordEmpty
  <1>4. CASE Reserved(f)
    <2>1. SetReceipt(f, "accepted", n)
      BY <1>4 DEF RecordEmpty
    <2>2. Writes(f) /\ receipts'[request[f].id] # NoReceipt
      BY <1>1, <1>4, <2>1, SetDoes
    <2> QED
      BY <1>1, <1>2, <1>3, <2>2, AnswerDoes
  <1>5. CASE ~ Reserved(f)
    <2>1. Writes(f) /\ receipts'[request[f].id] # NoReceipt
      BY <1>5 DEF RecordEmpty, Reserved, OwnReceipt, Writes
    <2> QED
      BY <1>1, <1>2, <1>3, <2>1, AnswerDoes
  <1> QED
    BY <1>4, <1>5

LEMMA RejectDoes ==
    ASSUME NEW f \in Fibers, AtHand(f), Reject(f)
    PROVE  Does(f)
  <1>1. Aim(f) \in Aggregates
    BY KindAim DEF AtHand, Aggregates
  <1> PICK n \in Nat : n = LatestSequence(Aim(f))
    BY <1>1, LatestType DEF AtHand
  <1>2. \A result \in {"rejected", "failed"} : result \in Results \ {"ok"}
    BY DEF Results
  <1>3. CASE /\ Reserved(f) /\ SetReceipt(f, "rejected", n) /\ UNCHANGED log
             /\ \E result \in {"rejected", "failed"} : Answer(f, result, 0)
    <2>1. Writes(f) /\ Logs(f)
      BY <1>3, SetDoes DEF Logs, Reject
    <2>2. PICK result \in {"rejected", "failed"} : Answer(f, result, 0)
      BY <1>3
    <2>3. result # "ok"
      OBVIOUS
    <2> QED
      BY <1>2, <2>1, <2>2, <2>3, AnswerDoes
  <1>4. CASE Refuse(f, "failed")
    BY <1>2, <1>4, RefuseDoes
  <1>5. CASE AnswerFromProject(f)
    BY <1>5, AnswerFromDoes
  <1> QED
    BY <1>3, <1>4, <1>5 DEF Reject

LEMMA PromoteDoes ==
    ASSUME NEW f \in Fibers, AtHand(f), Promote(f)
    PROVE  Does(f)
  <1>1. receipts'[request[f].id] # NoReceipt /\ Writes(f)
    BY DEF Promote, AtHand, DInv, OwnReceipt, Writes
  <1>2. Aim(f) \in Aggregates /\ (request[f].kind = "resume" => Aim(f) \in Threads)
    BY KindAim DEF AtHand, Aggregates
  <1>3. Logs(f)
    BY <1>2 DEF Promote, Logs
  <1>4. request[f].kind = "resume" => runQueue'[Aim(f)] # "ready"
    BY <1>2 DEF Promote, AtHand, TInv, TypeOK
  <1>5. sequence[f] \in Nat /\ "ok" \in Results /\ Answer(f, "ok", sequence[f])
    BY DEF AtHand, TInv, TypeOK, Results, Promote
  <1> QED
    BY <1>1, <1>3, <1>4, <1>5, AnswerDoes

LEMMA HandleDoes ==
    ASSUME NEW f \in Fibers, AtHand(f), Handle(f)
    PROVE  Does(f)
  <1>1. Stages = {"idle", "waiting", "lookup", "planning", "committing", "recording", "rejecting", "promoting"}
    BY DEF Stages
  <1>2. \A result \in {"rejected", "conflict", "error"} : result \in Results \ {"ok"}
    BY DEF Results
  <1>3. ASSUME UNCHANGED <<receipts, log>> PROVE Writes(f) /\ Logs(f)
    BY <1>3 DEF Writes, Logs
  <1>4. CASE Enter(f)
    <2>1. Goto(f, "planning") \/ Goto(f, "lookup")
      BY <1>4 DEF Enter
    <2>2. UNCHANGED <<receipts, log, request, sequence, answers>>
      BY <1>4 DEF Enter
    <2> QED
      BY <1>1, <1>3, <2>1, <2>2, GotoDoes
  <1>5. CASE Lookup(f)
    <2> PICK receipt : receipt = ThreadReceipt(request[f].id)
      OBVIOUS
    <2>1. CASE Refuse(f, "rejected") \/ Refuse(f, "conflict")
      BY <1>2, <2>1, RefuseDoes
    <2>2. CASE Goto(f, "planning") /\ UNCHANGED <<receipts, log, request, sequence, answers>>
      BY <1>1, <1>3, <2>2, GotoDoes
    <2>3. CASE receipt.status = "accepted" /\ Replay(f, receipt)
      <3>1. receipt = receipts[request[f].id]
        BY <2>3 DEF ThreadReceipt, NoReceipt
      <3>2. receipt.sequence \in Nat
        BY ReceiptNumber DEF AtHand, TInv
      <3> QED
        BY <2>3, <3>1, <3>2, ReplayDoes
    <2> QED
      BY <1>5, <2>1, <2>2, <2>3 DEF Lookup
  <1>6. CASE Plan(f)
    <2>1. PICK stage \in {"committing", "recording", "rejecting"} :
             Goto(f, stage) /\ (stage = "recording" => request[f].kind = "settle")
      BY <1>6 DEF Plan
    <2>2. UNCHANGED <<receipts, log, request, sequence, answers>>
      BY <1>6 DEF Plan
    <2> QED
      BY <1>1, <1>3, <2>1, <2>2, GotoDoes
  <1>7. CASE CommitTaken(f)
    BY <1>2, <1>7, RefuseDoes, AnswerFromDoes DEF CommitTaken
  <1> QED
    BY <1>4, <1>5, <1>6, <1>7, CommitDoes, RecordEmptyDoes, RejectDoes, PromoteDoes DEF Handle

LEMMA DoesDInv ==
    ASSUME NEW f \in Fibers, AtHand(f), Does(f),
           \A g \in Fibers : pc[g] # "idle" => Working(g)
    PROVE  DInv'
  <1>1. TypeOK /\ DInv
    BY DEF AtHand, TInv
  <1>2. request[f].id \in Commands
    BY KindAim DEF AtHand
  <1>3. ASSUME NEW c \in Commands, receipts[c] # NoReceipt PROVE receipts'[c] # NoReceipt
    BY <1>1, <1>3, ReceiptsStay DEF Does
  <1>4. ASSUME NEW a \in answers', a.result = "ok" PROVE receipts'[a.request.id] # NoReceipt
    <2>1. CASE a \in answers
      <3>1. a.request \in Requests
        BY <1>1, <2>1 DEF TypeOK
      <3> QED
        BY <1>1, <1>3, <1>4, <2>1, <3>1, RequestType DEF DInv
    <2>2. CASE a \notin answers
      <3>1. a.request = request[f] /\ (a.result = "ok" => receipts'[request[f].id] # NoReceipt)
        BY <2>2 DEF Does, Tells
      <3> QED
        BY <1>4, <3>1
    <2> QED
      BY <2>1, <2>2
  <1>5. ASSUME NEW g \in Fibers, pc'[g] = "promoting" PROVE receipts'[request'[g].id] # NoReceipt
    <2>1. CASE g = f
      BY <1>5, <2>1 DEF Does, GoesOn
    <2>2. CASE g # f
      <3>1. pc[g] = "promoting" /\ request'[g] = request[g]
        BY <1>5, <2>2 DEF Does, OthersStay
      <3>2. receipts[request[g].id] # NoReceipt /\ request[g].id \in Commands
        BY <1>1, <3>1, KindAim DEF DInv, OwnReceipt
      <3> QED
        BY <1>3, <3>1, <3>2
    <2> QED
      BY <2>1, <2>2
  <1>6. ASSUME NEW g \in Fibers, pc'[g] = "recording" PROVE request'[g].kind = "settle"
    <2>1. CASE g = f
      BY <1>6, <2>1 DEF Does, GoesOn
    <2>2. CASE g # f
      BY <1>1, <1>6, <2>2 DEF Does, OthersStay, DInv
    <2> QED
      BY <2>1, <2>2
  <1> QED
    BY <1>4, <1>5, <1>6 DEF DInv, OwnReceipt, NoReceipt

\* A step that writes nothing a client sees.
Quiet == UNCHANGED <<receipts, log, answers>>

LEMMA FailDoes ==
    ASSUME NEW f \in Fibers, AtHand(f), FailStatement(f) \/ Interrupt(f)
    PROVE  Does(f)
  <1>1. Writes(f) /\ Logs(f)
    BY DEF FailStatement, Interrupt, Writes, Logs
  <1>2. "error" \in Results
    BY DEF Results
  <1>3. CASE FailStatement(f)
    BY <1>1, <1>2, <1>3, AnswerDoes DEF FailStatement
  <1>4. CASE Interrupt(f)
    <2>1. OthersStay(f) /\ pc'[f] = "idle"
      BY <1>4, LeaveStays DEF Interrupt, AtHand, TInv
    <2> QED
      BY <1>1, <1>4, <2>1 DEF Interrupt, Does, GoesOn, Tells
  <1> QED
    BY <1>3, <1>4

LEMMA StepKinds ==
    IInv /\ TInv /\ DInv /\ [Next]_vars =>
        \/ Quiet /\ DInv'
        \/ \E f \in Fibers : AtHand(f) /\ Does(f) /\ \A g \in Fibers : pc[g] # "idle" => Working(g)
  <1> SUFFICES ASSUME IInv, TInv, DInv, [Next]_vars
               PROVE  \/ Quiet /\ DInv'
                      \/ \E f \in Fibers : AtHand(f) /\ Does(f)
                            /\ \A g \in Fibers : pc[g] # "idle" => Working(g)
    OBVIOUS
  <1>0. \A g \in Fibers : pc[g] # "idle" => Working(g)
    BY DEF IInv, Types, Working
  <1>1. CASE UNCHANGED vars
    BY <1>1 DEF vars, fiberVars, Quiet, DInv, OwnReceipt, NoReceipt
  <1>2. ASSUME NEW f \in Fibers, NEW r \in Requests, Send(f, r) PROVE Quiet /\ DInv'
    <2>1. UNCHANGED <<receipts, log, answers>>
      BY <1>2 DEF Send
    <2>2. /\ pc'[f] = "waiting"
          /\ \A g \in Fibers \ {f} : pc'[g] = pc[g] /\ request'[g] = request[g]
      BY <1>2 DEF Send, Goto, TInv, TypeOK
    <2> QED
      BY <2>1, <2>2 DEF Quiet, DInv, OwnReceipt, NoReceipt
  <1>3. ASSUME NEW f \in Fibers, Handle(f) \/ FailStatement(f) \/ Interrupt(f)
        PROVE  AtHand(f) /\ Does(f)
    <2>1. pc[f] # "idle"
      BY <1>3 DEF Handle, Enter, Lookup, Plan, Commit, CommitTaken, RecordEmpty, Reject, Promote,
             FailStatement, Interrupt
    <2>2. AtHand(f)
      BY <1>0, <2>1 DEF AtHand
    <2> QED
      BY <1>3, <2>2, HandleDoes, FailDoes
  <1>4. CASE Crash
    BY <1>4 DEF Crash, Quiet, DInv, OwnReceipt, NoReceipt
  <1> QED
    BY <1>0, <1>1, <1>2, <1>3, <1>4 DEF Next

LEMMA DoneStep == IInv /\ TInv /\ DInv /\ [Next]_vars => DInv'
  BY StepKinds, DoesDInv

LEMMA DoneInit == Init => TInv /\ DInv
  BY DEF Init, FibersIdle, TInv, TypeOK, HasLatest, Batches, Stages, DInv

\* What was answered as done is not done again, whatever ids clients reuse: a
\* success has a receipt, and no handler appends events of an id that has one.
THEOREM DoneStaysDone == Spec => AnsweredIsFinal
  <1> DEFINE Again == \A a \in answers : a.result = "ok" =>
                          \A i \in (Len(log) + 1) .. Len(log') : log'[i].id # a.request.id
  <1>1. ASSUME IInv, TInv, DInv, [Next]_vars PROVE Again
    <2>1. CASE Quiet
      <3>1. log' = log /\ Len(log) \in Nat
        BY <1>1, <2>1 DEF Quiet, TInv, TypeOK
      <3> QED
        BY <3>1
    <2>2. ASSUME NEW f \in Fibers, AtHand(f), Does(f) PROVE Again
      <3> SUFFICES ASSUME NEW a \in answers, a.result = "ok",
                          NEW i \in (Len(log) + 1) .. Len(log')
                   PROVE  log'[i].id # a.request.id
        OBVIOUS
      <3>1. a.request \in Requests /\ receipts[a.request.id] # NoReceipt
        BY <1>1 DEF TInv, TypeOK, DInv
      <3>2. a.request.id # System
        BY <3>1, RequestType
      <3>3. log' # log
        BY <1>1 DEF TInv, TypeOK
      <3>4. PICK id \in Commands \cup {System}, g \in Aggregates :
               /\ log' = Append(log, [id |-> id, aggregate |-> g])
               /\ id # System => id = request[f].id /\ Reserved(f)
        BY <2>2, <3>3 DEF Does, Logs
      <3>5. id # a.request.id
        BY <3>1, <3>2, <3>4 DEF Reserved, OwnReceipt
      <3>6. log'[i] = [id |-> id, aggregate |-> g]
        <4> PICK e : e = [id |-> id, aggregate |-> g]
          OBVIOUS
        <4> DEFINE S == [id : Commands \cup {System}, aggregate : Aggregates]
        <4>1. log \in Seq(S) /\ e \in S /\ log' = Append(log, e)
          BY <1>1, <3>4 DEF TInv, TypeOK
        <4> HIDE DEF S
        <4>2. Len(log') = Len(log) + 1 /\ log'[Len(log) + 1] = e /\ Len(log) \in Nat
          BY <4>1
        <4> QED
          BY <4>2
      <3> QED
        BY <3>5, <3>6
    <2> QED
      BY <1>1, <2>1, <2>2, StepKinds
  <1>2. IInv /\ TInv /\ DInv /\ [Next]_vars => [Again]_vars
    BY <1>1
  <1> HIDE DEF Again
  <1>3. Spec => [][Again]_vars
    BY <1>2, DoneInit, DoneStep, TypeStep, IInvHolds, PTL DEF Spec
  <1> QED
    BY <1>3 DEF AnsweredIsFinal, Again

\* Whoever is told that a queue was resumed finds it not ready to start: only
\* the step that starts it, or finds nothing to start, answers so.
THEOREM ResumedIsStarted == Spec => ResumedQueueIsStarted
  <1> DEFINE Started == \A a \in answers' \ answers :
          a.result = "ok" /\ a.request.kind = "resume" => runQueue'[a.request.aggregate] # "ready"
  <1>1. ASSUME IInv, TInv, DInv, [Next]_vars PROVE Started
    <2>1. CASE Quiet
      BY <2>1 DEF Quiet
    <2>2. ASSUME NEW f \in Fibers, Does(f) PROVE Started
      <3> SUFFICES ASSUME NEW a \in answers' \ answers,
                          a.result = "ok", a.request.kind = "resume"
                   PROVE  runQueue'[a.request.aggregate] # "ready"
        OBVIOUS
      <3>1. PICK result \in Results, n \in Nat :
               /\ answers' = answers \cup {[request |-> request[f], result |-> result, sequence |-> n]}
               /\ result = "ok" /\ request[f].kind = "resume" => runQueue'[Aim(f)] # "ready"
        BY <2>2 DEF Does, Tells
      <3>2. a = [request |-> request[f], result |-> result, sequence |-> n]
        BY <3>1
      <3>3. a.request = request[f] /\ result = "ok"
        BY <3>2
      <3> QED
        BY <3>1, <3>3 DEF Aim
    <2> QED
      BY <1>1, <2>1, <2>2, StepKinds
  <1>2. IInv /\ TInv /\ DInv /\ [Next]_vars => [Started]_vars
    BY <1>1
  <1> HIDE DEF Started
  <1>3. Spec => [][Started]_vars
    BY <1>2, DoneInit, DoneStep, TypeStep, IInvHolds, PTL DEF Spec
  <1> QED
    BY <1>3 DEF ResumedQueueIsStarted, Started
=============================================================================
