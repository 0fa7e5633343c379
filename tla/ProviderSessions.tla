--------------------------- MODULE ProviderSessions ---------------------------
(***************************************************************************)
(* One provider session id over time (orchestration-v2,                    *)
(* ProviderSessionManager.ts): the runtime that is live under it, the      *)
(* threads attached to that runtime and their turns, idle timers, the pump *)
(* that reads the runtime's events, and the releases that close a runtime  *)
(* and record its end.  The id outlives the runtime: the next open under   *)
(* it makes a replacement while the old release may still be going on.     *)
(*                                                                         *)
(* Threads run their effects one at a time, so a detach of a thread comes  *)
(* before or after a start of it, never in the middle.                     *)
(***************************************************************************)
EXTENDS Naturals, FiniteSets, Bags

CONSTANTS
    Threads,      \* threads that may use the session
    MaxRuntimes,  \* bound: runtimes opened under the id
    MaxTurns,     \* bound: starts of a turn, each opens or joins the session
    MaxRequests,  \* bound: approvals and questions the providers ask
    MaxUpsets,    \* bound: steers, interrupts, answers and other activity; sign-outs and
                  \* other closes; commands that take a thread off the session; failing
                  \* opens and writes; cancelled effects, all together
    MaxPins,      \* idle releases put off for background work, maxIdlePinMs / idleTimeoutMs
    Kinds         \* "shared": one runtime for several threads; "exclusive": for one

ASSUME SessionAssumption ==
    /\ IsFiniteSet(Threads)
    /\ MaxRuntimes \in Nat
    /\ MaxTurns \in Nat
    /\ MaxRequests \in Nat
    /\ MaxUpsets \in Nat
    /\ MaxPins \in Nat
    /\ Kinds \subseteq {"shared", "exclusive"}

VARIABLES
    kind,        \* of the provider
    users,       \* threads the id was given to
    live,        \* the runtime of the entry in the sessions map, 0 for none
    attached,    \* entry: attachedThreadIds
    busy,        \* entry: busyCount
    generation,  \* entry: idleGeneration
    pins,        \* entry: how often its idle release was put off in a row
    strays,      \* history: how far turns it never counted have taken busy down
    leaks,       \* history: turns it counted whose start was interrupted
    orphan,      \* history: an interruption took an idle fiber it was about to get
    stage,       \* runtime -> where it is between its open and the record of its end
    pump,        \* runtime -> the fiber that reads its events
    served,      \* runtime -> the threads attached when it was removed
    cutoff,      \* runtime -> how many requests existed when it was removed
    timers,      \* idle fibers
    rearm,       \* generations for which an activity is about to fork an idle fiber
    opener,      \* the holder of the id's open lock
    turn,        \* thread -> its turn and the runtime it is called on
    detaching,   \* threads with a provider-session.detach effect to run
    row,         \* status in the session's row
    request,     \* number -> who asked in which thread, and what became of it
    asked,       \* requests so far
    starts,      \* of turns, so far
    upsets       \* so far

historyVars == <<strays, leaks, orphan>>
entryVars   == <<live, attached, busy, generation, pins, historyVars>>
runtimeVars == <<stage, pump, served, cutoff>>
timerVars   == <<timers, rearm>>
recordVars  == <<row, request, asked>>
idVars      == <<kind, users>>
countVars   == <<starts, upsets>>
vars == <<idVars, entryVars, runtimeVars, timerVars, opener, turn, detaching, recordVars,
          countVars>>

Runtimes == 1 .. MaxRuntimes
Requests == 1 .. MaxRequests
Stages   == {"none", "opening", "failed", "open", "closing", "retrying", "released"}

TypeOK ==
    /\ kind \in {"shared", "exclusive"} /\ users \in SUBSET Threads
    /\ live \in Runtimes \cup {0}
    /\ attached \in SUBSET Threads
    /\ busy \in Nat /\ generation \in Nat /\ pins \in Nat
    /\ strays \in Nat /\ leaks \in Nat /\ orphan \in BOOLEAN
    /\ stage \in [Runtimes -> Stages]
    /\ pump \in [Runtimes -> {"none", "running", "ended"}]
    /\ served \in [Runtimes -> SUBSET Threads]
    /\ cutoff \in [Runtimes -> Nat]
    /\ timers \in SUBSET [gen : Nat, own : BOOLEAN, probed : Runtimes \cup {0}]
    /\ IsABag(rearm) /\ BagToSet(rearm) \subseteq Nat
    /\ opener \in [at : {"free", "opening", "attaching", "pumping", "joining", "undoing"},
                   for : Threads \cup {0}, rt : Runtimes \cup {0}]
    /\ turn \in [Threads -> [at : {"none", "held", "attached", "starting", "running"},
                             on : Runtimes \cup {0}, counted : Runtimes \cup {0}]]
    /\ detaching \in SUBSET Threads
    /\ row \in {"none", "ready", "stopped"}
    /\ request \in [Requests -> [from : Runtimes \cup {0}, thread : Threads \cup {0},
                                 at : {"none", "pending", "settled"}]]
    /\ asked \in Nat
    /\ starts \in Nat /\ upsets \in Nat

NoTurn == [at |-> "none", on |-> 0, counted |-> 0]
Free   == [at |-> "free", for |-> 0, rt |-> 0]

Init ==
    /\ kind \in Kinds
    /\ \/ kind = "shared" /\ users = Threads
       \/ kind = "exclusive" /\ \E t \in Threads : users = {t}
    /\ live = 0 /\ attached = {} /\ busy = 0 /\ generation = 0 /\ pins = 0
    /\ strays = 0 /\ leaks = 0 /\ orphan = FALSE
    /\ stage = [r \in Runtimes |-> "none"]
    /\ pump = [r \in Runtimes |-> "none"]
    /\ served = [r \in Runtimes |-> {}]
    /\ cutoff = [r \in Runtimes |-> 0]
    /\ timers = {} /\ rearm = EmptyBag
    /\ opener = Free
    /\ turn = [t \in Threads |-> NoTurn]
    /\ detaching = {}
    /\ row = "none"
    /\ request = [i \in Requests |-> [from |-> 0, thread |-> 0, at |-> "none"]]
    /\ asked = 0
    /\ starts = 0 /\ upsets = 0

-----------------------------------------------------------------------------
(* Operations of the manager that several callers share.                   *)

Upset == upsets < MaxUpsets /\ upsets' = upsets + 1

\* scheduleIdleReleaseInternal up to the fork: the entry's idle fiber is
\* interrupted; the new one is forked in a later step.
Disarmed == {x \in timers : ~x.own}
Schedule(count) ==
    IF live # 0 /\ count = 0
    THEN timers' = Disarmed /\ rearm' = rearm (+) SetToBag({generation + 1})
    ELSE UNCHANGED timerVars

\* ensureThreadAttached, by id: whichever runtime is live takes the thread, and
\* only a thread that was not attached is written.
Attach(t) ==
    /\ attached' = IF live = 0 THEN attached ELSE attached \cup {t}
    /\ IF live = 0 \/ t \in attached
       THEN UNCHANGED row
       ELSE row' = "ready"

\* removeLiveEntry and what releaseEntry does at once: the entry leaves the map,
\* its threads and the requests so far are noted, its idle fiber is cancelled.
RemoveFor(threads) ==
    /\ live # 0
    /\ live' = 0
    /\ stage' = [stage EXCEPT ![live] = "closing"]
    /\ served' = [served EXCEPT ![live] = threads]
    /\ cutoff' = [cutoff EXCEPT ![live] = asked]
    /\ attached' = {}
    /\ busy' = 0 /\ generation' = 0 /\ pins' = 0
    /\ strays' = 0 /\ leaks' = 0 /\ orphan' = FALSE
Remove == RemoveFor(attached)

-----------------------------------------------------------------------------
(* open, under the id's lock                                               *)

Opens(t) ==
    /\ opener.at = "free"
    /\ t \in users
    /\ turn[t].at = "none"
    /\ t \notin detaching
    /\ starts < MaxTurns /\ starts' = starts + 1
    /\ \/ /\ live = 0
          /\ \E r \in Runtimes :
                /\ stage[r] = "none"
                /\ \A o \in Runtimes : o < r => stage[o] # "none"
                /\ stage' = [stage EXCEPT ![r] = "opening"]
                /\ opener' = [at |-> "opening", for |-> t, rt |-> r]
       \/ /\ live # 0
          /\ t \in attached \/ kind = "shared"
          /\ opener' = [at |-> "joining", for |-> t, rt |-> live]
          /\ UNCHANGED stage
    /\ UNCHANGED <<idVars, entryVars, pump, served, cutoff, timerVars, turn, detaching,
                   recordVars, upsets>>

\* A live session is joined; it may have been removed since it was read.
OpenJoins ==
    /\ opener.at = "joining"
    /\ Attach(opener.for)
    /\ Schedule(busy)
    /\ turn' = [turn EXCEPT ![opener.for] = [@ EXCEPT !.at = "held", !.on = opener.rt]]
    /\ opener' = Free
    /\ UNCHANGED <<idVars, live, busy, generation, pins, historyVars, runtimeVars, detaching,
                   request, asked, countVars>>

\* The attachment could not be written: the thread is taken off again.
JoinFails ==
    /\ opener.at = "joining"
    /\ live # 0
    /\ opener.for \notin attached
    /\ Upset
    /\ opener' = Free
    /\ UNCHANGED <<idVars, entryVars, runtimeVars, timerVars, turn, detaching, recordVars,
                   starts>>

\* adapter.openSession fails; its scope is closed.
OpenFails ==
    /\ opener.at = "opening"
    /\ Upset
    /\ stage' = [stage EXCEPT ![opener.rt] = "failed"]
    /\ opener' = Free
    /\ UNCHANGED <<idVars, entryVars, pump, served, cutoff, timerVars, turn, detaching,
                   recordVars, starts>>

OpenInserts ==
    /\ opener.at = "opening"
    /\ stage' = [stage EXCEPT ![opener.rt] = "open"]
    /\ live' = opener.rt
    /\ attached' = {opener.for}
    /\ opener' = [opener EXCEPT !.at = "attaching"]
    /\ UNCHANGED <<idVars, busy, generation, pins, historyVars, pump, served, cutoff, timerVars,
                   turn, detaching, recordVars, countVars>>

AttachWrites ==
    /\ opener.at = "attaching"
    /\ row' = "ready"
    /\ opener' = [opener EXCEPT !.at = "pumping"]
    /\ UNCHANGED <<idVars, entryVars, runtimeVars, timerVars, turn, detaching, request,
                   asked, countVars>>

\* The open releases what it inserted and waits until that is recorded.
AttachFails ==
    /\ opener.at = "attaching"
    /\ Upset
    /\ opener' = [opener EXCEPT !.at = "undoing"]
    /\ IF live # 0
       THEN Remove /\ timers' = Disarmed
       ELSE UNCHANGED <<entryVars, stage, served, cutoff, timers>>
    /\ UNCHANGED <<idVars, pump, rearm, turn, detaching, recordVars, starts>>

OpenUndone ==
    /\ opener.at = "undoing"
    /\ stage[opener.rt] \in {"retrying", "released"}
    /\ opener' = Free
    /\ UNCHANGED <<idVars, entryVars, runtimeVars, timerVars, turn, detaching, recordVars,
                   countVars>>

\* startEventPump and the first idle release.
PumpStarts ==
    /\ opener.at = "pumping"
    /\ pump' = [pump EXCEPT ![opener.rt] = "running"]
    /\ Schedule(busy)
    /\ turn' = [turn EXCEPT ![opener.for] = [@ EXCEPT !.at = "held", !.on = opener.rt]]
    /\ opener' = Free
    /\ UNCHANGED <<idVars, entryVars, stage, served, cutoff, detaching, recordVars,
                   countVars>>

\* The effect that opens is cancelled.  Nothing closes the scope of a session
\* that is being opened (the id sees it as one that failed), or finishes the
\* open of one that was inserted: its pump may not run, no idle fiber is armed.
OpenInterrupted ==
    /\ opener.at \in {"opening", "attaching", "pumping", "joining"}
    /\ Upset
    /\ opener' = Free
    /\ stage' = IF opener.at = "opening" THEN [stage EXCEPT ![opener.rt] = "failed"] ELSE stage
    /\ pump' \in {pump} \cup
          IF opener.at = "pumping" THEN {[pump EXCEPT ![opener.rt] = "running"]} ELSE {}
    /\ \/ opener.at = "joining" /\ Attach(opener.for)
       \/ UNCHANGED <<attached, row>>
    /\ orphan' = (orphan \/ (opener.at \in {"attaching", "pumping"} /\ live = opener.rt))
    /\ UNCHANGED <<idVars, live, busy, generation, pins, strays, leaks, served, cutoff,
                   timerVars, turn, detaching, request, asked, starts>>

Opener ==
    \/ OpenJoins \/ JoinFails \/ OpenFails \/ OpenInserts \/ AttachWrites \/ AttachFails
    \/ OpenUndone \/ PumpStarts

-----------------------------------------------------------------------------
(* startTurn on the runtime that open returned, which may be gone by now.  *)

TurnAttaches(t) ==
    /\ turn[t].at = "held"
    /\ Attach(t)
    /\ turn' = [turn EXCEPT ![t].at = "attached"]
    /\ UNCHANGED <<idVars, live, busy, generation, pins, historyVars, runtimeVars, timerVars,
                   opener, detaching, request, asked, countVars>>

\* markBusy, by id: whichever runtime is live counts the turn.
MarkBusy(t) ==
    /\ turn[t].at = "attached"
    /\ turn' = [turn EXCEPT ![t] = [@ EXCEPT !.at = "starting", !.counted = live]]
    /\ IF live = 0
       THEN UNCHANGED <<busy, pins, timers>>
       ELSE busy' = busy + 1 /\ pins' = 0 /\ timers' = Disarmed
    /\ UNCHANGED <<idVars, live, attached, generation, historyVars, runtimeVars, rearm,
                   opener, detaching, recordVars, countVars>>

Lowered == IF busy > 0 THEN busy - 1 ELSE 0

\* markIdle, by id, and the idle release it schedules.
MarkIdle(t) ==
    /\ busy' = Lowered
    /\ strays' = IF live # 0 /\ (busy > 0) # (turn[t].counted = live)
                   THEN IF busy > 0 THEN strays + 1 ELSE strays - 1
                   ELSE strays
    /\ Schedule(Lowered)
    /\ turn' = [turn EXCEPT ![t] = NoTurn]

TurnAccepted(t) ==
    /\ turn[t].at = "starting"
    /\ stage[turn[t].on] = "open"
    /\ turn' = [turn EXCEPT ![t].at = "running"]
    /\ UNCHANGED <<idVars, entryVars, runtimeVars, timerVars, opener, detaching, recordVars,
                   countVars>>

\* A /compact message runs as a turn of its own, compactThread, which the manager
\* neither attaches nor counts.
Compacts(t) ==
    /\ turn[t].at = "held"
    /\ stage[turn[t].on] = "open"
    /\ turn' = [turn EXCEPT ![t].at = "running"]
    /\ UNCHANGED <<idVars, entryVars, runtimeVars, timerVars, opener, detaching, recordVars,
                   countVars>>

\* The effect fails or is cancelled before its turn is counted.
TurnDropped(t) ==
    /\ turn[t].at \in {"held", "attached"}
    /\ Upset
    /\ turn' = [turn EXCEPT ![t] = NoTurn]
    /\ UNCHANGED <<idVars, entryVars, runtimeVars, timerVars, opener, detaching, recordVars,
                   starts>>

\* The effect is cancelled while the runtime starts the turn.  Only an error
\* makes startTurn mark the session idle again; a turn that the runtime went on
\* to start still ends, as one that was accepted does.
StartInterrupted(t) ==
    /\ turn[t].at = "starting"
    /\ Upset
    /\ leaks' = IF live # 0 /\ turn[t].counted = live THEN leaks + 1 ELSE leaks
    /\ turn' = [turn EXCEPT ![t] = NoTurn]
    /\ UNCHANGED <<idVars, live, attached, busy, generation, pins, strays, orphan,
                   runtimeVars, timerVars, opener, detaching, recordVars, starts>>

\* Mutant: a rejected start leaves its count.
TurnRejected_StaysBusy(t) ==
    /\ turn[t].at = "starting"
    /\ turn' = [turn EXCEPT ![t] = NoTurn]
    /\ UNCHANGED <<idVars, entryVars, runtimeVars, timerVars, opener, detaching, recordVars,
                   countVars>>

TurnRejected(t) ==
    /\ turn[t].at = "starting"
    /\ MarkIdle(t)
    /\ UNCHANGED <<idVars, live, attached, generation, pins, leaks, orphan, runtimeVars,
                   opener, detaching, recordVars, countVars>>

\* The pump reads turn.terminal, of a removed runtime too.
TurnEnds(t) ==
    /\ turn[t].at = "running"
    /\ pump[turn[t].on] = "running"
    /\ MarkIdle(t)
    /\ UNCHANGED <<idVars, live, attached, generation, pins, leaks, orphan, runtimeVars,
                   opener, detaching, recordVars, countVars>>

\* The runtime's events ended before the turn did.
TurnIsLost(t) ==
    /\ turn[t].at = "running"
    /\ live # turn[t].on
    /\ pump[turn[t].on] # "running"
    /\ turn' = [turn EXCEPT ![t] = NoTurn]
    /\ UNCHANGED <<idVars, entryVars, runtimeVars, timerVars, opener, detaching, recordVars,
                   countVars>>

Turns(t) ==
    \/ TurnAttaches(t) \/ MarkBusy(t) \/ TurnAccepted(t) \/ TurnRejected(t)
    \/ Compacts(t) \/ TurnDropped(t) \/ StartInterrupted(t)
    \/ TurnEnds(t) \/ TurnIsLost(t)

\* steerTurn, interruptTurn, respondToRuntimeRequest, get, and every event but
\* turn.terminal: touchActivity.
Touch ==
    /\ live # 0
    /\ busy = 0
    /\ Upset
    /\ Schedule(busy)
    /\ UNCHANGED <<idVars, entryVars, runtimeVars, opener, turn, detaching, recordVars,
                   starts>>

-----------------------------------------------------------------------------
(* Idle fibers                                                             *)

Unowned(g) == [gen |-> g, own |-> FALSE, probed |-> 0]

\* scheduleIdleReleaseInternal from the fork on.  An idle fiber forked for an
\* entry that went or got busy meanwhile belongs to nobody, and sleeps on.
Rearm(g) ==
    /\ BagIn(g, rearm)
    /\ rearm' = rearm (-) SetToBag({g})
    /\ IF live = 0 \/ busy > 0
       THEN /\ timers' = timers \cup {Unowned(g)}
            /\ UNCHANGED <<generation, orphan>>
       ELSE /\ timers' = {[x EXCEPT !.own = FALSE] : x \in timers}
                           \cup {[gen |-> g, own |-> TRUE, probed |-> 0]}
            /\ generation' = g /\ orphan' = FALSE
    /\ UNCHANGED <<idVars, live, attached, busy, pins, strays, leaks, runtimeVars, opener,
                   turn, detaching, recordVars, countVars>>

\* A cancelled effect is interrupted there: the old fiber is gone, and the new one
\* is not forked, or not made the entry's.
RearmInterrupted(g) ==
    /\ BagIn(g, rearm)
    /\ Upset
    /\ rearm' = rearm (-) SetToBag({g})
    /\ timers' \in {timers, timers \cup {Unowned(g)}}
    /\ orphan' = (live # 0)
    /\ UNCHANGED <<idVars, live, attached, busy, generation, pins, strays, leaks,
                   runtimeVars, opener, turn, detaching, recordVars, starts>>

\* Mutant: a turn that started meanwhile is not seen.
StillIdle_IgnoresBusy(x) == live # 0 /\ generation = x.gen

StillIdle(x) == live # 0 /\ busy = 0 /\ generation = x.gen

\* releaseIfStillIdle asks the runtime for pending background work.
IdleProbes(x) ==
    /\ x \in timers
    /\ x.probed = 0
    /\ timers' = (timers \ {x}) \cup
                   IF StillIdle(x) THEN {[x EXCEPT !.probed = live]} ELSE {}
    /\ UNCHANGED <<idVars, entryVars, runtimeVars, rearm, opener, turn, detaching,
                   recordVars, countVars>>

\* Mutant: the release is put off and never looked at again.
IdlePinned_Once(x) ==
    /\ x \in timers
    /\ x.probed # 0
    /\ pins < MaxPins
    /\ pins' = IF StillIdle(x) /\ live = x.probed THEN pins + 1 ELSE pins
    /\ timers' = timers \ {x}
    /\ UNCHANGED <<idVars, live, attached, busy, generation, historyVars, runtimeVars,
                   rearm, opener, turn, detaching, recordVars, countVars>>

\* There is some: the release is put off, unless the entry moved on.
IdlePinned(x) ==
    /\ x \in timers
    /\ x.probed # 0
    /\ pins < MaxPins
    /\ IF StillIdle(x) /\ live = x.probed
       THEN pins' = pins + 1 /\ timers' = (timers \ {x}) \cup {[x EXCEPT !.probed = 0]}
       ELSE UNCHANGED pins /\ timers' = timers \ {x}
    /\ UNCHANGED <<idVars, live, attached, busy, generation, historyVars, runtimeVars,
                   rearm, opener, turn, detaching, recordVars, countVars>>

\* There is none, or the release was put off long enough.  This release cancels
\* no other idle fiber: the entry's own is nobody's from here on.
IdleReleases(x) ==
    /\ x \in timers
    /\ x.probed # 0
    /\ IF StillIdle(x)
       THEN Remove /\ timers' = {[y EXCEPT !.own = FALSE] : y \in timers \ {x}}
       ELSE timers' = timers \ {x} /\ UNCHANGED <<entryVars, stage, served, cutoff>>
    /\ UNCHANGED <<idVars, pump, rearm, opener, turn, detaching, recordVars, countVars>>

Idle(x) == IdleProbes(x) \/ IdlePinned(x) \/ IdleReleases(x)

-----------------------------------------------------------------------------
(* Other releases                                                          *)

\* close, closeInstance
Close ==
    /\ Upset
    /\ Remove
    /\ timers' = Disarmed
    /\ UNCHANGED <<idVars, pump, rearm, opener, turn, detaching, recordVars, starts>>

\* The runtime's event stream ends or fails; the pump releases its own runtime.
PumpEnds(r) ==
    /\ pump[r] = "running"
    /\ pump' = [pump EXCEPT ![r] = "ended"]
    /\ IF live = r
       THEN Remove /\ timers' = Disarmed
       ELSE UNCHANGED <<entryVars, stage, served, cutoff, timers>>
    /\ UNCHANGED <<idVars, rearm, opener, turn, detaching, recordVars, countVars>>

\* persistProviderSessionUpdate: the live runtime reports its own status.
PumpReports(r) ==
    /\ pump[r] = "running"
    /\ live = r
    /\ attached # {}
    /\ row' \in {"ready", "stopped"}
    /\ UNCHANGED <<idVars, entryVars, runtimeVars, timerVars, opener, turn, detaching,
                   request, asked, countVars>>

\* A command takes the thread off the session's row and leaves a detach effect.
\* (For a thread that is not attached the effect would find nothing to do.)
Unbind(t) ==
    /\ t \in attached \ detaching
    /\ Upset
    /\ detaching' = detaching \cup {t}
    /\ UNCHANGED <<idVars, entryVars, runtimeVars, timerVars, opener, turn, row, request,
                   asked, starts>>

\* detach: an exclusive runtime without threads is released, a shared one
\* stays for others.
Detach(t) ==
    /\ t \in detaching
    /\ turn[t].at \in {"none", "running"}
    /\ opener.at = "free" \/ opener.for # t
    /\ detaching' = detaching \ {t}
    /\ IF live # 0 /\ t \in attached
       THEN IF attached = {t} /\ kind = "exclusive"
            THEN RemoveFor({}) /\ timers' = Disarmed /\ UNCHANGED rearm
            ELSE /\ attached' = attached \ {t}
                 /\ Schedule(busy)
                 /\ UNCHANGED <<live, busy, generation, pins, historyVars, stage, served,
                              cutoff>>
       ELSE UNCHANGED <<entryVars, stage, served, cutoff, timerVars>>
    /\ UNCHANGED <<idVars, pump, opener, turn, recordVars, countVars>>

-----------------------------------------------------------------------------
(* Requests of the provider, and the records a release leaves              *)

\* A request is written while its runtime is live: by the pump, which checks
\* that under the entry's permit, or by the ingestion of a running turn.
Ask(r, t) ==
    /\ live = r
    /\ pump[r] = "running"
    /\ t \in attached \/ (turn[t].at = "running" /\ turn[t].on = r)
    /\ asked < MaxRequests
    /\ asked' = asked + 1
    /\ request' = [request EXCEPT ![asked + 1] = [from |-> r, thread |-> t, at |-> "pending"]]
    /\ UNCHANGED <<idVars, entryVars, runtimeVars, timerVars, opener, turn, detaching, row,
                   countVars>>

\* Mutant: no cutoff, the requests of a replacement are settled too.
Settled_NoCutoff(r) ==
    [i \in Requests |->
        IF request[i].at = "pending" /\ request[i].thread \in served[r]
        THEN [request[i] EXCEPT !.at = "settled"] ELSE request[i]]

\* writeReleasedRuntimeRequestEvents: pending requests of the id, in the threads
\* the runtime served, that are not younger than its removal.
Settled(r) ==
    [i \in Requests |->
        IF request[i].at = "pending" /\ request[i].thread \in served[r] /\ i <= cutoff[r]
        THEN [request[i] EXCEPT !.at = "settled"] ELSE request[i]]

\* writeReleasedSessionEvents: one event per thread, all for the one row.
Stopped(r) == IF served[r] = {} THEN row ELSE "stopped"

\* Mutant: what could not be written is not tried again.
Record_Once(r) ==
    /\ stage[r] = "closing"
    /\ ~(opener.at = "attaching" /\ opener.rt = r)
    /\ stage' = [stage EXCEPT ![r] = "released"]
    /\ \/ row' = Stopped(r) /\ request' = Settled(r) /\ UNCHANGED upsets
       \/ UNCHANGED <<row, request>> /\ Upset
    /\ UNCHANGED <<idVars, entryVars, pump, served, cutoff, timerVars, opener, turn,
                   detaching, asked, starts>>

\* When the scope is closed, or has not closed in time: writeReleaseRecords
\* records the session's status and settles its requests, each whether or not
\* the other could be written.  A session removed while its attachment is being
\* written queued for the write lane later.
Record(r) ==
    /\ stage[r] = "closing"
    /\ ~(opener.at = "attaching" /\ opener.rt = r)
    /\ \E status, requests \in BOOLEAN :
          /\ row' = IF status THEN Stopped(r) ELSE row
          /\ request' = IF requests THEN Settled(r) ELSE request
          /\ IF status /\ requests
             THEN stage' = [stage EXCEPT ![r] = "released"] /\ UNCHANGED upsets
             ELSE stage' = [stage EXCEPT ![r] = "retrying"] /\ Upset
    /\ UNCHANGED <<idVars, entryVars, pump, served, cutoff, timerVars, opener, turn,
                   detaching, asked, starts>>

\* Mutant: a replacement ends the retry, the requests stay.
RetryRecords_SkipsReplaced(r) ==
    /\ stage[r] = "retrying"
    /\ opener.at = "free"
    /\ stage' = [stage EXCEPT ![r] = "released"]
    /\ IF live = 0
       THEN row' = Stopped(r) /\ request' = Settled(r)
       ELSE UNCHANGED <<row, request>>
    /\ UNCHANGED <<idVars, entryVars, pump, served, cutoff, timerVars, opener, turn,
                   detaching, asked, countVars>>

\* retryReleaseRecords, under the open lock: a replacement keeps its status.
RetryRecords(r) ==
    /\ stage[r] = "retrying"
    /\ opener.at = "free"
    /\ \/ /\ stage' = [stage EXCEPT ![r] = "released"]
          /\ row' = IF live = 0 THEN Stopped(r) ELSE row
          /\ request' = Settled(r)
          /\ UNCHANGED upsets
       \/ /\ Upset
          /\ UNCHANGED <<stage, row, request>>
    /\ UNCHANGED <<idVars, entryVars, pump, served, cutoff, timerVars, opener, turn,
                   detaching, asked, starts>>

Release(r) == Record(r) \/ RetryRecords(r)

-----------------------------------------------------------------------------

Next ==
    \/ \E t \in Threads : Opens(t) \/ Turns(t) \/ Unbind(t) \/ Detach(t)
    \/ Opener \/ OpenInterrupted
    \/ Touch \/ Close
    \/ \E g \in BagToSet(rearm) : Rearm(g) \/ RearmInterrupted(g)
    \/ \E x \in timers : Idle(x)
    \/ \E r \in Runtimes : PumpReports(r) \/ PumpEnds(r) \/ Release(r)
    \/ \E r \in Runtimes, t \in Threads : Ask(r, t)

Spec == Init /\ [][Next]_vars

-----------------------------------------------------------------------------
(* Properties                                                              *)

Unrecorded == {"closing", "retrying"}
Counted    == {t \in Threads : live # 0 /\ turn[t].counted = live}

\* The busy count of the live session is the number of turns it was told of,
\* but for what two histories account for: strays, ends of turns it never
\* counted (a compaction's, or one's of a runtime that it replaced), and leaks,
\* starts that were interrupted.  Whatever else opens, releases, rejections and
\* late ends do, no turn is counted twice or forgotten.  A count too low lets an
\* idle fiber end a working session, one too high keeps an unused session.
BusyIsExact == busy + strays = Cardinality(Counted) + leaks

\* An idle fiber that releases a session, one that decided before the turns came
\* or one left over from an earlier generation or an earlier runtime included,
\* cuts short no turn that the session counts, but for one per end that it was
\* told of and that was none of its turns'.
NeverCutShort ==
    [][(\E x \in timers : IdleReleases(x)) /\ live # 0 /\ live' = 0
         => Cardinality(Counted) <= strays]_vars

\* A request that waits for an answer can get one, or is about to be settled:
\* its runtime is live or has not recorded its end, if its thread was served by
\* the runtime to the end.  No approval survives a release, its retries, or a
\* replacement that opened meanwhile.
LeftoversAreSettled ==
    \A i \in Requests :
        (request[i].at = "pending" /\ request[i].thread \in served[request[i].from])
            => stage[request[i].from] \in Unrecorded

\* A release settles its own requests, never those of the runtime that replaced
\* it under the same id and in the same thread.
ReplacementKeepsItsRequests ==
    \A i \in Requests : request[i].at = "settled" => stage[request[i].from] \notin {"open"}

\* A session shown as ready is live, or its release is still to be recorded, or
\* no thread was attached to it in the end.
ReadyIsLive ==
    row = "ready" =>
        \/ live # 0
        \/ \E r \in Runtimes : stage[r] \in Unrecorded
        \/ \E r \in Runtimes : stage[r] = "released" /\ served[r] = {}

\* Once its open is done, a live session without a turn of its own has an idle
\* fiber that can release it, or is about to get one, unless the interruption of
\* an effect left it a count of a start that never ended or took the fiber it was
\* about to get.  No order of joins, turns, touches, detaches and fibers that
\* re-arm each other, and no count lowered by a stray, does that.
UnusedIsWatched ==
    (live # 0 /\ Counted = {} /\ opener.at \notin {"attaching", "pumping"})
        => \/ rearm # EmptyBag
           \/ \E x \in timers : x.gen = generation
           \/ leaks > 0 \/ orphan

\* A release resolves the live requests its session left (comment at
\* writeReleaseRecords, ProviderSessionManager.ts).  A detach takes the thread
\* off the entry before it releases the runtime, which then settles nothing.
NoRequestIsLeftBehind ==
    \A i \in Requests :
        request[i].at = "pending" => stage[request[i].from] # "released"

=============================================================================
