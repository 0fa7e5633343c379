------------------------ MODULE ProviderSessionsProofs ------------------------
(***************************************************************************)
(* Theorems about ProviderSessions, for any threads and any bounds.        *)
(***************************************************************************)
EXTENDS ProviderSessions, FiniteSetTheorems, TLAPS

Removed == {"closing", "retrying", "released"}
Opened  == Removed \cup {"open"}

\* The entry in the map is the one runtime that is open.
LiveIsOpen == \A r \in Runtimes : stage[r] = "open" <=> live = r

\* What the holder of the open lock works on.
LockHolds ==
    /\ opener.at # "free" =>
          opener.for \in Threads /\ opener.rt \in Runtimes /\ turn[opener.for].at = "none"
    /\ opener.at \in {"attaching", "pumping"} => live \in {0, opener.rt}
    /\ opener.at = "opening" => stage[opener.rt] = "opening" /\ live = 0
    /\ opener.at \in {"attaching", "pumping", "joining",
        "undoing"} => stage[opener.rt] \in Opened
    /\ opener.at = "attaching" => stage[opener.rt] \in {"open", "closing"}

\* Nothing is left in the state of the entry when there is none.
EntryHolds ==
    live = 0 => /\ attached = {} /\ busy = 0 /\ generation = 0 /\ pins = 0
                /\ strays = 0 /\ leaks = 0 /\ orphan = FALSE

\* Requests are numbered in the order they were asked; each runtime's removal
\* comes after its own requests and before any of a runtime that is open.
RequestsHold ==
    /\ \A i \in Requests : i > asked => request[i].at = "none" /\ request[i].from = 0
    /\ \A i \in Requests : i <= asked =>
          request[i].from \in Runtimes /\ stage[request[i].from] \in Opened
CutoffsHold ==
    \A r \in Runtimes :
        /\ cutoff[r] <= asked
        /\ \A i \in Requests : i <= cutoff[r] => stage[request[i].from] # "open"
        /\ stage[r] \in Removed =>
              \A i \in Requests : request[i].from = r => i <= cutoff[r]
ServedHold == \A r \in Runtimes : stage[r] \notin Removed => served[r] = {}

\* A turn that starts on the live runtime is counted by it; one that runs is
\* counted by the runtime it is called on, or is a compaction and not counted.
TurnsHold ==
    \A t \in Threads :
        /\ turn[t].on # 0 => stage[turn[t].on] \in Opened
        /\ turn[t].counted # 0 => stage[turn[t].counted] \in Opened
        /\ turn[t].at # "none" => turn[t].on # 0
        /\ turn[t].at \in {"none", "held", "attached"} => turn[t].counted = 0
        /\ (turn[t].at = "starting" /\ turn[t].on = live) => turn[t].counted = live
        /\ turn[t].at = "running" => turn[t].counted \in {0, turn[t].on}

\* The entry's own idle fiber goes with the entry.
TimersHold ==
    \A x \in timers : x.own => live # 0 /\ x.probed \in {0, live}

\* The witness of UnusedIsWatched: a busy count of zero comes with a fiber, and it
\* is the entry's own.
Watched ==
    (live # 0 /\ busy = 0 /\ opener.at \notin {"attaching", "pumping"})
        => orphan \/ rearm # EmptyBag \/ \E x \in timers : x.own /\ x.gen = generation

IInv ==
    /\ TypeOK /\ LiveIsOpen /\ LockHolds /\ EntryHolds /\ RequestsHold /\ CutoffsHold
    /\ ServedHold /\ TurnsHold /\ TimersHold /\ Watched /\ BusyIsExact /\ LeftoversAreSettled
    /\ ReplacementKeepsItsRequests /\ ReadyIsLive

\* The steps of a turn that schedule nothing.
Aside(t) == Compacts(t) \/ TurnDropped(t) \/ StartInterrupted(t) \/ TurnIsLost(t)

-----------------------------------------------------------------------------
(* What the operations that several actions share do.                      *)

\* The pending re-arms are a bag of generations.
LEMMA RearmAdded ==
    ASSUME NEW B, IsABag(B), BagToSet(B) \subseteq Nat, NEW g \in Nat
    PROVE  /\ IsABag(B (+) SetToBag({g}))
           /\ BagToSet(B (+) SetToBag({g})) \subseteq Nat
           /\ B (+) SetToBag({g}) # EmptyBag
  <1> DEFINE C == B (+) SetToBag({g})
  <1>1. C = [e \in DOMAIN B \cup {g} |->
                (IF e \in DOMAIN B THEN B[e] ELSE 0) + (IF e \in {g} THEN 1 ELSE 0)]
    BY DEF (+), SetToBag
  <1>2. DOMAIN C = DOMAIN B \cup {g}
    BY <1>1
  <1>3. \A e \in DOMAIN C : C[e] \in Nat /\ C[e] > 0
    BY <1>1 DEF IsABag
  <1>4. DOMAIN EmptyBag = {}
    BY DEF EmptyBag, SetToBag
  <1> QED BY <1>1, <1>2, <1>3, <1>4 DEF IsABag, BagToSet

LEMMA RearmTaken ==
    ASSUME NEW B, IsABag(B), BagToSet(B) \subseteq Nat, NEW g \in Nat
    PROVE  IsABag(B (-) SetToBag({g})) /\ BagToSet(B (-) SetToBag({g})) \subseteq Nat
  <1> DEFINE S == SetToBag({g})
             D == [e \in DOMAIN B |-> IF e \in DOMAIN S THEN B[e] - S[e] ELSE B[e]]
             C == B (-) S
  <1>1. C = [e \in {d \in DOMAIN D : D[d] > 0} |-> D[e]]
    BY DEF (-)
  <1>2. DOMAIN S = {g} /\ S[g] = 1
    BY DEF SetToBag
  <1>3. \A e \in DOMAIN B : B[e] \in Nat /\ B[e] > 0
    BY DEF IsABag
  <1>4. \A e \in DOMAIN D : D[e] \in Int
    BY <1>2, <1>3
  <1>5. DOMAIN D = DOMAIN B
    OBVIOUS
  <1> HIDE DEF C, D
  <1>6. DOMAIN C = {d \in DOMAIN D : D[d] > 0} /\ C = [e \in DOMAIN C |-> D[e]]
    BY <1>1
  <1>7. \A e \in DOMAIN C : e \in DOMAIN B /\ D[e] \in Nat /\ D[e] > 0
    BY <1>4, <1>5, <1>6
  <1> QED BY <1>6, <1>7 DEF IsABag, BagToSet, C

\* What scheduling an idle release does to the fibers, while no other fiber runs.
LEMMA ScheduleFacts ==
    ASSUME TypeOK, NEW count \in Nat, Schedule(count)
    PROVE  /\ timers' \subseteq timers
           /\ IsABag(rearm') /\ BagToSet(rearm') \subseteq Nat
           /\ (live # 0 /\ count = 0) => rearm' # EmptyBag
           /\ ~(live # 0 /\ count = 0) => timers' = timers /\ rearm' = rearm
  <1>1. CASE live # 0 /\ count = 0
    <2>1. timers' = Disarmed /\ rearm' = rearm (+) SetToBag({generation + 1})
      BY <1>1 DEF Schedule
    <2>2. generation + 1 \in Nat /\ IsABag(rearm) /\ BagToSet(rearm) \subseteq Nat
      BY DEF TypeOK
    <2> QED BY <1>1, <2>1, <2>2, RearmAdded DEF Disarmed
  <1>2. CASE ~(live # 0 /\ count = 0)
    BY <1>2 DEF Schedule, timerVars, TypeOK
  <1> QED BY <1>1, <1>2

\* An idle fiber that is nobody's any more, or is asked again, stays a fiber.
LEMMA FiberFacts ==
    ASSUME TypeOK, NEW x \in timers
    PROVE  LET free == [x EXCEPT !.own = FALSE]
               wait == [x EXCEPT !.probed = 0]
           IN  /\ free \in [gen : Nat, own : BOOLEAN, probed : Runtimes \cup {0}]
               /\ free.gen = x.gen /\ free.own = FALSE /\ free.probed = x.probed
               /\ wait \in [gen : Nat, own : BOOLEAN, probed : Runtimes \cup {0}]
               /\ wait.gen = x.gen /\ wait.own = x.own /\ wait.probed = 0
  <1>1. x \in [gen : Nat, own : BOOLEAN, probed : Runtimes \cup {0}]
    BY DEF TypeOK
  <1> QED BY <1>1

LEMMA LoweredFacts ==
    ASSUME TypeOK
    PROVE  Lowered \in Nat
  BY DEF Lowered, TypeOK

\* A release that records its end moves its runtime on and settles only its own
\* requests; once it is done none of them is pending.
LEMMA RecordingFacts ==
    ASSUME TypeOK, NEW r \in Runtimes, Release(r)
    PROVE  /\ stage[r] \in {"closing", "retrying"} /\ stage'[r] \in {"retrying", "released"}
           /\ stage' \in [Runtimes -> Stages]
           /\ \A o \in Runtimes : o # r => stage'[o] = stage[o]
           /\ \A i \in Requests :
                /\ request'[i].from = request[i].from /\ request'[i].thread = request[i].thread
                /\ \/ request'[i].at = request[i].at
                   \/ request'[i].at = "settled" /\ request[i].at = "pending" /\ i <= cutoff[r]
                /\ stage'[r] = "released" =>
                      ~(/\ request'[i].at = "pending" /\ request[i].thread \in served[r]
                        /\ i <= cutoff[r])
           /\ UNCHANGED <<idVars, entryVars, pump, served, cutoff, timerVars, turn, opener,
                          detaching, asked, starts>>
           /\ opener.at = "attaching" => opener.rt # r
           /\ request' \in {request, Settled(r)}
  <1>1. /\ stage[r] \in {"closing", "retrying"}
        /\ stage' \in {stage, [stage EXCEPT ![r] = "released"],
            [stage EXCEPT ![r] = "retrying"]}
        /\ request' \in {request, Settled(r)}
        /\ stage' = [stage EXCEPT ![r] = "released"] => request' = Settled(r)
        /\ stage' = stage => stage[r] = "retrying"
        /\ UNCHANGED <<idVars, entryVars, pump, served, cutoff, timerVars, turn, opener,
                       detaching, asked, starts>>
        /\ opener.at = "attaching" => opener.rt # r
    <2>1. CASE Record(r)
      <3>1. PICK status \in BOOLEAN, requests \in BOOLEAN :
                 /\ request' = IF requests THEN Settled(r) ELSE request
                 /\ IF status /\ requests
                    THEN stage' = [stage EXCEPT ![r] = "released"] /\ UNCHANGED upsets
                    ELSE stage' = [stage EXCEPT ![r] = "retrying"] /\ Upset
        BY <2>1 DEF Record
      <3>2. [stage EXCEPT ![r] = "released"] # [stage EXCEPT ![r] = "retrying"]
        BY DEF TypeOK
      <3>3. stage[r] = "closing" /\ [stage EXCEPT ![r] = "released"] # stage
                                /\ [stage EXCEPT ![r] = "retrying"] # stage
        BY <2>1 DEF Record, TypeOK
      <3>4. /\ stage[r] = "closing" /\ ~(opener.at = "attaching" /\ opener.rt = r)
            /\ UNCHANGED <<idVars, entryVars, pump, served, cutoff, timerVars, opener, turn,
                           detaching, asked, starts>>
        BY <2>1 DEF Record
      <3>5. CASE status /\ requests
        BY <3>1, <3>2, <3>3, <3>4, <3>5
      <3>6. CASE ~(status /\ requests)
        BY <3>1, <3>2, <3>3, <3>4, <3>6
      <3> QED BY <3>5, <3>6
    <2>2. CASE RetryRecords(r)
      <3>1. stage[r] = "retrying" /\ [stage EXCEPT ![r] = "released"] # stage
        BY <2>2 DEF RetryRecords, TypeOK
      <3>2. /\ opener.at # "attaching"
            /\ UNCHANGED <<idVars, entryVars, pump, served, cutoff, timerVars, opener, turn,
                           detaching, asked, starts>>
        BY <2>2 DEF RetryRecords
      <3>3. \/ stage' = [stage EXCEPT ![r] = "released"] /\ request' = Settled(r)
            \/ stage' = stage /\ request' = request
        BY <2>2 DEF RetryRecords
      <3> QED BY <3>1, <3>2, <3>3
    <2> QED BY <2>1, <2>2 DEF Release
  <1>2. \A i \in Requests :
            /\ Settled(r)[i].from = request[i].from /\ Settled(r)[i].thread = request[i].thread
            /\ \/ Settled(r)[i].at = request[i].at
               \/ Settled(r)[i].at = "settled" /\ request[i].at = "pending" /\ i <= cutoff[r]
            /\ ~(Settled(r)[i].at = "pending" /\ request[i].thread \in served[r] /\ i <= cutoff[r])
    BY DEF Settled, TypeOK
  <1>3. /\ stage' \in [Runtimes -> Stages]
        /\ stage'[r] \in {"retrying", "released"}
        /\ \A o \in Runtimes : o # r => stage'[o] = stage[o]
        /\ stage'[r] = "released" => stage' = [stage EXCEPT ![r] = "released"]
    BY <1>1 DEF TypeOK, Stages
  <1> QED BY <1>1, <1>2, <1>3

\* The actions that may remove the entry either do so, for some of its threads, or
\* leave it and the runtimes alone.
Removing ==
    \/ AttachFails \/ Close
    \/ \E x \in timers : IdleReleases(x)
    \/ \E r \in Runtimes : PumpEnds(r)
    \/ \E t \in Threads : Detach(t)

LEMMA RemovingFacts ==
    ASSUME TypeOK, Removing
    PROVE  /\ UNCHANGED <<turn, row, request, asked>>
           /\ \/ \E threads \in SUBSET Threads : RemoveFor(threads)
              \/ UNCHANGED <<live, busy, generation, strays, leaks, orphan, stage, served,
                  cutoff>>
  <1>1. attached \in SUBSET Threads /\ {} \in SUBSET Threads
    BY DEF TypeOK
  <1>2. CASE AttachFails \/ Close
    BY <1>1, <1>2 DEF AttachFails, Close, Remove, entryVars, historyVars, recordVars
  <1>3. ASSUME NEW x \in timers, IdleReleases(x)
        PROVE  /\ UNCHANGED <<turn, row, request, asked>>
               /\ \/ \E threads \in SUBSET Threads : RemoveFor(threads)
                  \/ UNCHANGED <<live, busy, generation, strays, leaks, orphan, stage,
                      served, cutoff>>
    BY <1>1, <1>3 DEF IdleReleases, Remove, entryVars, historyVars, recordVars
  <1>4. ASSUME NEW r \in Runtimes, PumpEnds(r)
        PROVE  /\ UNCHANGED <<turn, row, request, asked>>
               /\ \/ \E threads \in SUBSET Threads : RemoveFor(threads)
                  \/ UNCHANGED <<live, busy, generation, strays, leaks, orphan, stage,
                      served, cutoff>>
    BY <1>1, <1>4 DEF PumpEnds, Remove, entryVars, historyVars, recordVars
  <1>5. ASSUME NEW t \in Threads, Detach(t)
        PROVE  /\ UNCHANGED <<turn, row, request, asked>>
               /\ \/ \E threads \in SUBSET Threads : RemoveFor(threads)
                  \/ UNCHANGED <<live, busy, generation, strays, leaks, orphan, stage,
                      served, cutoff>>
    BY <1>1, <1>5 DEF Detach, entryVars, historyVars, recordVars
  <1> QED BY <1>2, <1>3, <1>4, <1>5 DEF Removing

-----------------------------------------------------------------------------
(* What the busy count counts.                                             *)

LEMMA CountedIsFinite ==
    IsFiniteSet(Counted) /\ Cardinality(Counted) \in Nat
  BY SessionAssumption, FS_Subset, FS_CardinalityType DEF Counted

\* A step that tells no entry of a turn leaves the count as it is.
LEMMA CountKept ==
    ASSUME BusyIsExact, UNCHANGED <<live, busy, strays, leaks>>,
           \A t \in Threads : turn'[t].counted = turn[t].counted
    PROVE  BusyIsExact'
  <1>1. Counted' = Counted
    BY DEF Counted
  <1> QED BY <1>1 DEF BusyIsExact

\* A turn that is over takes the count down, by one of its own or as a stray.
LEMMA CountLowered ==
    ASSUME TypeOK, BusyIsExact, EntryHolds, NEW t \in Threads, MarkIdle(t),
           UNCHANGED <<live, leaks>>
    PROVE  BusyIsExact'
  <1>1. /\ busy' = Lowered
        /\ strays' = IF live # 0 /\ (busy > 0) # (turn[t].counted = live)
                       THEN IF busy > 0 THEN strays + 1 ELSE strays - 1
                       ELSE strays
        /\ turn' = [turn EXCEPT ![t] = NoTurn]
        /\ leaks' = leaks
    BY DEF MarkIdle
  <1>2. turn'[t].counted = 0 /\ \A o \in Threads : o # t => turn'[o] = turn[o]
    BY <1>1 DEF NoTurn, TypeOK
  <1>3. /\ IsFiniteSet(Counted) /\ Cardinality(Counted) \in Nat
        /\ busy + strays = Cardinality(Counted) + leaks
        /\ busy \in Nat /\ strays \in Nat /\ leaks \in Nat
    BY CountedIsFinite DEF BusyIsExact, TypeOK
  <1>4. CASE live = 0
    <2>1. Counted' = Counted
      BY <1>4 DEF Counted
    <2>2. busy = 0 /\ busy' = 0 /\ strays' = strays
      BY <1>1, <1>4 DEF EntryHolds, Lowered
    <2> QED BY <1>1, <1>3, <2>1, <2>2 DEF BusyIsExact
  <1>5. CASE live # 0 /\ turn[t].counted = live
    <2>1. Counted' = Counted \ {t} /\ t \in Counted
      BY <1>2, <1>5 DEF Counted
    <2>2. Cardinality(Counted') = Cardinality(Counted) - 1
      BY <1>3, <2>1, FS_RemoveElement
    <2>3. CASE busy > 0
      <3>1. busy' = busy - 1 /\ strays' = strays
        BY <1>1, <1>5, <2>3 DEF Lowered
      <3> QED BY <1>1, <1>3, <2>2, <2>3, <3>1 DEF BusyIsExact
    <2>4. CASE ~(busy > 0)
      <3>1. busy = 0 /\ busy' = 0 /\ strays' = strays - 1
        BY <1>1, <1>3, <1>5, <2>4 DEF Lowered
      <3> QED BY <1>1, <1>3, <2>2, <3>1 DEF BusyIsExact
    <2> QED BY <2>3, <2>4
  <1>6. CASE live # 0 /\ turn[t].counted # live
    <2>1. Counted' = Counted
      BY <1>2, <1>6 DEF Counted
    <2>2. CASE busy > 0
      <3>1. busy' = busy - 1 /\ strays' = strays + 1
        BY <1>1, <1>6, <2>2 DEF Lowered
      <3> QED BY <1>1, <1>3, <2>1, <3>1 DEF BusyIsExact
    <2>3. CASE ~(busy > 0)
      <3>1. busy = 0 /\ busy' = 0 /\ strays' = strays
        BY <1>1, <1>3, <1>6, <2>3 DEF Lowered
      <3> QED BY <1>1, <1>3, <2>1, <3>1 DEF BusyIsExact
    <2> QED BY <2>2, <2>3
  <1> QED BY <1>4, <1>5, <1>6

\* A removed entry counts nothing.
LEMMA CountDropped ==
    ASSUME NEW threads, RemoveFor(threads)
    PROVE  BusyIsExact'
  <1>1. Counted' = {}
    BY DEF RemoveFor, Counted
  <1> QED BY <1>1, FS_EmptySet DEF RemoveFor, BusyIsExact

-----------------------------------------------------------------------------
(* One lemma for each part of the invariant: every step keeps it.          *)

\* Every action keeps the types.  That strays stays a number is why the busy
\* count is needed: only a turn the entry counted takes a stray back.
LEMMA TypeStep ==
    ASSUME TypeOK, BusyIsExact, LockHolds, RequestsHold, LiveIsOpen, [Next]_vars
    PROVE  TypeOK'
  <1>0. ASSUME NEW threads \in SUBSET Threads, RemoveFor(threads)
        PROVE  /\ live' \in Runtimes \cup {0} /\ attached' \in SUBSET Threads
          /\ busy' \in Nat /\ generation' \in Nat /\ pins' \in Nat
          /\ strays' \in Nat /\ leaks' \in Nat /\ orphan' \in BOOLEAN
          /\ stage' \in [Runtimes -> Stages] /\ served' \in [Runtimes -> SUBSET Threads]
          /\ cutoff' \in [Runtimes -> Nat]
    BY <1>0 DEF RemoveFor, Stages, TypeOK
  <1>1. ASSUME NEW t \in Threads, Opens(t) PROVE TypeOK'
    BY <1>1 DEF Opens, entryVars, historyVars, timerVars, recordVars, idVars, TypeOK,
        LockHolds, RequestsHold, LiveIsOpen, Runtimes, Requests, Stages
  <1>2. CASE OpenJoins
    <2>1. Schedule(busy) /\ busy \in Nat
      BY <1>2 DEF OpenJoins, TypeOK
    <2>2. timers' \subseteq timers /\ IsABag(rearm') /\ BagToSet(rearm') \subseteq Nat
      BY <2>1, ScheduleFacts
    <2>3. turn' \in [Threads -> [at : {"none", "held", "attached", "starting", "running"},
                           on : Runtimes \cup {0}, counted : Runtimes \cup {0}]]
      BY ZenonT(40), <1>2 DEF OpenJoins, TypeOK
    <2>4. attached' \in SUBSET Threads /\ row' \in {"none", "ready", "stopped"}
      BY <1>2 DEF OpenJoins, Attach, LockHolds, TypeOK
    <2>5. opener' \in [at : {"free", "opening", "attaching", "pumping", "joining",
                       "undoing"}, for : Threads \cup {0}, rt : Runtimes \cup {0}]
      BY <1>2 DEF OpenJoins, Free
    <2> QED
      BY <1>2, <2>2, <2>3, <2>4, <2>5
         DEF OpenJoins, historyVars, runtimeVars, idVars, countVars, TypeOK
  <1>3. CASE JoinFails
    BY <1>3 DEF JoinFails, Upset, Free, entryVars, historyVars, runtimeVars, timerVars,
        recordVars, idVars, TypeOK, LockHolds, RequestsHold, LiveIsOpen, Runtimes,
        Requests, Stages
  <1>4. CASE OpenFails
    BY <1>4 DEF OpenFails, Upset, Free, entryVars, historyVars, timerVars, recordVars,
        idVars, TypeOK, LockHolds, RequestsHold, LiveIsOpen, Runtimes, Requests, Stages
  <1>5. CASE OpenInserts
    BY <1>5 DEF OpenInserts, historyVars, timerVars, recordVars, idVars, countVars, TypeOK,
        LockHolds, RequestsHold, LiveIsOpen, Runtimes, Requests, Stages
  <1>6. CASE AttachWrites
    BY <1>6 DEF AttachWrites, entryVars, historyVars, runtimeVars, timerVars, idVars,
        countVars, TypeOK, LockHolds, RequestsHold, LiveIsOpen, Runtimes, Requests, Stages
  <1>7. CASE AttachFails
    <2>0. opener' \in [at : {"free", "opening", "attaching", "pumping", "joining",
                       "undoing"}, for : Threads \cup {0}, rt : Runtimes \cup {0}]
      BY <1>7 DEF AttachFails, TypeOK
    <2>1. CASE live # 0
      <3>1. /\ live' \in Runtimes \cup {0} /\ attached' \in SUBSET Threads
            /\ busy' \in Nat /\ generation' \in Nat /\ pins' \in Nat
            /\ strays' \in Nat /\ leaks' \in Nat /\ orphan' \in BOOLEAN
            /\ stage' \in [Runtimes -> Stages] /\ served' \in [Runtimes -> SUBSET Threads]
            /\ cutoff' \in [Runtimes -> Nat]
        BY <1>0, <1>7, <2>1 DEF AttachFails, Remove, TypeOK
      <3> QED
        BY <1>7, <2>0, <2>1, <3>1
           DEF AttachFails, Upset, Disarmed, recordVars, idVars, TypeOK
    <2>2. CASE live = 0
      BY <1>7, <2>0, <2>2 DEF AttachFails, Upset, entryVars, historyVars, recordVars,
          idVars, TypeOK
    <2> QED BY <2>1, <2>2
  <1>8. CASE OpenUndone
    BY <1>8 DEF OpenUndone, Free, entryVars, historyVars, runtimeVars, timerVars,
        recordVars, idVars, countVars, TypeOK, LockHolds, RequestsHold, LiveIsOpen,
        Runtimes, Requests, Stages
  <1>9. CASE PumpStarts
    <2>1. Schedule(busy) /\ busy \in Nat
      BY <1>9 DEF PumpStarts, TypeOK
    <2>2. timers' \subseteq timers /\ IsABag(rearm') /\ BagToSet(rearm') \subseteq Nat
      BY <2>1, ScheduleFacts
    <2>3. turn' \in [Threads -> [at : {"none", "held", "attached", "starting", "running"},
                           on : Runtimes \cup {0}, counted : Runtimes \cup {0}]]
      BY ZenonT(40), <1>9 DEF PumpStarts, TypeOK
    <2>4. pump' \in [Runtimes -> {"none", "running", "ended"}]
      BY <1>9 DEF PumpStarts, TypeOK
    <2>5. opener' \in [at : {"free", "opening", "attaching", "pumping", "joining",
                       "undoing"}, for : Threads \cup {0}, rt : Runtimes \cup {0}]
      BY <1>9 DEF PumpStarts, Free
    <2> QED
      BY <1>9, <2>2, <2>3, <2>4, <2>5
         DEF PumpStarts, entryVars, historyVars, recordVars, idVars, countVars, TypeOK
  <1>10. CASE OpenInterrupted
    <2>1. stage' \in [Runtimes -> Stages] /\ pump' \in [Runtimes -> {"none", "running",
        "ended"}]
      BY <1>10 DEF OpenInterrupted, Stages, TypeOK
    <2>2. attached' \in SUBSET Threads /\ row' \in {"none", "ready", "stopped"}
      BY <1>10 DEF OpenInterrupted, Attach, LockHolds, TypeOK
    <2>3. opener' \in [at : {"free", "opening", "attaching", "pumping", "joining",
                       "undoing"}, for : Threads \cup {0}, rt : Runtimes \cup {0}]
      BY <1>10 DEF OpenInterrupted, Free
    <2>4. orphan' \in BOOLEAN
      BY <1>10 DEF OpenInterrupted, TypeOK
    <2> QED
      BY <1>10, <2>1, <2>2, <2>3, <2>4
         DEF OpenInterrupted, Upset, timerVars, idVars, TypeOK
  <1>11. ASSUME NEW t \in Threads, TurnAttaches(t) PROVE TypeOK'
    <2>1. turn' \in [Threads -> [at : {"none", "held", "attached", "starting", "running"},
                           on : Runtimes \cup {0}, counted : Runtimes \cup {0}]]
      BY ZenonT(40), <1>11 DEF TurnAttaches, TypeOK
    <2>2. attached' \in SUBSET Threads /\ row' \in {"none", "ready", "stopped"}
      BY <1>11 DEF TurnAttaches, Attach, TypeOK
    <2>3. UNCHANGED <<idVars, live, busy, generation, pins, historyVars, runtimeVars, timerVars,
                     opener, detaching, request, asked, countVars>>
      BY <1>11 DEF TurnAttaches
    <2> QED
      BY <2>1, <2>2, <2>3 DEF historyVars, runtimeVars, timerVars, idVars, countVars, TypeOK
  <1>12. ASSUME NEW t \in Threads, MarkBusy(t) PROVE TypeOK'
    <2>1. turn' \in [Threads -> [at : {"none", "held", "attached", "starting", "running"},
                           on : Runtimes \cup {0}, counted : Runtimes \cup {0}]]
      BY ZenonT(40), <1>12 DEF MarkBusy, TypeOK
    <2>2. busy' \in Nat /\ pins' \in Nat /\ timers' \subseteq timers
      BY <1>12 DEF MarkBusy, Disarmed, TypeOK
    <2>3. UNCHANGED <<strays, leaks, orphan>>
      BY <1>12 DEF MarkBusy, historyVars
    <2>4. UNCHANGED <<idVars, live, attached, generation, runtimeVars, rearm, opener,
                     detaching, recordVars, countVars>>
      BY <1>12 DEF MarkBusy
    <2>5. timers' \in SUBSET [gen : Nat, own : BOOLEAN, probed : Runtimes \cup {0}]
      BY <2>2 DEF TypeOK
    <2>6. strays' \in Nat /\ leaks' \in Nat /\ orphan' \in BOOLEAN
      BY <2>3 DEF TypeOK
    <2>7. busy' \in Nat /\ pins' \in Nat
      BY <2>2
    <2> QED
      BY <2>1, <2>4, <2>5, <2>6, <2>7
         DEF runtimeVars, recordVars, idVars, countVars, TypeOK
  <1>13. ASSUME NEW t \in Threads, TurnAccepted(t) PROVE TypeOK'
    <2>1. turn' \in [Threads -> [at : {"none", "held", "attached", "starting", "running"},
                           on : Runtimes \cup {0}, counted : Runtimes \cup {0}]]
      BY <1>13 DEF TurnAccepted, TypeOK
    <2> QED
      BY <1>13, <2>1 DEF TurnAccepted, entryVars, historyVars, runtimeVars, timerVars,
         recordVars, idVars, countVars, TypeOK
  <1>14. ASSUME NEW t \in Threads, TurnRejected(t) PROVE TypeOK'
    <2>1. turn' \in [Threads -> [at : {"none", "held", "attached", "starting", "running"},
                           on : Runtimes \cup {0}, counted : Runtimes \cup {0}]]
      BY <1>14 DEF TurnRejected, MarkIdle, NoTurn, TypeOK
    <2>2. Schedule(Lowered) /\ Lowered \in Nat
      BY <1>14, LoweredFacts DEF TurnRejected, MarkIdle
    <2>3. timers' \subseteq timers /\ IsABag(rearm') /\ BagToSet(rearm') \subseteq Nat
      BY <2>2, ScheduleFacts
    <2>4. CASE live # 0 /\ busy = 0 /\ turn[t].counted = live
      <3>1. t \in Counted /\ Counted \subseteq Threads
        BY <2>4 DEF Counted
      <3>2. Cardinality(Counted) \in Nat /\ Cardinality(Counted) # 0
        BY <3>1, SessionAssumption, FS_Subset, FS_CardinalityType, FS_EmptySet
      <3>3. strays - 1 \in Nat
        BY <2>4, <3>2 DEF BusyIsExact, TypeOK
      <3> QED
        BY <1>14, <2>1, <2>2, <2>3, <2>4, <3>3
           DEF TurnRejected, MarkIdle, runtimeVars, recordVars, idVars, countVars, TypeOK
    <2>5. CASE ~(live # 0 /\ busy = 0 /\ turn[t].counted = live)
      <3>1. strays' \in Nat
        BY <1>14, <2>5 DEF TurnRejected, MarkIdle, TypeOK
      <3> QED
        BY <1>14, <2>1, <2>2, <2>3, <3>1
           DEF TurnRejected, MarkIdle, runtimeVars, recordVars, idVars, countVars, TypeOK
    <2> QED BY <2>4, <2>5
  <1>15. ASSUME NEW t \in Threads, TurnEnds(t) PROVE TypeOK'
    <2>1. turn' \in [Threads -> [at : {"none", "held", "attached", "starting", "running"},
                           on : Runtimes \cup {0}, counted : Runtimes \cup {0}]]
      BY <1>15 DEF TurnEnds, MarkIdle, NoTurn, TypeOK
    <2>2. Schedule(Lowered) /\ Lowered \in Nat
      BY <1>15, LoweredFacts DEF TurnEnds, MarkIdle
    <2>3. timers' \subseteq timers /\ IsABag(rearm') /\ BagToSet(rearm') \subseteq Nat
      BY <2>2, ScheduleFacts
    <2>4. CASE live # 0 /\ busy = 0 /\ turn[t].counted = live
      <3>1. t \in Counted /\ Counted \subseteq Threads
        BY <2>4 DEF Counted
      <3>2. Cardinality(Counted) \in Nat /\ Cardinality(Counted) # 0
        BY <3>1, SessionAssumption, FS_Subset, FS_CardinalityType, FS_EmptySet
      <3>3. strays - 1 \in Nat
        BY <2>4, <3>2 DEF BusyIsExact, TypeOK
      <3> QED
        BY <1>15, <2>1, <2>2, <2>3, <2>4, <3>3
           DEF TurnEnds, MarkIdle, runtimeVars, recordVars, idVars, countVars, TypeOK
    <2>5. CASE ~(live # 0 /\ busy = 0 /\ turn[t].counted = live)
      <3>1. strays' \in Nat
        BY <1>15, <2>5 DEF TurnEnds, MarkIdle, TypeOK
      <3> QED
        BY <1>15, <2>1, <2>2, <2>3, <3>1
           DEF TurnEnds, MarkIdle, runtimeVars, recordVars, idVars, countVars, TypeOK
    <2> QED BY <2>4, <2>5
  <1>16. ASSUME NEW t \in Threads, TurnIsLost(t) PROVE TypeOK'
    BY <1>16 DEF TurnIsLost, NoTurn, entryVars, historyVars, runtimeVars, timerVars,
        recordVars, idVars, countVars, TypeOK, LockHolds, RequestsHold, LiveIsOpen,
        Runtimes, Requests, Stages
  <1>31. ASSUME NEW t \in Threads, Compacts(t) PROVE TypeOK'
    <2>1. turn' \in [Threads -> [at : {"none", "held", "attached", "starting", "running"},
                           on : Runtimes \cup {0}, counted : Runtimes \cup {0}]]
      BY <1>31 DEF Compacts, TypeOK
    <2> QED
      BY <1>31, <2>1 DEF Compacts, entryVars, historyVars, runtimeVars, timerVars,
         recordVars, idVars, countVars, TypeOK
  <1>32. ASSUME NEW t \in Threads, TurnDropped(t) PROVE TypeOK'
    <2>1. turn' \in [Threads -> [at : {"none", "held", "attached", "starting", "running"},
                           on : Runtimes \cup {0}, counted : Runtimes \cup {0}]]
      BY <1>32 DEF TurnDropped, NoTurn, TypeOK
    <2> QED
      BY <1>32, <2>1 DEF TurnDropped, Upset, entryVars, historyVars, runtimeVars, timerVars,
         recordVars, idVars, TypeOK
  <1>33. ASSUME NEW t \in Threads, StartInterrupted(t) PROVE TypeOK'
    <2>1. turn' \in [Threads -> [at : {"none", "held", "attached", "starting", "running"},
                           on : Runtimes \cup {0}, counted : Runtimes \cup {0}]]
      BY <1>33 DEF StartInterrupted, NoTurn, TypeOK
    <2> QED
      BY <1>33, <2>1 DEF StartInterrupted, Upset, runtimeVars, timerVars, recordVars,
         idVars, TypeOK
  <1>17. CASE Touch
    <2>1. Schedule(busy) /\ busy \in Nat
      BY <1>17, LoweredFacts DEF Touch, TypeOK
    <2>2. /\ timers' \subseteq timers
          /\ (live # 0 /\ busy = 0) => rearm' # EmptyBag
          /\ ~(live # 0 /\ busy = 0) => timers' = timers /\ rearm' = rearm
          /\ IsABag(rearm') /\ BagToSet(rearm') \subseteq Nat
      BY <2>1, ScheduleFacts
    <2> QED
      BY <1>17, <2>1, <2>2 DEF Touch, Upset, entryVars, historyVars, runtimeVars,
         recordVars, idVars, TypeOK, LockHolds, RequestsHold, LiveIsOpen, Runtimes,
         Requests, Stages
  <1>18. ASSUME NEW g \in BagToSet(rearm), Rearm(g) PROVE TypeOK'
    <2>1. g \in Nat
      BY <1>18 DEF TypeOK
    <2>2. IsABag(rearm') /\ BagToSet(rearm') \subseteq Nat
      BY <1>18, <2>1, RearmTaken DEF Rearm, TypeOK
    <2>3. generation' \in Nat
      BY <1>18, <2>1 DEF Rearm, TypeOK
    <2>4. timers' \in SUBSET [gen : Nat, own : BOOLEAN, probed : Runtimes \cup {0}]
      <3>1. \A y \in timers : [y EXCEPT !.own = FALSE] \in
                 [gen : Nat, own : BOOLEAN, probed : Runtimes \cup {0}]
        BY FiberFacts
      <3>2. \A o \in BOOLEAN : [gen |-> g, own |-> o, probed |-> 0] \in
                 [gen : Nat, own : BOOLEAN, probed : Runtimes \cup {0}]
        BY <2>1
      <3>3. timers \subseteq [gen : Nat, own : BOOLEAN, probed : Runtimes \cup {0}]
        BY DEF TypeOK
      <3>4. \/ timers' = timers \cup {Unowned(g)}
            \/ timers' = {[y EXCEPT !.own = FALSE] : y \in timers}
                           \cup {[gen |-> g, own |-> TRUE, probed |-> 0]}
        BY <1>18 DEF Rearm
      <3>5. CASE timers' = timers \cup {Unowned(g)}
        BY <3>2, <3>3, <3>5 DEF Unowned
      <3>6. CASE timers' = {[y EXCEPT !.own = FALSE] : y \in timers}
                              \cup {[gen |-> g, own |-> TRUE, probed |-> 0]}
        <4>1. {[y EXCEPT !.own = FALSE] : y \in timers}
                 \subseteq [gen : Nat, own : BOOLEAN, probed : Runtimes \cup {0}]
          BY <3>1
        <4>2. {[gen |-> g, own |-> TRUE, probed |-> 0]}
                 \subseteq [gen : Nat, own : BOOLEAN, probed : Runtimes \cup {0}]
          BY <3>2
        <4> QED BY <3>6, <4>1, <4>2
      <3> QED BY <3>4, <3>5, <3>6
    <2> QED
      BY <1>18, <2>2, <2>3, <2>4 DEF Rearm, runtimeVars, recordVars, idVars, countVars,
          TypeOK
  <1>34. ASSUME NEW g \in BagToSet(rearm), RearmInterrupted(g) PROVE TypeOK'
    <2>1. g \in Nat
      BY <1>34 DEF TypeOK
    <2>2. IsABag(rearm') /\ BagToSet(rearm') \subseteq Nat
      BY <1>34, <2>1, RearmTaken DEF RearmInterrupted, TypeOK
    <2>3. timers' \in SUBSET [gen : Nat, own : BOOLEAN, probed : Runtimes \cup {0}]
      <3>1. Unowned(g) \in [gen : Nat, own : BOOLEAN, probed : Runtimes \cup {0}]
        BY <2>1 DEF Unowned
      <3> QED BY <1>34, <3>1 DEF RearmInterrupted, TypeOK
    <2> QED
      <3>1. orphan' \in BOOLEAN
        BY <1>34 DEF RearmInterrupted
      <3>2. upsets' \in Nat
        BY <1>34 DEF RearmInterrupted, Upset, TypeOK
      <3> QED
        BY <1>34, <2>2, <2>3, <3>1, <3>2
           DEF RearmInterrupted, runtimeVars, recordVars, idVars, TypeOK
  <1>19. ASSUME NEW x \in timers, IdleProbes(x) PROVE TypeOK'
    BY SMTT(30), <1>19 DEF IdleProbes, StillIdle, entryVars, historyVars, runtimeVars,
        recordVars, idVars, countVars, TypeOK, LockHolds, RequestsHold, LiveIsOpen,
        Runtimes, Requests, Stages
  <1>20. ASSUME NEW x \in timers, IdlePinned(x) PROVE TypeOK'
    <2>1. timers' \in SUBSET [gen : Nat, own : BOOLEAN, probed : Runtimes \cup {0}]
      BY <1>20 DEF IdlePinned, TypeOK
    <2>2. pins' \in Nat
      BY <1>20 DEF IdlePinned, TypeOK
    <2> QED
      BY <1>20, <2>1, <2>2 DEF IdlePinned, historyVars, runtimeVars, recordVars, idVars,
          countVars, TypeOK
  <1>21. ASSUME NEW x \in timers, IdleReleases(x) PROVE TypeOK'
    <2>0. timers' \in SUBSET [gen : Nat, own : BOOLEAN, probed : Runtimes \cup {0}]
      <3>1. timers' \in {timers \ {x}, {[y EXCEPT !.own = FALSE] : y \in timers \ {x}}}
        BY <1>21 DEF IdleReleases
      <3>2. \A y \in timers : [y EXCEPT !.own = FALSE] \in
                 [gen : Nat, own : BOOLEAN, probed : Runtimes \cup {0}]
        BY FiberFacts
      <3> QED BY <3>1, <3>2 DEF TypeOK
    <2>1. CASE StillIdle(x)
      <3>1. /\ live' \in Runtimes \cup {0} /\ attached' \in SUBSET Threads
            /\ busy' \in Nat /\ generation' \in Nat /\ pins' \in Nat
            /\ strays' \in Nat /\ leaks' \in Nat /\ orphan' \in BOOLEAN
            /\ stage' \in [Runtimes -> Stages] /\ served' \in [Runtimes -> SUBSET Threads]
            /\ cutoff' \in [Runtimes -> Nat]
        BY <1>0, <1>21, <2>1 DEF IdleReleases, Remove, TypeOK
      <3> QED
        BY <1>21, <2>0, <2>1, <3>1
           DEF IdleReleases, recordVars, idVars, countVars, TypeOK
    <2>2. CASE ~StillIdle(x)
      BY <1>21, <2>0, <2>2
         DEF IdleReleases, entryVars, historyVars, recordVars, idVars, countVars, TypeOK
    <2> QED BY <2>1, <2>2
  <1>22. CASE Close
    <2>1. /\ live' \in Runtimes \cup {0} /\ attached' \in SUBSET Threads
          /\ busy' \in Nat /\ generation' \in Nat /\ pins' \in Nat
          /\ strays' \in Nat /\ leaks' \in Nat /\ orphan' \in BOOLEAN
          /\ stage' \in [Runtimes -> Stages] /\ served' \in [Runtimes -> SUBSET Threads]
          /\ cutoff' \in [Runtimes -> Nat]
      BY <1>0, <1>22 DEF Close, Remove, TypeOK
    <2> QED
      BY <1>22, <2>1 DEF Close, Upset, Disarmed, recordVars, idVars, TypeOK
  <1>23. ASSUME NEW r \in Runtimes, PumpReports(r) PROVE TypeOK'
    BY <1>23 DEF PumpReports, entryVars, historyVars, runtimeVars, timerVars, idVars,
        countVars, TypeOK, LockHolds, RequestsHold, LiveIsOpen, Runtimes, Requests, Stages
  <1>24. ASSUME NEW r \in Runtimes, PumpEnds(r) PROVE TypeOK'
    <2>0. pump' \in [Runtimes -> {"none", "running", "ended"}]
      BY <1>24 DEF PumpEnds, TypeOK
    <2>1. CASE live = r
      <3>1. /\ live' \in Runtimes \cup {0} /\ attached' \in SUBSET Threads
            /\ busy' \in Nat /\ generation' \in Nat /\ pins' \in Nat
            /\ strays' \in Nat /\ leaks' \in Nat /\ orphan' \in BOOLEAN
            /\ stage' \in [Runtimes -> Stages] /\ served' \in [Runtimes -> SUBSET Threads]
            /\ cutoff' \in [Runtimes -> Nat]
        BY <1>0, <1>24, <2>1 DEF PumpEnds, Remove, TypeOK
      <3> QED
        BY <1>24, <2>0, <2>1, <3>1
           DEF PumpEnds, Disarmed, recordVars, idVars, countVars, TypeOK
    <2>2. CASE live # r
      BY <1>24, <2>0, <2>2 DEF PumpEnds, entryVars, historyVars, recordVars, idVars,
          countVars, TypeOK
    <2> QED BY <2>1, <2>2
  <1>25. ASSUME NEW t \in Threads, Unbind(t) PROVE TypeOK'
    BY <1>25 DEF Unbind, Upset, entryVars, historyVars, runtimeVars, timerVars, idVars,
        TypeOK, LockHolds, RequestsHold, LiveIsOpen, Runtimes, Requests, Stages
  <1>26. ASSUME NEW t \in Threads, Detach(t) PROVE TypeOK'
    <2>0. detaching' \in SUBSET Threads
      BY <1>26 DEF Detach, TypeOK
    <2>1. CASE live # 0 /\ t \in attached /\ attached = {t} /\ kind = "exclusive"
      <3>1. /\ live' \in Runtimes \cup {0} /\ attached' \in SUBSET Threads
            /\ busy' \in Nat /\ generation' \in Nat /\ pins' \in Nat
            /\ strays' \in Nat /\ leaks' \in Nat /\ orphan' \in BOOLEAN
            /\ stage' \in [Runtimes -> Stages] /\ served' \in [Runtimes -> SUBSET Threads]
            /\ cutoff' \in [Runtimes -> Nat]
        BY <1>0, <1>26, <2>1 DEF Detach, TypeOK
      <3> QED
        BY <1>26, <2>0, <2>1, <3>1 DEF Detach, Disarmed, recordVars, idVars, countVars,
            TypeOK
    <2>2. CASE live # 0 /\ t \in attached /\ ~(attached = {t} /\ kind = "exclusive")
      <3>1. Schedule(busy) /\ busy \in Nat
        BY <1>26, <2>2 DEF Detach, TypeOK
      <3>2. timers' \subseteq timers /\ IsABag(rearm') /\ BagToSet(rearm') \subseteq Nat
        BY <3>1, ScheduleFacts
      <3> QED
        BY <1>26, <2>0, <2>2, <3>2 DEF Detach, historyVars, recordVars, idVars, countVars,
            TypeOK
    <2>3. CASE ~(live # 0 /\ t \in attached)
      BY <1>26, <2>0, <2>3
         DEF Detach, entryVars, historyVars, timerVars, recordVars, idVars, countVars,
             TypeOK
    <2> QED BY <2>1, <2>2, <2>3
  <1>27. ASSUME NEW r \in Runtimes, NEW t \in Threads, Ask(r, t) PROVE TypeOK'
    <2>1. request' \in [Requests -> [from : Runtimes \cup {0}, thread : Threads \cup {0},
                                 at : {"none", "pending", "settled"}]]
      BY <1>27 DEF Ask, TypeOK
    <2> QED
      BY <1>27, <2>1
         DEF Ask, entryVars, historyVars, runtimeVars, timerVars, idVars, countVars, TypeOK
  <1>28. ASSUME NEW r \in Runtimes, Record(r) PROVE TypeOK'
    <2>1. Settled(r) \in [Requests -> [from : Runtimes \cup {0}, thread : Threads \cup {0},
                                        at : {"none", "pending", "settled"}]]
      BY DEF Settled, TypeOK
    <2>2. request' \in [Requests -> [from : Runtimes \cup {0}, thread : Threads \cup {0},
                                 at : {"none", "pending", "settled"}]]
      BY <1>28, <2>1, RecordingFacts DEF Release, TypeOK
    <2>3. row' \in {"none", "ready", "stopped"} /\ upsets' \in Nat
      BY <1>28 DEF Record, Stopped, Upset, TypeOK
    <2>4. stage' \in [Runtimes -> Stages]
      BY <1>28, RecordingFacts DEF Release
    <2> QED
      BY <1>28, <2>2, <2>3, <2>4 DEF Record, entryVars, historyVars, timerVars, idVars,
          TypeOK
  <1>29. ASSUME NEW r \in Runtimes, RetryRecords(r) PROVE TypeOK'
    <2>1. Settled(r) \in [Requests -> [from : Runtimes \cup {0}, thread : Threads \cup {0},
                                        at : {"none", "pending", "settled"}]]
      BY DEF Settled, TypeOK
    <2>2. request' \in [Requests -> [from : Runtimes \cup {0}, thread : Threads \cup {0},
                                 at : {"none", "pending", "settled"}]]
      BY <1>29, <2>1, RecordingFacts DEF Release, TypeOK
    <2>3. row' \in {"none", "ready", "stopped"} /\ upsets' \in Nat
      BY <1>29 DEF RetryRecords, Stopped, Upset, TypeOK
    <2>4. stage' \in [Runtimes -> Stages]
      BY <1>29, RecordingFacts DEF Release
    <2> QED
      BY <1>29, <2>2, <2>3, <2>4 DEF RetryRecords, entryVars, historyVars, timerVars,
          idVars, TypeOK
  <1>30. CASE UNCHANGED vars
    BY <1>30 DEF vars, entryVars, historyVars, runtimeVars, timerVars, recordVars, idVars,
        countVars, TypeOK, LockHolds, RequestsHold, LiveIsOpen, Runtimes, Requests, Stages
  <1> QED
    BY <1>1, <1>2, <1>3, <1>4, <1>5, <1>6, <1>7, <1>8, <1>9, <1>10, <1>11, <1>12, <1>13,
        <1>14,
        <1>15, <1>16, <1>17, <1>18, <1>19, <1>20, <1>21, <1>22, <1>23, <1>24, <1>25, <1>26,
        <1>27, <1>28, <1>29, <1>30, <1>31, <1>32, <1>33, <1>34
       DEF Next, Opener, Turns, Aside, Idle, Release

\* Opening inserts the one open runtime in the map and every removal takes it out,
\* so the map and the runtimes' stages never disagree.
LEMMA LiveStep ==
    ASSUME TypeOK, LiveIsOpen, LockHolds, [Next]_vars
    PROVE  LiveIsOpen'
  <1>0. ASSUME NEW threads \in SUBSET Threads, RemoveFor(threads)
        PROVE  LiveIsOpen'
    <2>1. /\ live \in Runtimes /\ live' = 0
          /\ stage'[live] = "closing" /\ served'[live] = threads /\ cutoff'[live] = asked
          /\ \A r \in Runtimes : r # live =>
                stage'[r] = stage[r] /\ served'[r] = served[r] /\ cutoff'[r] = cutoff[r]
      BY <1>0 DEF RemoveFor, TypeOK
    <2> QED
      BY <1>0, <2>1 DEF LiveIsOpen, LockHolds, TypeOK, Runtimes, Stages
  <1>q. ASSUME UNCHANGED <<live, stage>> PROVE LiveIsOpen'
    BY <1>q DEF LiveIsOpen
  <1>u. CASE
            \/ OpenJoins \/ JoinFails \/ AttachWrites \/ OpenUndone \/ PumpStarts \/ Touch
            \/ \E t \in Threads : TurnAttaches(t) \/ MarkBusy(t) \/ TurnAccepted(t) \/
                   TurnRejected(t) \/ TurnEnds(t) \/ Aside(t) \/ Unbind(t)
            \/ \E g \in BagToSet(rearm) : Rearm(g) \/ RearmInterrupted(g)
            \/ \E x \in timers : IdleProbes(x) \/ IdlePinned(x)
            \/ \E r \in Runtimes : PumpReports(r)
            \/ \E r \in Runtimes, t \in Threads : Ask(r, t)
    BY <1>q, <1>u DEF OpenJoins, JoinFails, AttachWrites, OpenUndone, PumpStarts,
        TurnAttaches, MarkBusy, TurnAccepted, TurnRejected, TurnEnds, Aside, Compacts,
        TurnDropped, StartInterrupted, TurnIsLost, Touch, Rearm, RearmInterrupted,
        IdleProbes, IdlePinned, PumpReports, Unbind, Ask, entryVars, historyVars,
        runtimeVars
  <1>1. ASSUME NEW t \in Threads, Opens(t) PROVE LiveIsOpen'
    <2>1. CASE live # 0 /\ UNCHANGED stage
      BY <1>1, <2>1 DEF Opens, entryVars, historyVars, timerVars, recordVars, idVars,
         LiveIsOpen, LockHolds, TypeOK, Runtimes, Stages
    <2>2. ASSUME NEW r \in Runtimes, live = 0, stage[r] = "none",
                 stage' = [stage EXCEPT ![r] = "opening"],
                 opener' = [at |-> "opening", for |-> t, rt |-> r]
          PROVE  LiveIsOpen'
      BY <1>1, <2>2 DEF Opens, entryVars, historyVars, timerVars, recordVars, idVars,
         LiveIsOpen, LockHolds, TypeOK, Runtimes, Stages
    <2> QED
      BY <1>1, <2>1, <2>2 DEF Opens
  <1>4. CASE OpenFails
    BY <1>4 DEF OpenFails, Upset, Free, entryVars, historyVars, timerVars, recordVars,
        idVars, LiveIsOpen, LockHolds, TypeOK, Runtimes, Stages
  <1>5. CASE OpenInserts
    BY <1>5 DEF OpenInserts, timerVars, recordVars, idVars, countVars, LiveIsOpen,
        LockHolds, TypeOK, Runtimes, Stages
  <1>10. CASE OpenInterrupted
    BY <1>10 DEF OpenInterrupted, Free, entryVars, historyVars, timerVars, recordVars,
        idVars, countVars, LiveIsOpen, LockHolds, TypeOK, Runtimes, Stages
  <1>r. CASE Removing
    <2>1. CASE \E threads \in SUBSET Threads : RemoveFor(threads)
      BY <1>0, <1>r, <2>1, RemovingFacts
    <2>2. CASE UNCHANGED <<live, busy, generation, strays, leaks, orphan, stage, served,
        cutoff>>
      BY <1>q, <1>r, <2>2, RemovingFacts
    <2> QED BY <1>r, <2>1, <2>2, RemovingFacts
  <1>e. ASSUME NEW r \in Runtimes, Release(r) PROVE LiveIsOpen'
    <2>1. /\ stage[r] \in {"closing", "retrying"} /\ stage'[r] \in {"retrying", "released"}
          /\ \A o \in Runtimes : o # r => stage'[o] = stage[o]
          /\ \A i \in Requests :
                /\ request'[i].from = request[i].from /\ request'[i].thread = request[i].thread
                /\ \/ request'[i].at = request[i].at
                   \/ request'[i].at = "settled" /\ request[i].at = "pending" /\ i <= cutoff[r]
      BY <1>e, RecordingFacts
    <2>2. UNCHANGED <<live, served, cutoff, turn, opener, asked>>
      BY <1>e, RecordingFacts DEF entryVars, historyVars
    <2> QED
      BY <2>1, <2>2 DEF LiveIsOpen, LockHolds, TypeOK, Runtimes, Stages
  <1>30. CASE UNCHANGED vars
    BY <1>q, <1>30 DEF vars, entryVars, historyVars, runtimeVars
  <1> QED
    BY <1>u, <1>1, <1>4, <1>5, <1>10, <1>r, <1>e, <1>30
       DEF Next, Opener, Turns, Aside, Idle, Removing

\* What the holder of the open lock works on is still as it left it, whatever
\* releases run next to it.
LEMMA LockStep ==
    ASSUME TypeOK, LiveIsOpen, LockHolds, [Next]_vars
    PROVE  LockHolds'
  <1>0. ASSUME NEW threads \in SUBSET Threads, RemoveFor(threads), UNCHANGED <<opener,
      turn>>
        PROVE  LockHolds'
    <2>1. /\ live \in Runtimes /\ live' = 0
          /\ stage'[live] = "closing" /\ served'[live] = threads /\ cutoff'[live] = asked
          /\ \A r \in Runtimes : r # live =>
                stage'[r] = stage[r] /\ served'[r] = served[r] /\ cutoff'[r] = cutoff[r]
      BY <1>0 DEF RemoveFor, TypeOK
    <2> QED
      BY <1>0, <2>1 DEF LiveIsOpen, LockHolds, TypeOK, Runtimes, Stages, Opened, Removed
  <1>q. ASSUME UNCHANGED <<opener, turn, stage, live>> PROVE LockHolds'
    BY <1>q DEF LockHolds
  <1>u. CASE
            \/ Touch
            \/ \E g \in BagToSet(rearm) : Rearm(g) \/ RearmInterrupted(g)
            \/ \E x \in timers : IdleProbes(x) \/ IdlePinned(x)
            \/ \E r \in Runtimes : PumpReports(r)
            \/ \E t \in Threads : Unbind(t)
            \/ \E r \in Runtimes, t \in Threads : Ask(r, t)
    BY <1>q, <1>u DEF Touch, Rearm, RearmInterrupted, IdleProbes, IdlePinned, PumpReports,
        Unbind, Ask, entryVars, historyVars, runtimeVars
  <1>1. ASSUME NEW t \in Threads, Opens(t) PROVE LockHolds'
    <2>1. CASE live # 0 /\ UNCHANGED stage
      BY <1>1, <2>1 DEF Opens, entryVars, historyVars, timerVars, recordVars, idVars,
         LiveIsOpen, LockHolds, TypeOK, Runtimes, Stages, Opened, Removed
    <2>2. ASSUME NEW r \in Runtimes, live = 0, stage[r] = "none",
                 stage' = [stage EXCEPT ![r] = "opening"],
                 opener' = [at |-> "opening", for |-> t, rt |-> r]
          PROVE  LockHolds'
      BY <1>1, <2>2 DEF Opens, entryVars, historyVars, timerVars, recordVars, idVars,
         LiveIsOpen, LockHolds, TypeOK, Runtimes, Stages, Opened, Removed
    <2> QED
      BY <1>1, <2>1, <2>2 DEF Opens
  <1>2. CASE OpenJoins
    BY <1>2 DEF OpenJoins, Attach, Schedule, Disarmed, Free, runtimeVars, idVars, countVars,
        LiveIsOpen, LockHolds, TypeOK, Runtimes, Stages, Opened, Removed
  <1>3. CASE JoinFails
    BY <1>3 DEF JoinFails, Upset, Free, entryVars, historyVars, runtimeVars, timerVars,
        recordVars, idVars, LiveIsOpen, LockHolds, TypeOK, Runtimes, Stages, Opened, Removed
  <1>4. CASE OpenFails
    BY <1>4 DEF OpenFails, Upset, Free, entryVars, historyVars, timerVars, recordVars,
        idVars, LiveIsOpen, LockHolds, TypeOK, Runtimes, Stages, Opened, Removed
  <1>5. CASE OpenInserts
    BY <1>5 DEF OpenInserts, timerVars, recordVars, idVars, countVars, LiveIsOpen,
        LockHolds, TypeOK, Runtimes, Stages, Opened, Removed
  <1>6. CASE AttachWrites
    BY <1>6 DEF AttachWrites, entryVars, historyVars, runtimeVars, timerVars, idVars,
        countVars, LiveIsOpen, LockHolds, TypeOK, Runtimes, Stages, Opened, Removed
  <1>7. CASE AttachFails
    BY <1>7 DEF AttachFails, Upset, Remove, RemoveFor, Disarmed, entryVars, historyVars,
        timerVars, recordVars, idVars, LiveIsOpen, LockHolds, TypeOK, Runtimes, Stages,
        Opened, Removed
  <1>8. CASE OpenUndone
    BY <1>8 DEF OpenUndone, Free, entryVars, historyVars, runtimeVars, timerVars,
        recordVars, idVars, countVars, LiveIsOpen, LockHolds, TypeOK, Runtimes, Stages,
        Opened, Removed
  <1>9. CASE PumpStarts
    BY <1>9 DEF PumpStarts, Schedule, Disarmed, Free, entryVars, historyVars, recordVars,
        idVars, countVars, LiveIsOpen, LockHolds, TypeOK, Runtimes, Stages, Opened, Removed
  <1>10. CASE OpenInterrupted
    BY <1>10 DEF OpenInterrupted, Free, entryVars, historyVars, timerVars, recordVars,
        idVars, countVars, LiveIsOpen, LockHolds, TypeOK, Runtimes, Stages, Opened, Removed
  <1>11. ASSUME NEW t \in Threads, TurnAttaches(t) PROVE LockHolds'
    BY <1>11 DEF TurnAttaches, Attach, runtimeVars, timerVars, idVars, countVars,
        LiveIsOpen, LockHolds, TypeOK, Runtimes, Stages, Opened, Removed
  <1>12. ASSUME NEW t \in Threads, MarkBusy(t) PROVE LockHolds'
    BY <1>12 DEF MarkBusy, Disarmed, runtimeVars, timerVars, recordVars, idVars, countVars,
        LiveIsOpen, LockHolds, TypeOK, Runtimes, Stages, Opened, Removed
  <1>13. ASSUME NEW t \in Threads, TurnAccepted(t) PROVE LockHolds'
    BY <1>13 DEF TurnAccepted, entryVars, historyVars, runtimeVars, timerVars, recordVars,
        idVars, countVars, LiveIsOpen, LockHolds, TypeOK, Runtimes, Stages, Opened, Removed
  <1>14. ASSUME NEW t \in Threads, TurnRejected(t) PROVE LockHolds'
    BY <1>14 DEF TurnRejected, MarkIdle, Lowered, Schedule, Disarmed, NoTurn, runtimeVars,
        recordVars, idVars, countVars, LiveIsOpen, LockHolds, TypeOK, Runtimes, Stages,
        Opened, Removed
  <1>15. ASSUME NEW t \in Threads, TurnEnds(t) PROVE LockHolds'
    BY <1>15 DEF TurnEnds, MarkIdle, Lowered, Schedule, Disarmed, NoTurn, runtimeVars,
        recordVars, idVars, countVars, LiveIsOpen, LockHolds, TypeOK, Runtimes, Stages,
        Opened, Removed
  <1>16. ASSUME NEW t \in Threads, TurnIsLost(t) PROVE LockHolds'
    BY <1>16 DEF TurnIsLost, NoTurn, entryVars, historyVars, runtimeVars, timerVars,
        recordVars, idVars, countVars, LiveIsOpen, LockHolds, TypeOK, Runtimes, Stages,
        Opened, Removed
  <1>31. ASSUME NEW t \in Threads, Compacts(t) PROVE LockHolds'
    BY <1>31 DEF Compacts, entryVars, runtimeVars, LiveIsOpen, LockHolds, TypeOK
  <1>32. ASSUME NEW t \in Threads, TurnDropped(t) PROVE LockHolds'
    BY <1>32 DEF TurnDropped, NoTurn, entryVars, runtimeVars, LiveIsOpen, LockHolds, TypeOK
  <1>33. ASSUME NEW t \in Threads, StartInterrupted(t) PROVE LockHolds'
    BY <1>33 DEF StartInterrupted, NoTurn, runtimeVars, LiveIsOpen, LockHolds, TypeOK
  <1>21. ASSUME NEW x \in timers, IdleReleases(x) PROVE LockHolds'
    <2>1. CASE StillIdle(x)
      BY <1>21, <2>1 DEF IdleReleases, StillIdle, Remove, RemoveFor, entryVars,
         historyVars, recordVars, idVars, countVars, LiveIsOpen, LockHolds, TypeOK,
         Runtimes, Stages, Opened, Removed
    <2>2. CASE ~StillIdle(x)
      <3>1. UNCHANGED <<opener, turn, stage, live>>
        BY <1>21, <2>2 DEF IdleReleases, entryVars
      <3> QED BY <1>q, <3>1
    <2> QED BY <2>1, <2>2
  <1>22. CASE Close
    BY <1>22 DEF Close, Upset, Remove, RemoveFor, Disarmed, timerVars, recordVars, idVars,
        LiveIsOpen, LockHolds, TypeOK, Runtimes, Stages, Opened, Removed
  <1>24. ASSUME NEW r \in Runtimes, PumpEnds(r) PROVE LockHolds'
    BY <1>24 DEF PumpEnds, Remove, RemoveFor, Disarmed, entryVars, historyVars, timerVars,
        recordVars, idVars, countVars, LiveIsOpen, LockHolds, TypeOK, Runtimes, Stages,
        Opened, Removed
  <1>26. ASSUME NEW t \in Threads, Detach(t) PROVE LockHolds'
    BY <1>26 DEF Detach, RemoveFor, Disarmed, Schedule, entryVars, historyVars, timerVars,
        recordVars, idVars, countVars, LiveIsOpen, LockHolds, TypeOK, Runtimes, Stages,
        Opened, Removed
  <1>e. ASSUME NEW r \in Runtimes, Release(r) PROVE LockHolds'
    <2>1. /\ stage[r] \in {"closing", "retrying"} /\ stage'[r] \in {"retrying", "released"}
          /\ \A o \in Runtimes : o # r => stage'[o] = stage[o]
          /\ \A i \in Requests :
                /\ request'[i].from = request[i].from /\ request'[i].thread = request[i].thread
                /\ \/ request'[i].at = request[i].at
                   \/ request'[i].at = "settled" /\ request[i].at = "pending" /\ i <= cutoff[r]
          /\ opener.at = "attaching" => opener.rt # r
      BY <1>e, RecordingFacts
    <2>2. UNCHANGED <<live, served, cutoff, turn, opener, asked>>
      BY <1>e, RecordingFacts DEF entryVars, historyVars
    <2> QED
      BY <2>1, <2>2 DEF LiveIsOpen, LockHolds, TypeOK, Runtimes, Stages, Opened, Removed
  <1>30. CASE UNCHANGED vars
    BY <1>q, <1>30 DEF vars, entryVars, historyVars, runtimeVars
  <1> QED
    BY <1>u, <1>1, <1>2, <1>3, <1>4, <1>5, <1>6, <1>7, <1>8, <1>9, <1>10, <1>11, <1>12,
        <1>13,
        <1>14, <1>15, <1>16, <1>21, <1>22, <1>24, <1>26, <1>e, <1>30, <1>31, <1>32,
        <1>33
       DEF Next, Opener, Turns, Aside, Idle

\* An entry that leaves the map leaves nothing to the next one.
LEMMA EntryStep ==
    ASSUME TypeOK, EntryHolds, LockHolds, [Next]_vars
    PROVE  EntryHolds'
  <1>q. ASSUME UNCHANGED <<live, attached, busy, generation, pins,
      historyVars>> PROVE EntryHolds'
    BY <1>q DEF EntryHolds, historyVars
  <1>u. CASE
            \/ \E t \in Threads : Opens(t) \/ TurnAccepted(t) \/ Compacts(t) \/ TurnDropped(t) \/
                   TurnIsLost(t) \/ Unbind(t)
            \/ JoinFails \/ OpenFails \/ AttachWrites \/ OpenUndone \/ PumpStarts \/
                   Touch
            \/ \E x \in timers : IdleProbes(x)
            \/ \E r \in Runtimes : PumpReports(r) \/ Record(r) \/ RetryRecords(r)
            \/ \E r \in Runtimes, t \in Threads : Ask(r, t)
    BY <1>q, <1>u DEF Opens, JoinFails, OpenFails, AttachWrites, OpenUndone, PumpStarts,
        TurnAccepted, Compacts, TurnDropped, TurnIsLost, Touch, IdleProbes, PumpReports,
        Unbind, Ask, Record, RetryRecords, entryVars, historyVars
  <1>2. CASE OpenJoins
    BY <1>2 DEF OpenJoins, Attach, historyVars, runtimeVars, idVars, countVars,
        EntryHolds, TypeOK, Runtimes, LockHolds
  <1>5. CASE OpenInserts
    BY <1>5 DEF OpenInserts, timerVars, recordVars, idVars, countVars, EntryHolds, TypeOK,
        Runtimes, LockHolds
  <1>7. CASE AttachFails
    BY <1>7 DEF AttachFails, Upset, Remove, RemoveFor, Disarmed, entryVars, historyVars,
        timerVars, recordVars, idVars, EntryHolds, TypeOK, Runtimes, LockHolds
  <1>10. CASE OpenInterrupted
    BY <1>10 DEF OpenInterrupted, Attach, EntryHolds, LockHolds, TypeOK, Runtimes
  <1>11. ASSUME NEW t \in Threads, TurnAttaches(t) PROVE EntryHolds'
    BY <1>11 DEF TurnAttaches, Attach, historyVars, runtimeVars, timerVars, idVars,
        countVars, EntryHolds, TypeOK, Runtimes, LockHolds
  <1>12. ASSUME NEW t \in Threads, MarkBusy(t) PROVE EntryHolds'
    BY <1>12 DEF MarkBusy, Disarmed, historyVars, runtimeVars, timerVars, recordVars,
        idVars, countVars, EntryHolds, TypeOK, Runtimes, LockHolds
  <1>14. ASSUME NEW t \in Threads, TurnRejected(t) PROVE EntryHolds'
    BY <1>14 DEF TurnRejected, MarkIdle, Lowered, Schedule, Disarmed, NoTurn, runtimeVars,
        recordVars, idVars, countVars, EntryHolds, TypeOK, Runtimes, LockHolds
  <1>15. ASSUME NEW t \in Threads, TurnEnds(t) PROVE EntryHolds'
    BY <1>15 DEF TurnEnds, MarkIdle, Lowered, Schedule, Disarmed, NoTurn, runtimeVars,
        recordVars, idVars, countVars, EntryHolds, TypeOK, Runtimes, LockHolds
  <1>17. ASSUME NEW t \in Threads, StartInterrupted(t) PROVE EntryHolds'
    BY <1>17 DEF StartInterrupted, EntryHolds
  <1>18. ASSUME NEW g \in BagToSet(rearm), Rearm(g) PROVE EntryHolds'
    BY <1>18 DEF Rearm, runtimeVars, recordVars, idVars, countVars, EntryHolds, TypeOK,
        Runtimes, LockHolds
  <1>19. ASSUME NEW g \in BagToSet(rearm), RearmInterrupted(g) PROVE EntryHolds'
    BY <1>19 DEF RearmInterrupted, EntryHolds
  <1>20. ASSUME NEW x \in timers, IdlePinned(x) PROVE EntryHolds'
    BY <1>20 DEF IdlePinned, StillIdle, historyVars, runtimeVars, recordVars, idVars,
        countVars, EntryHolds, TypeOK, Runtimes, LockHolds
  <1>21. ASSUME NEW x \in timers, IdleReleases(x) PROVE EntryHolds'
    BY <1>21 DEF IdleReleases, StillIdle, Remove, RemoveFor, entryVars, historyVars,
        recordVars, idVars, countVars, EntryHolds, TypeOK, Runtimes, LockHolds
  <1>22. CASE Close
    BY <1>22 DEF Close, Upset, Remove, RemoveFor, Disarmed, timerVars, recordVars, idVars,
        EntryHolds, TypeOK, Runtimes, LockHolds
  <1>24. ASSUME NEW r \in Runtimes, PumpEnds(r) PROVE EntryHolds'
    BY <1>24 DEF PumpEnds, Remove, RemoveFor, Disarmed, entryVars, historyVars, timerVars,
        recordVars, idVars, countVars, EntryHolds, TypeOK, Runtimes, LockHolds
  <1>26. ASSUME NEW t \in Threads, Detach(t) PROVE EntryHolds'
    BY <1>26 DEF Detach, RemoveFor, Disarmed, Schedule, entryVars, historyVars, timerVars,
        recordVars, idVars, countVars, EntryHolds, TypeOK, Runtimes, LockHolds
  <1>30. CASE UNCHANGED vars
    BY <1>q, <1>30 DEF vars, entryVars, historyVars
  <1> QED
    BY <1>u, <1>2, <1>5, <1>7, <1>10, <1>11, <1>12, <1>14, <1>15, <1>17, <1>18, <1>19,
        <1>20, <1>21, <1>22, <1>24,
        <1>26, <1>30
       DEF Next, Opener, Turns, Aside, Idle, Release

\* The threads of a runtime are noted at its removal, not before.
LEMMA ServedStep ==
    ASSUME TypeOK, ServedHold, LockHolds, [Next]_vars
    PROVE  ServedHold'
  <1>0. ASSUME NEW threads \in SUBSET Threads, RemoveFor(threads)
        PROVE  ServedHold'
    <2>1. /\ live \in Runtimes /\ live' = 0
          /\ stage'[live] = "closing" /\ served'[live] = threads /\ cutoff'[live] = asked
          /\ \A r \in Runtimes : r # live =>
                stage'[r] = stage[r] /\ served'[r] = served[r] /\ cutoff'[r] = cutoff[r]
      BY <1>0 DEF RemoveFor, TypeOK
    <2> QED
      BY <1>0, <2>1 DEF ServedHold, LockHolds, TypeOK, Runtimes, Removed
  <1>q. ASSUME UNCHANGED <<stage, served>> PROVE ServedHold'
    BY <1>q DEF ServedHold
  <1>u. CASE
            \/ OpenJoins \/ JoinFails \/ AttachWrites \/ OpenUndone \/ PumpStarts \/ Touch
            \/ \E t \in Threads : TurnAttaches(t) \/ MarkBusy(t) \/ TurnAccepted(t) \/
                   TurnRejected(t) \/ TurnEnds(t) \/ Aside(t) \/ Unbind(t)
            \/ \E g \in BagToSet(rearm) : Rearm(g) \/ RearmInterrupted(g)
            \/ \E x \in timers : IdleProbes(x) \/ IdlePinned(x)
            \/ \E r \in Runtimes : PumpReports(r)
            \/ \E r \in Runtimes, t \in Threads : Ask(r, t)
    BY <1>q, <1>u DEF OpenJoins, JoinFails, AttachWrites, OpenUndone, PumpStarts,
        TurnAttaches, MarkBusy, TurnAccepted, TurnRejected, TurnEnds, Aside, Compacts,
        TurnDropped, StartInterrupted, TurnIsLost, Touch, Rearm, RearmInterrupted,
        IdleProbes, IdlePinned, PumpReports, Unbind, Ask, runtimeVars
  <1>1. ASSUME NEW t \in Threads, Opens(t) PROVE ServedHold'
    <2>1. CASE live # 0 /\ UNCHANGED stage
      BY <1>1, <2>1 DEF Opens, entryVars, historyVars, timerVars, recordVars, idVars,
         ServedHold, LockHolds, TypeOK, Runtimes, Removed
    <2>2. ASSUME NEW r \in Runtimes, live = 0, stage[r] = "none",
                 stage' = [stage EXCEPT ![r] = "opening"],
                 opener' = [at |-> "opening", for |-> t, rt |-> r]
          PROVE  ServedHold'
      BY <1>1, <2>2 DEF Opens, entryVars, historyVars, timerVars, recordVars, idVars,
         ServedHold, LockHolds, TypeOK, Runtimes, Removed
    <2> QED
      BY <1>1, <2>1, <2>2 DEF Opens
  <1>4. CASE OpenFails
    BY <1>4 DEF OpenFails, Upset, Free, entryVars, historyVars, timerVars, recordVars,
        idVars, ServedHold, LockHolds, TypeOK, Runtimes, Removed
  <1>5. CASE OpenInserts
    BY <1>5 DEF OpenInserts, timerVars, recordVars, idVars, countVars, ServedHold,
        LockHolds, TypeOK, Runtimes, Removed
  <1>10. CASE OpenInterrupted
    BY <1>10 DEF OpenInterrupted, Free, entryVars, historyVars, timerVars, recordVars,
        idVars, countVars, ServedHold, LockHolds, TypeOK, Runtimes, Removed
  <1>28. ASSUME NEW r \in Runtimes, Record(r) PROVE ServedHold'
    BY <1>28 DEF Record, Stopped, Settled, Upset, entryVars, historyVars, timerVars,
        idVars, ServedHold, LockHolds, TypeOK, Runtimes, Removed
  <1>29. ASSUME NEW r \in Runtimes, RetryRecords(r) PROVE ServedHold'
    BY <1>29 DEF RetryRecords, Stopped, Settled, Upset, entryVars, historyVars, timerVars,
        idVars, ServedHold, LockHolds, TypeOK, Runtimes, Removed
  <1>r. CASE Removing
    <2>1. CASE \E threads \in SUBSET Threads : RemoveFor(threads)
      BY <1>0, <1>r, <2>1, RemovingFacts
    <2>2. CASE UNCHANGED <<live, busy, generation, strays, leaks, orphan, stage, served,
        cutoff>>
      BY <1>q, <1>r, <2>2, RemovingFacts
    <2> QED BY <1>r, <2>1, <2>2, RemovingFacts
  <1>30. CASE UNCHANGED vars
    BY <1>q, <1>30 DEF vars, runtimeVars
  <1> QED
    BY <1>u, <1>1, <1>4, <1>5, <1>10, <1>28, <1>29, <1>r, <1>30
       DEF Next, Opener, Turns, Aside, Idle, Removing, Release

\* Requests are numbered in the order they are asked, each by a runtime that was
\* open.
LEMMA RequestsStep ==
    ASSUME TypeOK, RequestsHold, LockHolds, LiveIsOpen, [Next]_vars
    PROVE  RequestsHold'
  <1>q. ASSUME UNCHANGED <<request, asked, stage>> PROVE RequestsHold'
    BY <1>q DEF RequestsHold
  <1>u. CASE
            \/ OpenJoins \/ JoinFails \/ AttachWrites \/ OpenUndone \/ PumpStarts \/ Touch
            \/ \E t \in Threads : TurnAttaches(t) \/ MarkBusy(t) \/ TurnAccepted(t) \/
                   TurnRejected(t) \/ TurnEnds(t) \/ Aside(t) \/ Unbind(t)
            \/ \E g \in BagToSet(rearm) : Rearm(g) \/ RearmInterrupted(g)
            \/ \E x \in timers : IdleProbes(x) \/ IdlePinned(x)
            \/ \E r \in Runtimes : PumpReports(r)
    BY <1>q, <1>u DEF OpenJoins, JoinFails, AttachWrites, OpenUndone, PumpStarts,
        TurnAttaches, MarkBusy, TurnAccepted, TurnRejected, TurnEnds, Aside, Compacts,
        TurnDropped, StartInterrupted, TurnIsLost, Touch, Rearm, RearmInterrupted,
        IdleProbes, IdlePinned, PumpReports, Unbind, runtimeVars, recordVars
  <1>1. ASSUME NEW t \in Threads, Opens(t) PROVE RequestsHold'
    BY <1>1 DEF Opens, entryVars, historyVars, timerVars, recordVars, idVars, RequestsHold,
        LockHolds, LiveIsOpen, TypeOK, Runtimes, Requests, Opened, Removed
  <1>4. CASE OpenFails
    BY <1>4 DEF OpenFails, Upset, Free, entryVars, historyVars, timerVars, recordVars,
        idVars, RequestsHold, LockHolds, LiveIsOpen, TypeOK, Runtimes, Requests, Opened,
        Removed
  <1>5. CASE OpenInserts
    BY <1>5 DEF OpenInserts, timerVars, recordVars, idVars, countVars, RequestsHold,
        LockHolds, LiveIsOpen, TypeOK, Runtimes, Requests, Opened, Removed
  <1>7. CASE AttachFails
    BY <1>7 DEF AttachFails, Upset, Remove, RemoveFor, Disarmed, entryVars, historyVars,
        timerVars, recordVars, idVars, RequestsHold, LockHolds, LiveIsOpen, TypeOK,
        Runtimes, Requests, Opened, Removed
  <1>10. CASE OpenInterrupted
    BY <1>10 DEF OpenInterrupted, Free, entryVars, historyVars, timerVars, recordVars,
        idVars, countVars, RequestsHold, LockHolds, LiveIsOpen, TypeOK, Runtimes, Requests,
        Opened, Removed
  <1>21. ASSUME NEW x \in timers, IdleReleases(x) PROVE RequestsHold'
    BY <1>21 DEF IdleReleases, StillIdle, Remove, RemoveFor, entryVars, historyVars,
        recordVars, idVars, countVars, RequestsHold, LockHolds, LiveIsOpen, TypeOK,
        Runtimes, Requests, Opened, Removed
  <1>22. CASE Close
    BY <1>22 DEF Close, Upset, Remove, RemoveFor, Disarmed, timerVars, recordVars, idVars,
        RequestsHold, LockHolds, LiveIsOpen, TypeOK, Runtimes, Requests, Opened, Removed
  <1>24. ASSUME NEW r \in Runtimes, PumpEnds(r) PROVE RequestsHold'
    BY <1>24 DEF PumpEnds, Remove, RemoveFor, Disarmed, entryVars, historyVars, timerVars,
        recordVars, idVars, countVars, RequestsHold, LockHolds, LiveIsOpen, TypeOK,
        Runtimes, Requests, Opened, Removed
  <1>26. ASSUME NEW t \in Threads, Detach(t) PROVE RequestsHold'
    BY <1>26 DEF Detach, RemoveFor, Disarmed, Schedule, entryVars, historyVars, timerVars,
        recordVars, idVars, countVars, RequestsHold, LockHolds, LiveIsOpen, TypeOK,
        Runtimes, Requests, Opened, Removed
  <1>27. ASSUME NEW r \in Runtimes, NEW t \in Threads, Ask(r, t) PROVE RequestsHold'
    BY <1>27 DEF Ask, entryVars, historyVars, runtimeVars, timerVars, idVars, countVars,
        RequestsHold, LockHolds, LiveIsOpen, TypeOK, Runtimes, Requests, Opened, Removed
  <1>e. ASSUME NEW r \in Runtimes, Release(r) PROVE RequestsHold'
    <2>1. /\ stage[r] \in {"closing", "retrying"} /\ stage'[r] \in {"retrying", "released"}
          /\ \A o \in Runtimes : o # r => stage'[o] = stage[o]
          /\ \A i \in Requests :
                /\ request'[i].from = request[i].from /\ request'[i].thread = request[i].thread
                /\ \/ request'[i].at = request[i].at
                   \/ request'[i].at = "settled" /\ request[i].at = "pending" /\ i <= cutoff[r]
      BY <1>e, RecordingFacts
    <2>2. UNCHANGED <<live, served, cutoff, turn, opener, asked>>
      BY <1>e, RecordingFacts DEF entryVars, historyVars
    <2> QED
      BY <2>1, <2>2 DEF RequestsHold, TypeOK, Opened, Removed
  <1>30. CASE UNCHANGED vars
    BY <1>q, <1>30 DEF vars, runtimeVars, recordVars
  <1> QED
    BY <1>u, <1>1, <1>4, <1>5, <1>7, <1>10, <1>21, <1>22, <1>24, <1>26, <1>27, <1>e, <1>30
       DEF Next, Opener, Turns, Aside, Idle

\* A removal notes the requests so far: its own are among them, those of a runtime
\* that is open are not.
LEMMA CutoffsStep ==
    ASSUME TypeOK, RequestsHold, CutoffsHold, LockHolds, LiveIsOpen, [Next]_vars
    PROVE  CutoffsHold'
  <1>0. ASSUME NEW threads \in SUBSET Threads, RemoveFor(threads), UNCHANGED <<asked,
      request>>
        PROVE  CutoffsHold'
    <2>1. /\ live \in Runtimes /\ live' = 0
          /\ stage'[live] = "closing" /\ served'[live] = threads /\ cutoff'[live] = asked
          /\ \A r \in Runtimes : r # live =>
                stage'[r] = stage[r] /\ served'[r] = served[r] /\ cutoff'[r] = cutoff[r]
      BY <1>0 DEF RemoveFor, TypeOK
    <2> QED
      BY <1>0, <2>1 DEF CutoffsHold, RequestsHold, LockHolds, LiveIsOpen, TypeOK, Runtimes,
         Requests, Opened, Removed
  <1>q. ASSUME UNCHANGED <<request, asked, stage, cutoff>> PROVE CutoffsHold'
    BY <1>q DEF CutoffsHold
  <1>u. CASE
            \/ OpenJoins \/ JoinFails \/ AttachWrites \/ OpenUndone \/ PumpStarts \/ Touch
            \/ \E t \in Threads : TurnAttaches(t) \/ MarkBusy(t) \/ TurnAccepted(t) \/
                   TurnRejected(t) \/ TurnEnds(t) \/ Aside(t) \/ Unbind(t)
            \/ \E g \in BagToSet(rearm) : Rearm(g) \/ RearmInterrupted(g)
            \/ \E x \in timers : IdleProbes(x) \/ IdlePinned(x)
            \/ \E r \in Runtimes : PumpReports(r)
    BY <1>q, <1>u DEF OpenJoins, JoinFails, AttachWrites, OpenUndone, PumpStarts,
        TurnAttaches, MarkBusy, TurnAccepted, TurnRejected, TurnEnds, Aside, Compacts,
        TurnDropped, StartInterrupted, TurnIsLost, Touch, Rearm, RearmInterrupted,
        IdleProbes, IdlePinned, PumpReports, Unbind, runtimeVars, recordVars
  <1>1. ASSUME NEW t \in Threads, Opens(t) PROVE CutoffsHold'
    <2>1. CASE live # 0 /\ UNCHANGED stage
      BY <1>1, <2>1 DEF Opens, entryVars, historyVars, timerVars, recordVars, idVars,
         CutoffsHold, RequestsHold, LockHolds, LiveIsOpen, TypeOK, Runtimes, Requests,
         Opened, Removed
    <2>2. ASSUME NEW r \in Runtimes, live = 0, stage[r] = "none",
                 stage' = [stage EXCEPT ![r] = "opening"],
                 opener' = [at |-> "opening", for |-> t, rt |-> r]
          PROVE  CutoffsHold'
      BY <1>1, <2>2 DEF Opens, entryVars, historyVars, timerVars, recordVars, idVars,
         CutoffsHold, RequestsHold, LockHolds, LiveIsOpen, TypeOK, Runtimes, Requests,
         Opened, Removed
    <2> QED
      BY <1>1, <2>1, <2>2 DEF Opens
  <1>4. CASE OpenFails
    BY <1>4 DEF OpenFails, Upset, Free, entryVars, historyVars, timerVars, recordVars,
        idVars, CutoffsHold, RequestsHold, LockHolds, LiveIsOpen, TypeOK, Runtimes,
        Requests, Opened, Removed
  <1>5. CASE OpenInserts
    BY <1>5 DEF OpenInserts, timerVars, recordVars, idVars, countVars, CutoffsHold,
        RequestsHold, LockHolds, LiveIsOpen, TypeOK, Runtimes, Requests, Opened, Removed
  <1>10. CASE OpenInterrupted
    BY <1>10 DEF OpenInterrupted, Free, entryVars, historyVars, timerVars, recordVars,
        idVars, countVars, CutoffsHold, RequestsHold, LockHolds, LiveIsOpen, TypeOK,
        Runtimes, Requests, Opened, Removed
  <1>27. ASSUME NEW r \in Runtimes, NEW t \in Threads, Ask(r, t) PROVE CutoffsHold'
    BY <1>27 DEF Ask, entryVars, historyVars, runtimeVars, timerVars, idVars, countVars,
        CutoffsHold, RequestsHold, LockHolds, LiveIsOpen, TypeOK, Runtimes, Requests,
        Opened, Removed
  <1>r. CASE Removing
    <2>1. CASE \E threads \in SUBSET Threads : RemoveFor(threads)
      BY <1>0, <1>r, <2>1, RemovingFacts
    <2>2. CASE UNCHANGED <<live, busy, generation, strays, leaks, orphan, stage, served,
        cutoff>>
      BY <1>q, <1>r, <2>2, RemovingFacts
    <2> QED BY <1>r, <2>1, <2>2, RemovingFacts
  <1>e. ASSUME NEW r \in Runtimes, Release(r) PROVE CutoffsHold'
    <2>1. UNCHANGED <<cutoff,
        asked>> /\ \A i \in Requests : request'[i].from = request[i].from
      BY <1>e, RecordingFacts
    <2>2. \A o \in Runtimes :
            /\ stage'[o] = "open" => stage[o] = "open"
            /\ stage'[o] \in Removed => stage[o] \in Removed
      BY <1>e, RecordingFacts DEF Removed
    <2>3. \A o \in Runtimes, i \in Requests : i <= cutoff[o] => request[i].from \in Runtimes
      <3>1. \A o \in Runtimes, i \in Requests : i <= cutoff[o] => i <= asked
        BY DEF CutoffsHold, TypeOK, Requests
      <3> QED BY <3>1 DEF RequestsHold
    <2>4. ASSUME NEW o \in Runtimes
          PROVE  /\ cutoff'[o] <= asked'
                 /\ \A i \in Requests : i <= cutoff'[o] => stage'[request'[i].from] # "open"
                 /\ stage'[o] \in Removed =>
                       \A i \in Requests : request'[i].from = o => i <= cutoff'[o]
      <3>1. cutoff'[o] <= asked'
        BY <2>1 DEF CutoffsHold
      <3>2. ASSUME NEW i \in Requests,
          i <= cutoff'[o] PROVE stage'[request'[i].from] # "open"
        BY <2>1, <2>2, <2>3, <3>2 DEF CutoffsHold
      <3>3. ASSUME stage'[o] \in Removed, NEW i \in Requests, request'[i].from = o
            PROVE  i <= cutoff'[o]
        BY <2>1, <2>2, <3>3 DEF CutoffsHold
      <3> QED BY <3>1, <3>2, <3>3
    <2> QED BY <2>4 DEF CutoffsHold
  <1>30. CASE UNCHANGED vars
    BY <1>q, <1>30 DEF vars, runtimeVars, recordVars
  <1> QED
    BY <1>u, <1>1, <1>4, <1>5, <1>10, <1>27, <1>r, <1>e, <1>30
       DEF Next, Opener, Turns, Aside, Idle, Removing

\* A turn that starts or runs on the live runtime is one the live entry counts.
LEMMA TurnsStep ==
    ASSUME TypeOK, TurnsHold, LockHolds, LiveIsOpen, [Next]_vars
    PROVE  TurnsHold'
  <1>0. ASSUME NEW threads \in SUBSET Threads, RemoveFor(threads), UNCHANGED <<turn>>
        PROVE  TurnsHold'
    <2>1. /\ live \in Runtimes /\ live' = 0
          /\ stage'[live] = "closing" /\ served'[live] = threads /\ cutoff'[live] = asked
          /\ \A r \in Runtimes : r # live =>
                stage'[r] = stage[r] /\ served'[r] = served[r] /\ cutoff'[r] = cutoff[r]
      BY <1>0 DEF RemoveFor, TypeOK
    <2> QED
      BY <1>0, <2>1 DEF TurnsHold, LockHolds, LiveIsOpen, TypeOK, Runtimes, Opened, Removed
  <1>q. ASSUME UNCHANGED <<turn, stage, live>> PROVE TurnsHold'
    BY <1>q DEF TurnsHold
  <1>u. CASE
            \/ JoinFails \/ AttachWrites \/ OpenUndone \/ Touch
            \/ \E g \in BagToSet(rearm) : Rearm(g) \/ RearmInterrupted(g)
            \/ \E x \in timers : IdleProbes(x) \/ IdlePinned(x)
            \/ \E r \in Runtimes : PumpReports(r)
            \/ \E t \in Threads : Unbind(t)
            \/ \E r \in Runtimes, t \in Threads : Ask(r, t)
    BY <1>q, <1>u DEF JoinFails, AttachWrites, OpenUndone, Touch, Rearm, RearmInterrupted,
        IdleProbes, IdlePinned, PumpReports, Unbind, Ask, entryVars, historyVars,
        runtimeVars
  <1>1. ASSUME NEW t \in Threads, Opens(t) PROVE TurnsHold'
    <2>1. CASE live # 0 /\ UNCHANGED stage
      BY <1>1, <2>1 DEF Opens, entryVars, historyVars, timerVars, recordVars, idVars,
         TurnsHold, LockHolds, LiveIsOpen, TypeOK, Runtimes, Opened, Removed
    <2>2. ASSUME NEW r \in Runtimes, live = 0, stage[r] = "none",
                 stage' = [stage EXCEPT ![r] = "opening"],
                 opener' = [at |-> "opening", for |-> t, rt |-> r]
          PROVE  TurnsHold'
      BY <1>1, <2>2 DEF Opens, entryVars, historyVars, timerVars, recordVars, idVars,
         TurnsHold, LockHolds, LiveIsOpen, TypeOK, Runtimes, Opened, Removed
    <2> QED
      BY <1>1, <2>1, <2>2 DEF Opens
  <1>2. CASE OpenJoins
    BY <1>2 DEF OpenJoins, Attach, Free, runtimeVars, idVars, countVars, TurnsHold,
        LockHolds, LiveIsOpen, TypeOK, Runtimes, Opened, Removed
  <1>4. CASE OpenFails
    BY <1>4 DEF OpenFails, Upset, Free, entryVars, historyVars, timerVars, recordVars,
        idVars, TurnsHold, LockHolds, LiveIsOpen, TypeOK, Runtimes, Opened, Removed
  <1>5. CASE OpenInserts
    BY <1>5 DEF OpenInserts, timerVars, recordVars, idVars, countVars, TurnsHold, LockHolds,
        LiveIsOpen, TypeOK, Runtimes, Opened, Removed
  <1>9. CASE PumpStarts
    BY <1>9 DEF PumpStarts, Free, entryVars, historyVars, recordVars, idVars, countVars,
        TurnsHold, LockHolds, LiveIsOpen, TypeOK, Runtimes, Opened, Removed
  <1>10. CASE OpenInterrupted
    BY <1>10 DEF OpenInterrupted, Free, entryVars, historyVars, timerVars, recordVars,
        idVars, countVars, TurnsHold, LockHolds, LiveIsOpen, TypeOK, Runtimes, Opened,
        Removed
  <1>11. ASSUME NEW t \in Threads, TurnAttaches(t) PROVE TurnsHold'
    BY <1>11 DEF TurnAttaches, Attach, runtimeVars, timerVars, idVars, countVars, TurnsHold,
        LockHolds, LiveIsOpen, TypeOK, Runtimes, Opened, Removed
  <1>12. ASSUME NEW t \in Threads, MarkBusy(t) PROVE TurnsHold'
    BY <1>12 DEF MarkBusy, runtimeVars, recordVars, idVars, countVars, TurnsHold, LockHolds,
        LiveIsOpen, TypeOK, Runtimes, Opened, Removed
  <1>13. ASSUME NEW t \in Threads, TurnAccepted(t) PROVE TurnsHold'
    BY <1>13 DEF TurnAccepted, entryVars, historyVars, runtimeVars, timerVars, recordVars,
        idVars, countVars, TurnsHold, LockHolds, LiveIsOpen, TypeOK, Runtimes, Opened,
        Removed
  <1>14. ASSUME NEW t \in Threads, TurnRejected(t) PROVE TurnsHold'
    BY <1>14 DEF TurnRejected, MarkIdle, Lowered, NoTurn, runtimeVars, recordVars, idVars,
        countVars, TurnsHold, LockHolds, LiveIsOpen, TypeOK, Runtimes, Opened, Removed
  <1>15. ASSUME NEW t \in Threads, TurnEnds(t) PROVE TurnsHold'
    BY <1>15 DEF TurnEnds, MarkIdle, Lowered, NoTurn, runtimeVars, recordVars, idVars,
        countVars, TurnsHold, LockHolds, LiveIsOpen, TypeOK, Runtimes, Opened, Removed
  <1>16. ASSUME NEW t \in Threads, TurnIsLost(t) PROVE TurnsHold'
    BY <1>16 DEF TurnIsLost, NoTurn, entryVars, historyVars, runtimeVars, timerVars,
        recordVars, idVars, countVars, TurnsHold, LockHolds, LiveIsOpen, TypeOK, Runtimes,
        Opened, Removed
  <1>31. ASSUME NEW t \in Threads, Compacts(t) PROVE TurnsHold'
    BY <1>31 DEF Compacts, entryVars, runtimeVars, TurnsHold, LiveIsOpen, TypeOK, Runtimes
  <1>32. ASSUME NEW t \in Threads, TurnDropped(t) PROVE TurnsHold'
    BY <1>32 DEF TurnDropped, NoTurn, entryVars, runtimeVars, TurnsHold, TypeOK
  <1>33. ASSUME NEW t \in Threads, StartInterrupted(t) PROVE TurnsHold'
    BY <1>33 DEF StartInterrupted, NoTurn, runtimeVars, TurnsHold, TypeOK
  <1>r. CASE Removing
    <2>1. CASE \E threads \in SUBSET Threads : RemoveFor(threads)
      BY <1>0, <1>r, <2>1, RemovingFacts
    <2>2. CASE UNCHANGED <<live, busy, generation, strays, leaks, orphan, stage, served,
        cutoff>>
      BY <1>q, <1>r, <2>2, RemovingFacts
    <2> QED BY <1>r, <2>1, <2>2, RemovingFacts
  <1>e. ASSUME NEW r \in Runtimes, Release(r) PROVE TurnsHold'
    <2>1. /\ stage[r] \in {"closing", "retrying"} /\ stage'[r] \in {"retrying", "released"}
          /\ \A o \in Runtimes : o # r => stage'[o] = stage[o]
          /\ \A i \in Requests :
                /\ request'[i].from = request[i].from /\ request'[i].thread = request[i].thread
                /\ \/ request'[i].at = request[i].at
                   \/ request'[i].at = "settled" /\ request[i].at = "pending" /\ i <= cutoff[r]
      BY <1>e, RecordingFacts
    <2>2. UNCHANGED <<live, served, cutoff, turn, opener, asked>>
      BY <1>e, RecordingFacts DEF entryVars, historyVars
    <2> QED
      BY <2>1, <2>2 DEF TurnsHold, LockHolds, LiveIsOpen, TypeOK, Runtimes, Opened, Removed
  <1>30. CASE UNCHANGED vars
    BY <1>q, <1>30 DEF vars, entryVars, historyVars, runtimeVars
  <1> QED
    BY <1>u, <1>1, <1>2, <1>4, <1>5, <1>9, <1>10, <1>11, <1>12, <1>13, <1>14, <1>15, <1>16,
        <1>r, <1>e, <1>30, <1>31, <1>32, <1>33
       DEF Next, Opener, Turns, Aside, Idle, Removing

\* The entry's own fiber waits for the entry that is in the map.
LEMMA TimersStep ==
    ASSUME TypeOK, TimersHold, LockHolds, [Next]_vars
    PROVE  TimersHold'
  <1>q. ASSUME UNCHANGED <<timers, live>> PROVE TimersHold'
    BY <1>q DEF TimersHold
  <1>u. CASE
            \/ \E t \in Threads : Opens(t) \/ TurnAttaches(t) \/ TurnAccepted(t) \/
                   Aside(t) \/ Unbind(t)
            \/ JoinFails \/ OpenFails \/ AttachWrites \/ OpenUndone \/ OpenInterrupted
            \/ \E r \in Runtimes : PumpReports(r) \/ Record(r) \/ RetryRecords(r)
            \/ \E r \in Runtimes, t \in Threads : Ask(r, t)
    BY <1>q, <1>u DEF Opens, JoinFails, OpenFails, AttachWrites, OpenUndone,
        OpenInterrupted, TurnAttaches, TurnAccepted, Aside, Compacts, TurnDropped,
        StartInterrupted, TurnIsLost, PumpReports, Unbind, Ask, Record, RetryRecords,
        entryVars, historyVars, timerVars
  <1>2. CASE OpenJoins
    <2>1. Schedule(busy) /\ busy \in Nat
      BY <1>2, LoweredFacts DEF OpenJoins, TypeOK
    <2>2. /\ timers' \subseteq timers
          /\ (live # 0 /\ busy = 0) => rearm' # EmptyBag
          /\ ~(live # 0 /\ busy = 0) => timers' = timers /\ rearm' = rearm
          /\ IsABag(rearm') /\ BagToSet(rearm') \subseteq Nat
      BY <2>1, ScheduleFacts
    <2> QED
      BY <1>2, <2>1, <2>2 DEF OpenJoins, Attach, runtimeVars, idVars, countVars, TimersHold,
         LockHolds, TypeOK, Runtimes
  <1>5. CASE OpenInserts
    BY <1>5 DEF OpenInserts, timerVars, recordVars, idVars, countVars, TimersHold,
        LockHolds, TypeOK, Runtimes
  <1>7. CASE AttachFails
    BY <1>7 DEF AttachFails, Upset, Remove, RemoveFor, Disarmed, entryVars, historyVars,
        timerVars, recordVars, idVars, TimersHold, LockHolds, TypeOK, Runtimes
  <1>9. CASE PumpStarts
    <2>1. Schedule(busy) /\ busy \in Nat
      BY <1>9, LoweredFacts DEF PumpStarts, TypeOK
    <2>2. /\ timers' \subseteq timers
          /\ (live # 0 /\ busy = 0) => rearm' # EmptyBag
          /\ ~(live # 0 /\ busy = 0) => timers' = timers /\ rearm' = rearm
          /\ IsABag(rearm') /\ BagToSet(rearm') \subseteq Nat
      BY <2>1, ScheduleFacts
    <2> QED
      BY <1>9, <2>1, <2>2 DEF PumpStarts, entryVars, historyVars, recordVars, idVars,
         countVars, TimersHold, LockHolds, TypeOK, Runtimes
  <1>12. ASSUME NEW t \in Threads, MarkBusy(t) PROVE TimersHold'
    BY <1>12 DEF MarkBusy, Disarmed, runtimeVars, timerVars, recordVars, idVars, countVars,
        TimersHold, LockHolds, TypeOK, Runtimes
  <1>14. ASSUME NEW t \in Threads, TurnRejected(t) PROVE TimersHold'
    <2>1. Schedule(Lowered) /\ Lowered \in Nat
      BY <1>14, LoweredFacts DEF TurnRejected, MarkIdle, TypeOK
    <2>2. /\ timers' \subseteq timers
          /\ (live # 0 /\ Lowered = 0) => rearm' # EmptyBag
          /\ ~(live # 0 /\ Lowered = 0) => timers' = timers /\ rearm' = rearm
          /\ IsABag(rearm') /\ BagToSet(rearm') \subseteq Nat
      BY <2>1, ScheduleFacts
    <2> QED
      BY <1>14, <2>1, <2>2 DEF TurnRejected, MarkIdle, runtimeVars, recordVars, idVars,
         countVars, TimersHold, LockHolds, TypeOK, Runtimes
  <1>15. ASSUME NEW t \in Threads, TurnEnds(t) PROVE TimersHold'
    <2>1. Schedule(Lowered) /\ Lowered \in Nat
      BY <1>15, LoweredFacts DEF TurnEnds, MarkIdle, TypeOK
    <2>2. /\ timers' \subseteq timers
          /\ (live # 0 /\ Lowered = 0) => rearm' # EmptyBag
          /\ ~(live # 0 /\ Lowered = 0) => timers' = timers /\ rearm' = rearm
          /\ IsABag(rearm') /\ BagToSet(rearm') \subseteq Nat
      BY <2>1, ScheduleFacts
    <2> QED
      BY <1>15, <2>1, <2>2 DEF TurnEnds, MarkIdle, runtimeVars, recordVars, idVars,
         countVars, TimersHold, LockHolds, TypeOK, Runtimes
  <1>17. CASE Touch
    <2>1. Schedule(busy) /\ busy \in Nat
      BY <1>17, LoweredFacts DEF Touch, TypeOK
    <2>2. /\ timers' \subseteq timers
          /\ (live # 0 /\ busy = 0) => rearm' # EmptyBag
          /\ ~(live # 0 /\ busy = 0) => timers' = timers /\ rearm' = rearm
          /\ IsABag(rearm') /\ BagToSet(rearm') \subseteq Nat
      BY <2>1, ScheduleFacts
    <2> QED
      BY <1>17, <2>1, <2>2 DEF Touch, Upset, entryVars, historyVars, runtimeVars,
         recordVars, idVars, TimersHold, LockHolds, TypeOK, Runtimes
  <1>18. ASSUME NEW g \in BagToSet(rearm), Rearm(g) PROVE TimersHold'
    BY <1>18 DEF Rearm, Unowned, runtimeVars, recordVars, idVars, countVars, TimersHold,
        LockHolds, TypeOK, Runtimes
  <1>31. ASSUME NEW g \in BagToSet(rearm), RearmInterrupted(g) PROVE TimersHold'
    BY <1>31 DEF RearmInterrupted, Unowned, TimersHold
  <1>19. ASSUME NEW x \in timers, IdleProbes(x) PROVE TimersHold'
    BY <1>19 DEF IdleProbes, StillIdle, entryVars, historyVars, runtimeVars, recordVars,
        idVars, countVars, TimersHold, LockHolds, TypeOK, Runtimes
  <1>20. ASSUME NEW x \in timers, IdlePinned(x) PROVE TimersHold'
    BY <1>20 DEF IdlePinned, StillIdle, runtimeVars, recordVars, idVars, countVars,
        TimersHold, LockHolds, TypeOK, Runtimes
  <1>21. ASSUME NEW x \in timers, IdleReleases(x) PROVE TimersHold'
    BY <1>21 DEF IdleReleases, StillIdle, Remove, RemoveFor, entryVars, historyVars,
        recordVars, idVars, countVars, TimersHold, LockHolds, TypeOK, Runtimes
  <1>22. CASE Close
    BY <1>22 DEF Close, Upset, Remove, RemoveFor, Disarmed, timerVars, recordVars, idVars,
        TimersHold, LockHolds, TypeOK, Runtimes
  <1>24. ASSUME NEW r \in Runtimes, PumpEnds(r) PROVE TimersHold'
    BY <1>24 DEF PumpEnds, Remove, RemoveFor, Disarmed, entryVars, historyVars, timerVars,
        recordVars, idVars, countVars, TimersHold, LockHolds, TypeOK, Runtimes
  <1>26. ASSUME NEW t \in Threads, Detach(t) PROVE TimersHold'
    BY <1>26 DEF Detach, RemoveFor, Disarmed, Schedule, entryVars, historyVars, timerVars,
        recordVars, idVars, countVars, TimersHold, LockHolds, TypeOK, Runtimes
  <1>30. CASE UNCHANGED vars
    BY <1>q, <1>30 DEF vars, entryVars, historyVars, timerVars
  <1> QED
    BY <1>u, <1>2, <1>5, <1>7, <1>9, <1>12, <1>14, <1>15, <1>17, <1>18, <1>19, <1>20, <1>21,
        <1>22, <1>24, <1>26, <1>30, <1>31
       DEF Next, Opener, Turns, Aside, Idle, Release

\* An entry with a busy count of zero keeps its fiber, unless an interruption takes
\* it one.
LEMMA WatchedStep ==
    ASSUME TypeOK, TimersHold, EntryHolds, LockHolds, Watched, [Next]_vars
    PROVE  Watched'
  <1>q. ASSUME UNCHANGED <<live, busy, orphan, opener, generation, timers,
      rearm>> PROVE Watched'
    BY <1>q DEF Watched
  <1>u. CASE
            \/ \E t \in Threads : TurnAttaches(t) \/ TurnAccepted(t) \/ Aside(t) \/
                   Unbind(t)
            \/ \E r \in Runtimes : PumpReports(r) \/ Record(r) \/ RetryRecords(r)
            \/ \E r \in Runtimes, t \in Threads : Ask(r, t)
    BY <1>q, <1>u DEF TurnAttaches, TurnAccepted, Aside, Compacts, TurnDropped,
        StartInterrupted, TurnIsLost, PumpReports, Unbind, Ask, Record, RetryRecords,
        entryVars, historyVars, timerVars
  <1>1. ASSUME NEW t \in Threads, Opens(t) PROVE Watched'
    BY <1>1 DEF Opens, entryVars, historyVars, timerVars, recordVars, idVars, Watched,
        TimersHold, EntryHolds, LockHolds, TypeOK, Runtimes
  <1>2. CASE OpenJoins
    <2>1. Schedule(busy) /\ busy \in Nat
      BY <1>2, LoweredFacts DEF OpenJoins, TypeOK
    <2>2. /\ timers' \subseteq timers
          /\ (live # 0 /\ busy = 0) => rearm' # EmptyBag
          /\ ~(live # 0 /\ busy = 0) => timers' = timers /\ rearm' = rearm
          /\ IsABag(rearm') /\ BagToSet(rearm') \subseteq Nat
      BY <2>1, ScheduleFacts
    <2> QED
      BY <1>2, <2>1, <2>2 DEF OpenJoins, Attach, runtimeVars, idVars, countVars, Watched,
         TimersHold, EntryHolds, LockHolds, TypeOK, Runtimes
  <1>3. CASE JoinFails
    BY <1>3 DEF JoinFails, Upset, Free, entryVars, historyVars, runtimeVars, timerVars,
        recordVars, idVars, Watched, TimersHold, EntryHolds, LockHolds, TypeOK, Runtimes
  <1>4. CASE OpenFails
    BY <1>4 DEF OpenFails, Upset, Free, entryVars, historyVars, timerVars, recordVars,
        idVars, Watched, TimersHold, EntryHolds, LockHolds, TypeOK, Runtimes
  <1>5. CASE OpenInserts
    BY <1>5 DEF OpenInserts, timerVars, recordVars, idVars, countVars, Watched, TimersHold,
        EntryHolds, LockHolds, TypeOK, Runtimes
  <1>6. CASE AttachWrites
    BY <1>6 DEF AttachWrites, entryVars, historyVars, runtimeVars, timerVars, idVars,
        countVars, Watched, TimersHold, EntryHolds, LockHolds, TypeOK, Runtimes
  <1>7. CASE AttachFails
    BY <1>7 DEF AttachFails, Upset, Remove, RemoveFor, Disarmed, entryVars, historyVars,
        timerVars, recordVars, idVars, Watched, TimersHold, EntryHolds, LockHolds, TypeOK,
        Runtimes
  <1>8. CASE OpenUndone
    BY <1>8 DEF OpenUndone, Free, entryVars, historyVars, runtimeVars, timerVars,
        recordVars, idVars, countVars, Watched, TimersHold, EntryHolds, LockHolds, TypeOK,
        Runtimes
  <1>9. CASE PumpStarts
    <2>1. Schedule(busy) /\ busy \in Nat
      BY <1>9, LoweredFacts DEF PumpStarts, TypeOK
    <2>2. /\ timers' \subseteq timers
          /\ (live # 0 /\ busy = 0) => rearm' # EmptyBag
          /\ ~(live # 0 /\ busy = 0) => timers' = timers /\ rearm' = rearm
          /\ IsABag(rearm') /\ BagToSet(rearm') \subseteq Nat
      BY <2>1, ScheduleFacts
    <2> QED
      BY <1>9, <2>1, <2>2 DEF PumpStarts, entryVars, historyVars, recordVars, idVars,
         countVars, Watched, TimersHold, EntryHolds, LockHolds, TypeOK, Runtimes
  <1>10. CASE OpenInterrupted
    <2>1. UNCHANGED <<live, busy, generation, timers, rearm>> /\ opener'.at = "free"
      BY <1>10 DEF OpenInterrupted, Free, timerVars
    <2>2. CASE opener.at = "opening"
      <3>1. live = 0
        BY <2>2 DEF LockHolds
      <3> QED BY <2>1, <3>1 DEF Watched
    <2>3. CASE opener.at = "joining"
      <3>1. orphan' = orphan
        BY <1>10, <2>3 DEF OpenInterrupted, TypeOK
      <3> QED BY <2>1, <2>3, <3>1 DEF Watched
    <2>4. CASE opener.at \in {"attaching", "pumping"}
      <3>1. live = 0 \/ orphan'
        BY <1>10, <2>4 DEF OpenInterrupted, LockHolds
      <3> QED BY <2>1, <3>1 DEF Watched
    <2> QED BY <1>10, <2>2, <2>3, <2>4 DEF OpenInterrupted
  <1>12. ASSUME NEW t \in Threads, MarkBusy(t) PROVE Watched'
    BY <1>12 DEF MarkBusy, Disarmed, runtimeVars, timerVars, recordVars, idVars, countVars,
        Watched, TimersHold, EntryHolds, LockHolds, TypeOK, Runtimes
  <1>14. ASSUME NEW t \in Threads, TurnRejected(t) PROVE Watched'
    <2>1. Schedule(Lowered) /\ Lowered \in Nat
      BY <1>14, LoweredFacts DEF TurnRejected, MarkIdle, TypeOK
    <2>2. /\ timers' \subseteq timers
          /\ (live # 0 /\ Lowered = 0) => rearm' # EmptyBag
          /\ ~(live # 0 /\ Lowered = 0) => timers' = timers /\ rearm' = rearm
          /\ IsABag(rearm') /\ BagToSet(rearm') \subseteq Nat
      BY <2>1, ScheduleFacts
    <2> QED
      BY <1>14, <2>1, <2>2 DEF TurnRejected, MarkIdle, runtimeVars, recordVars, idVars,
         countVars, Watched, TimersHold, EntryHolds, LockHolds, TypeOK, Runtimes
  <1>15. ASSUME NEW t \in Threads, TurnEnds(t) PROVE Watched'
    <2>1. Schedule(Lowered) /\ Lowered \in Nat
      BY <1>15, LoweredFacts DEF TurnEnds, MarkIdle, TypeOK
    <2>2. /\ timers' \subseteq timers
          /\ (live # 0 /\ Lowered = 0) => rearm' # EmptyBag
          /\ ~(live # 0 /\ Lowered = 0) => timers' = timers /\ rearm' = rearm
          /\ IsABag(rearm') /\ BagToSet(rearm') \subseteq Nat
      BY <2>1, ScheduleFacts
    <2> QED
      BY <1>15, <2>1, <2>2 DEF TurnEnds, MarkIdle, runtimeVars, recordVars, idVars,
         countVars, Watched, TimersHold, EntryHolds, LockHolds, TypeOK, Runtimes
  <1>17. CASE Touch
    <2>1. Schedule(busy) /\ busy \in Nat
      BY <1>17, LoweredFacts DEF Touch, TypeOK
    <2>2. /\ timers' \subseteq timers
          /\ (live # 0 /\ busy = 0) => rearm' # EmptyBag
          /\ ~(live # 0 /\ busy = 0) => timers' = timers /\ rearm' = rearm
          /\ IsABag(rearm') /\ BagToSet(rearm') \subseteq Nat
      BY <2>1, ScheduleFacts
    <2> QED
      BY <1>17, <2>1, <2>2 DEF Touch, Upset, entryVars, historyVars, runtimeVars,
         recordVars, idVars, Watched, TimersHold, EntryHolds, LockHolds, TypeOK, Runtimes
  <1>18. ASSUME NEW g \in BagToSet(rearm), Rearm(g) PROVE Watched'
    <2>1. CASE live = 0 \/ busy > 0
      BY <1>18, <2>1 DEF Rearm, Watched, TypeOK
    <2>2. CASE ~(live = 0 \/ busy > 0)
      <3>1. generation' = g /\ [gen |-> g, own |-> TRUE, probed |-> 0] \in timers'
        BY <1>18, <2>2 DEF Rearm
      <3> QED BY <3>1 DEF Watched
    <2> QED BY <2>1, <2>2
  <1>31. ASSUME NEW g \in BagToSet(rearm), RearmInterrupted(g) PROVE Watched'
    BY <1>31 DEF RearmInterrupted, Watched
  <1>19. ASSUME NEW x \in timers, IdleProbes(x) PROVE Watched'
    <2>1. UNCHANGED <<live, busy, orphan, generation, opener, rearm>>
      BY <1>19 DEF IdleProbes, entryVars, historyVars
    <2>2. ASSUME live # 0, busy = 0, x.own, x.gen = generation
          PROVE  \E y \in timers' : y.own /\ y.gen = generation
      <3>1. [x EXCEPT !.probed = live] \in timers'
        BY <1>19, <2>2 DEF IdleProbes, StillIdle
      <3>2. x = [gen |-> x.gen, own |-> x.own, probed |-> x.probed]
        BY DEF TypeOK
      <3>3. [x EXCEPT !.probed = live].own /\ [x EXCEPT !.probed = live].gen = generation
        BY <2>2, <3>2
      <3> QED BY <3>1, <3>3
    <2>3. \A y \in timers : y # x => y \in timers'
      BY <1>19 DEF IdleProbes
    <2> QED BY <2>1, <2>2, <2>3 DEF Watched
  <1>20. ASSUME NEW x \in timers, IdlePinned(x) PROVE Watched'
    <2>1. UNCHANGED <<live, busy, orphan, generation, opener, rearm>>
      BY <1>20 DEF IdlePinned, historyVars
    <2>2. ASSUME live # 0, busy = 0, x.own, x.gen = generation
          PROVE  \E y \in timers' : y.own /\ y.gen = generation
      <3>1. StillIdle(x) /\ live = x.probed
        BY <1>20, <2>2 DEF IdlePinned, StillIdle, TimersHold
      <3>2. [x EXCEPT !.probed = 0] \in timers'
        BY <1>20, <3>1 DEF IdlePinned
      <3> QED BY <2>2, <3>2, FiberFacts
    <2>3. \A y \in timers : y # x => y \in timers'
      BY <1>20 DEF IdlePinned
    <2> QED BY <2>1, <2>2, <2>3 DEF Watched
  <1>21. ASSUME NEW x \in timers, IdleReleases(x) PROVE Watched'
    BY <1>21 DEF IdleReleases, StillIdle, Remove, RemoveFor, entryVars, historyVars,
        recordVars, idVars, countVars, Watched, TimersHold, EntryHolds, LockHolds, TypeOK,
        Runtimes
  <1>22. CASE Close
    BY <1>22 DEF Close, Upset, Remove, RemoveFor, Disarmed, timerVars, recordVars, idVars,
        Watched, TimersHold, EntryHolds, LockHolds, TypeOK, Runtimes
  <1>24. ASSUME NEW r \in Runtimes, PumpEnds(r) PROVE Watched'
    BY <1>24 DEF PumpEnds, Remove, RemoveFor, Disarmed, entryVars, historyVars, timerVars,
        recordVars, idVars, countVars, Watched, TimersHold, EntryHolds, LockHolds, TypeOK,
        Runtimes
  <1>26. ASSUME NEW t \in Threads, Detach(t) PROVE Watched'
    <2>1. CASE live # 0 /\ t \in attached /\ attached = {t} /\ kind = "exclusive"
      BY <1>26, <2>1 DEF Detach, RemoveFor, Watched
    <2>2. CASE live # 0 /\ t \in attached /\ ~(attached = {t} /\ kind = "exclusive")
      <3>1. /\ Schedule(busy) /\ busy \in Nat
            /\ UNCHANGED <<live, busy, orphan, generation, opener>>
        BY <1>26, <2>2 DEF Detach, historyVars, TypeOK
      <3>2. /\ (live # 0 /\ busy = 0) => rearm' # EmptyBag
            /\ ~(live # 0 /\ busy = 0) => timers' = timers /\ rearm' = rearm
        BY <3>1, ScheduleFacts
      <3> QED BY <3>1, <3>2 DEF Watched
    <2>3. CASE ~(live # 0 /\ t \in attached)
      BY <1>26, <2>3 DEF Detach, entryVars, historyVars, timerVars, Watched
    <2> QED BY <2>1, <2>2, <2>3
  <1>30. CASE UNCHANGED vars
    BY <1>q, <1>30 DEF vars, entryVars, historyVars, timerVars
  <1> QED
    BY <1>u, <1>1, <1>2, <1>3, <1>4, <1>5, <1>6, <1>7, <1>8, <1>9, <1>10, <1>12, <1>14,
        <1>15,
        <1>17, <1>18, <1>19, <1>20, <1>21, <1>22, <1>24, <1>26, <1>30, <1>31
       DEF Next, Opener, Turns, Aside, Idle, Release

\* The busy count stays exact.
LEMMA BusyStep ==
    ASSUME TypeOK, LockHolds, EntryHolds, TurnsHold, BusyIsExact, [Next]_vars
    PROVE  BusyIsExact'
  <1>q. ASSUME UNCHANGED <<live, busy, strays, leaks, turn>> PROVE BusyIsExact'
    BY <1>q DEF BusyIsExact, Counted
  <1>u. CASE
            \/ \E t \in Threads : Opens(t) \/ Unbind(t)
            \/ JoinFails \/ OpenFails \/ AttachWrites \/ OpenUndone \/ OpenInterrupted \/
                   Touch
            \/ \E g \in BagToSet(rearm) : Rearm(g) \/ RearmInterrupted(g)
            \/ \E x \in timers : IdleProbes(x) \/ IdlePinned(x)
            \/ \E r \in Runtimes : PumpReports(r) \/ Record(r) \/ RetryRecords(r)
            \/ \E r \in Runtimes, t \in Threads : Ask(r, t)
    BY <1>q, <1>u DEF Opens, JoinFails, OpenFails, AttachWrites, OpenUndone,
        OpenInterrupted, Touch, Rearm, RearmInterrupted, IdleProbes, IdlePinned,
        PumpReports, Unbind, Ask, Record, RetryRecords, entryVars, historyVars
  <1>2. CASE OpenJoins
    <2>1. /\ UNCHANGED <<live, busy, strays, leaks>>
          /\ \A o \in Threads : turn'[o].counted = turn[o].counted
      BY <1>2 DEF OpenJoins, Attach, historyVars, LockHolds, TypeOK
    <2> QED BY <2>1, CountKept
  <1>5. CASE OpenInserts
    <2>1. /\ live = 0 /\ live' = opener.rt /\ opener.rt \in Runtimes /\ stage[opener.rt] = "opening"
          /\ UNCHANGED <<busy, strays, leaks, turn>>
      BY <1>5 DEF OpenInserts, historyVars, LockHolds
    <2>2. busy = 0 /\ strays = 0 /\ leaks = 0
      BY <2>1 DEF EntryHolds
    <2>3. Counted' = {}
      BY <2>1 DEF Counted, TurnsHold, Opened, Removed, Runtimes
    <2> QED BY <2>1, <2>2, <2>3, FS_EmptySet DEF BusyIsExact
  <1>7. CASE AttachFails
    <2>1. CASE live # 0
      BY <1>7, <2>1, CountDropped DEF AttachFails, Remove
    <2>2. CASE ~(live # 0)
      <3>1. UNCHANGED <<live, busy, strays, leaks, turn>>
        BY <1>7, <2>2 DEF AttachFails, entryVars, historyVars
      <3> QED BY <3>1, CountKept
    <2> QED BY <2>1, <2>2
  <1>9. CASE PumpStarts
    <2>1. /\ UNCHANGED <<live, busy, strays, leaks>>
          /\ \A o \in Threads : turn'[o].counted = turn[o].counted
      BY <1>9 DEF PumpStarts, entryVars, historyVars, LockHolds, TypeOK
    <2> QED BY <2>1, CountKept
  <1>11. ASSUME NEW t \in Threads, TurnAttaches(t) PROVE BusyIsExact'
    <2>1. /\ UNCHANGED <<live, busy, strays, leaks>>
          /\ \A o \in Threads : turn'[o].counted = turn[o].counted
      BY <1>11 DEF TurnAttaches, Attach, historyVars, LockHolds, TypeOK
    <2> QED BY <2>1, CountKept
  <1>12. ASSUME NEW t \in Threads, MarkBusy(t) PROVE BusyIsExact'
    <2>1. /\ turn[t].counted = 0 /\ turn'[t].counted = live
          /\ \A o \in Threads : o # t => turn'[o] = turn[o]
          /\ UNCHANGED <<live, strays, leaks>>
      BY <1>12 DEF MarkBusy, historyVars, TurnsHold, TypeOK
    <2>2. CASE live = 0
      <3>1. UNCHANGED busy
        BY <1>12, <2>2 DEF MarkBusy
      <3>2. \A o \in Threads : turn'[o].counted = turn[o].counted
        BY <2>1, <2>2
      <3> QED BY <2>1, <3>1, <3>2, CountKept
    <2>3. CASE live # 0
      <3>1. Counted' = Counted \cup {t} /\ t \notin Counted
        BY <2>1, <2>3 DEF Counted
      <3>2. Cardinality(Counted') = Cardinality(Counted) + 1
        BY <3>1, CountedIsFinite, FS_AddElement
      <3>3. busy' = busy + 1 /\ UNCHANGED <<strays, leaks>>
        BY <1>12, <2>3 DEF MarkBusy, historyVars
      <3>5. leaks' = leaks /\ strays' = strays
        BY <3>3
      <3>4. busy \in Nat /\ strays \in Nat /\ leaks \in Nat /\ Cardinality(Counted) \in Nat
        BY CountedIsFinite DEF TypeOK
      <3>6. busy + strays = Cardinality(Counted) + leaks
        BY DEF BusyIsExact
      <3>7. busy' + strays' = Cardinality(Counted') + leaks'
        BY <3>2, <3>3, <3>4, <3>5, <3>6
      <3> QED BY <3>7 DEF BusyIsExact
    <2> QED BY <2>2, <2>3
  <1>13. ASSUME NEW t \in Threads, TurnAccepted(t) PROVE BusyIsExact'
    <2>1. /\ UNCHANGED <<live, busy, strays, leaks>>
          /\ \A o \in Threads : turn'[o].counted = turn[o].counted
      BY <1>13 DEF TurnAccepted, entryVars, historyVars, LockHolds, TypeOK
    <2> QED BY <2>1, CountKept
  <1>14. ASSUME NEW t \in Threads, TurnRejected(t) PROVE BusyIsExact'
    BY <1>14, CountLowered DEF TurnRejected
  <1>15. ASSUME NEW t \in Threads, TurnEnds(t) PROVE BusyIsExact'
    BY <1>15, CountLowered DEF TurnEnds
  <1>16. ASSUME NEW t \in Threads, TurnIsLost(t) PROVE BusyIsExact'
    <2>1. (live = 0 \/ turn[t].counted # live) /\ UNCHANGED <<live, busy, strays, leaks>>
      BY <1>16 DEF TurnIsLost, TurnsHold, entryVars, historyVars
    <2>2. turn'[t].counted = 0 /\ \A o \in Threads : o # t => turn'[o] = turn[o]
      BY <1>16 DEF TurnIsLost, NoTurn, TypeOK
    <2>3. Counted' = Counted
      BY <2>1, <2>2 DEF Counted
    <2> QED BY <2>1, <2>3 DEF BusyIsExact
  <1>31. ASSUME NEW t \in Threads, Compacts(t) PROVE BusyIsExact'
    <2>1. /\ UNCHANGED <<live, busy, strays, leaks>>
          /\ \A o \in Threads : turn'[o].counted = turn[o].counted
      BY <1>31 DEF Compacts, entryVars, historyVars, TypeOK
    <2> QED BY <2>1, CountKept
  <1>32. ASSUME NEW t \in Threads, TurnDropped(t) PROVE BusyIsExact'
    <2>1. /\ UNCHANGED <<live, busy, strays, leaks>>
          /\ \A o \in Threads : turn'[o].counted = turn[o].counted
      BY <1>32 DEF TurnDropped, NoTurn, TurnsHold, entryVars, historyVars, TypeOK
    <2> QED BY <2>1, CountKept
  <1>33. ASSUME NEW t \in Threads, StartInterrupted(t) PROVE BusyIsExact'
    <2>1. /\ turn'[t].counted = 0 /\ \A o \in Threads : o # t => turn'[o] = turn[o]
          /\ UNCHANGED <<live, busy, strays>>
          /\ leaks' = IF live # 0 /\ turn[t].counted = live THEN leaks + 1 ELSE leaks
      BY <1>33 DEF StartInterrupted, NoTurn, TypeOK
    <2>2. /\ IsFiniteSet(Counted) /\ Cardinality(Counted) \in Nat
          /\ busy \in Nat /\ strays \in Nat /\ leaks \in Nat
      BY CountedIsFinite DEF TypeOK
    <2>3. CASE live # 0 /\ turn[t].counted = live
      <3>1. Counted' = Counted \ {t} /\ t \in Counted
        BY <2>1, <2>3 DEF Counted
      <3>2. Cardinality(Counted') = Cardinality(Counted) - 1
        BY <2>2, <3>1, FS_RemoveElement
      <3> QED BY <2>1, <2>2, <2>3, <3>2 DEF BusyIsExact
    <2>4. CASE ~(live # 0 /\ turn[t].counted = live)
      <3>1. Counted' = Counted
        BY <2>1, <2>4 DEF Counted
      <3> QED BY <2>1, <2>4, <3>1 DEF BusyIsExact
    <2> QED BY <2>3, <2>4
  <1>21. ASSUME NEW x \in timers, IdleReleases(x) PROVE BusyIsExact'
    <2>1. CASE StillIdle(x)
      BY <1>21, <2>1, CountDropped DEF IdleReleases, Remove
    <2>2. CASE ~(StillIdle(x))
      <3>1. UNCHANGED <<live, busy, strays, leaks, turn>>
        BY <1>21, <2>2 DEF IdleReleases, entryVars, historyVars
      <3> QED BY <3>1, CountKept
    <2> QED BY <2>1, <2>2
  <1>22. CASE Close
    BY <1>22, CountDropped DEF Close, Remove
  <1>24. ASSUME NEW r \in Runtimes, PumpEnds(r) PROVE BusyIsExact'
    <2>1. CASE live = r
      BY <1>24, <2>1, CountDropped DEF PumpEnds, Remove
    <2>2. CASE ~(live = r)
      <3>1. UNCHANGED <<live, busy, strays, leaks, turn>>
        BY <1>24, <2>2 DEF PumpEnds, entryVars, historyVars
      <3> QED BY <3>1, CountKept
    <2> QED BY <2>1, <2>2
  <1>26. ASSUME NEW t \in Threads, Detach(t) PROVE BusyIsExact'
    <2>1. CASE live # 0 /\ t \in attached /\ attached = {t} /\ kind = "exclusive"
      BY <1>26, <2>1, CountDropped DEF Detach
    <2>2. CASE ~(live # 0 /\ t \in attached /\ attached = {t} /\ kind = "exclusive")
      <3>1. UNCHANGED <<live, busy, strays, leaks, turn>>
        BY <1>26, <2>2 DEF Detach, entryVars, historyVars
      <3> QED BY <3>1, CountKept
    <2> QED BY <2>1, <2>2
  <1>30. CASE UNCHANGED vars
    BY <1>q, <1>30 DEF vars, entryVars, historyVars
  <1> QED
    BY <1>u, <1>2, <1>5, <1>7, <1>9, <1>11, <1>12, <1>13, <1>14, <1>15, <1>16, <1>21, <1>22,
        <1>24, <1>26, <1>30, <1>31, <1>32, <1>33
       DEF Next, Opener, Turns, Aside, Idle, Release

\* A pending request of a thread that was served to the end has a release to come.
LEMMA LeftoversStep ==
    ASSUME TypeOK, LockHolds, LiveIsOpen, ServedHold, RequestsHold, CutoffsHold,
           LeftoversAreSettled, [Next]_vars
    PROVE  LeftoversAreSettled'
  <1>0. ASSUME NEW threads \in SUBSET Threads, RemoveFor(threads), UNCHANGED <<request,
      asked>>
        PROVE  LeftoversAreSettled'
    <2>1. /\ live \in Runtimes /\ live' = 0
          /\ stage'[live] = "closing" /\ served'[live] = threads /\ cutoff'[live] = asked
          /\ \A r \in Runtimes : r # live =>
                stage'[r] = stage[r] /\ served'[r] = served[r] /\ cutoff'[r] = cutoff[r]
      BY <1>0 DEF RemoveFor, TypeOK
    <2> QED
      BY <1>0, <2>1 DEF LeftoversAreSettled, Unrecorded, ServedHold, RequestsHold,
         CutoffsHold, Removed, Opened, LockHolds, LiveIsOpen, TypeOK, Runtimes, Requests,
         Stages
  <1>q. ASSUME UNCHANGED <<request, served, stage>> PROVE LeftoversAreSettled'
    BY <1>q DEF LeftoversAreSettled
  <1>u. CASE
            \/ OpenJoins \/ JoinFails \/ AttachWrites \/ OpenUndone \/ PumpStarts \/ Touch
            \/ \E t \in Threads : TurnAttaches(t) \/ MarkBusy(t) \/ TurnAccepted(t) \/
                   TurnRejected(t) \/ TurnEnds(t) \/ Aside(t) \/ Unbind(t)
            \/ \E g \in BagToSet(rearm) : Rearm(g) \/ RearmInterrupted(g)
            \/ \E x \in timers : IdleProbes(x) \/ IdlePinned(x)
            \/ \E r \in Runtimes : PumpReports(r)
    BY <1>q, <1>u DEF OpenJoins, JoinFails, AttachWrites, OpenUndone, PumpStarts,
        TurnAttaches, MarkBusy, TurnAccepted, TurnRejected, TurnEnds, Aside, Compacts,
        TurnDropped, StartInterrupted, TurnIsLost, Touch, Rearm, RearmInterrupted,
        IdleProbes, IdlePinned, PumpReports, Unbind, runtimeVars, recordVars
  <1>1. ASSUME NEW t \in Threads, Opens(t) PROVE LeftoversAreSettled'
    <2>1. CASE live # 0 /\ UNCHANGED stage
      BY <1>1, <2>1 DEF Opens, entryVars, historyVars, timerVars, recordVars, idVars,
         LeftoversAreSettled, Unrecorded, ServedHold, RequestsHold, CutoffsHold, Removed,
         Opened, LockHolds, LiveIsOpen, TypeOK, Runtimes, Requests, Stages
    <2>2. ASSUME NEW r \in Runtimes, live = 0, stage[r] = "none",
                 stage' = [stage EXCEPT ![r] = "opening"],
                 opener' = [at |-> "opening", for |-> t, rt |-> r]
          PROVE  LeftoversAreSettled'
      BY <1>1, <2>2 DEF Opens, entryVars, historyVars, timerVars, recordVars, idVars,
         LeftoversAreSettled, Unrecorded, ServedHold, RequestsHold, CutoffsHold, Removed,
         Opened, LockHolds, LiveIsOpen, TypeOK, Runtimes, Requests, Stages
    <2> QED
      BY <1>1, <2>1, <2>2 DEF Opens
  <1>4. CASE OpenFails
    BY <1>4 DEF OpenFails, Upset, Free, entryVars, historyVars, timerVars, recordVars,
        idVars, LeftoversAreSettled, Unrecorded, ServedHold, RequestsHold, CutoffsHold,
        Removed, Opened, LockHolds, LiveIsOpen, TypeOK, Runtimes, Requests, Stages
  <1>5. CASE OpenInserts
    BY <1>5 DEF OpenInserts, timerVars, recordVars, idVars, countVars, LeftoversAreSettled,
        Unrecorded, ServedHold, RequestsHold, CutoffsHold, Removed, Opened, LockHolds,
        LiveIsOpen, TypeOK, Runtimes, Requests, Stages
  <1>10. CASE OpenInterrupted
    BY <1>10 DEF OpenInterrupted, Free, entryVars, historyVars, timerVars, recordVars,
        idVars, countVars, LeftoversAreSettled, Unrecorded, ServedHold, RequestsHold,
        CutoffsHold, Removed, Opened, LockHolds, LiveIsOpen, TypeOK, Runtimes, Requests,
        Stages
  <1>27. ASSUME NEW r \in Runtimes, NEW t \in Threads, Ask(r, t) PROVE LeftoversAreSettled'
    BY <1>27 DEF Ask, entryVars, historyVars, runtimeVars, timerVars, idVars, countVars,
        LeftoversAreSettled, Unrecorded, ServedHold, RequestsHold, CutoffsHold, Removed,
        Opened, LockHolds, LiveIsOpen, TypeOK, Runtimes, Requests, Stages
  <1>r. CASE Removing
    <2>1. CASE \E threads \in SUBSET Threads : RemoveFor(threads)
      BY <1>0, <1>r, <2>1, RemovingFacts
    <2>2. CASE UNCHANGED <<live, busy, generation, strays, leaks, orphan, stage, served,
        cutoff>>
      BY <1>q, <1>r, <2>2, RemovingFacts
    <2> QED BY <1>r, <2>1, <2>2, RemovingFacts
  <1>e. ASSUME NEW r \in Runtimes, Release(r) PROVE LeftoversAreSettled'
    <2>1. UNCHANGED <<served, cutoff, asked>>
      BY <1>e, RecordingFacts
    <2>2. ASSUME NEW i \in Requests, request'[i].at = "pending",
                 request'[i].thread \in served[request'[i].from]
          PROVE  stage'[request'[i].from] \in Unrecorded
      <3>1. request[i].at = "pending" /\ request'[i].from = request[i].from
            /\ request'[i].thread = request[i].thread
        BY <1>e, <2>2, RecordingFacts
      <3>2. i <= asked /\ request[i].from \in Runtimes
        BY <3>1 DEF RequestsHold, TypeOK, Requests
      <3>3. CASE request[i].from = r
        <4>1. i <= cutoff[r]
          BY <1>e, <3>3, RecordingFacts DEF CutoffsHold, Removed
        <4>2. stage'[r] # "released"
          BY <1>e, <2>2, <3>1, <3>3, <4>1, RecordingFacts
        <4> QED BY <1>e, <3>1, <3>3, <4>2, RecordingFacts DEF Unrecorded
      <3>4. CASE request[i].from # r
        BY <1>e, <2>2, <3>1, <3>2, <3>4, RecordingFacts DEF LeftoversAreSettled
      <3> QED BY <3>3, <3>4
    <2> QED BY <2>1, <2>2 DEF LeftoversAreSettled
  <1>30. CASE UNCHANGED vars
    BY <1>q, <1>30 DEF vars, runtimeVars, recordVars
  <1> QED
    BY <1>u, <1>1, <1>4, <1>5, <1>10, <1>27, <1>r, <1>e, <1>30
       DEF Next, Opener, Turns, Aside, Idle, Removing

\* No record of a release reaches a request of a runtime that is open.
LEMMA ReplacementStep ==
    ASSUME TypeOK, LockHolds, LiveIsOpen, RequestsHold, CutoffsHold,
           ReplacementKeepsItsRequests, [Next]_vars
    PROVE  ReplacementKeepsItsRequests'
  <1>0. ASSUME NEW threads \in SUBSET Threads, RemoveFor(threads), UNCHANGED <<request>>
        PROVE  ReplacementKeepsItsRequests'
    <2>1. /\ live \in Runtimes /\ live' = 0
          /\ stage'[live] = "closing" /\ served'[live] = threads /\ cutoff'[live] = asked
          /\ \A r \in Runtimes : r # live =>
                stage'[r] = stage[r] /\ served'[r] = served[r] /\ cutoff'[r] = cutoff[r]
      BY <1>0 DEF RemoveFor, TypeOK
    <2> QED
      BY <1>0, <2>1 DEF ReplacementKeepsItsRequests, RequestsHold, CutoffsHold, Removed,
         Opened, LockHolds, LiveIsOpen, TypeOK, Runtimes, Requests, Stages
  <1>q. ASSUME UNCHANGED <<request, stage>> PROVE ReplacementKeepsItsRequests'
    BY <1>q DEF ReplacementKeepsItsRequests
  <1>u. CASE
            \/ OpenJoins \/ JoinFails \/ AttachWrites \/ OpenUndone \/ PumpStarts \/ Touch
            \/ \E t \in Threads : TurnAttaches(t) \/ MarkBusy(t) \/ TurnAccepted(t) \/
                   TurnRejected(t) \/ TurnEnds(t) \/ Aside(t) \/ Unbind(t)
            \/ \E g \in BagToSet(rearm) : Rearm(g) \/ RearmInterrupted(g)
            \/ \E x \in timers : IdleProbes(x) \/ IdlePinned(x)
            \/ \E r \in Runtimes : PumpReports(r)
    BY <1>q, <1>u DEF OpenJoins, JoinFails, AttachWrites, OpenUndone, PumpStarts,
        TurnAttaches, MarkBusy, TurnAccepted, TurnRejected, TurnEnds, Aside, Compacts,
        TurnDropped, StartInterrupted, TurnIsLost, Touch, Rearm, RearmInterrupted,
        IdleProbes, IdlePinned, PumpReports, Unbind, runtimeVars, recordVars
  <1>1. ASSUME NEW t \in Threads, Opens(t) PROVE ReplacementKeepsItsRequests'
    <2>1. CASE live # 0 /\ UNCHANGED stage
      BY <1>1, <2>1 DEF Opens, entryVars, historyVars, timerVars, recordVars, idVars,
         ReplacementKeepsItsRequests, RequestsHold, CutoffsHold, Removed, Opened, LockHolds,
         LiveIsOpen, TypeOK, Runtimes, Requests, Stages
    <2>2. ASSUME NEW r \in Runtimes, live = 0, stage[r] = "none",
                 stage' = [stage EXCEPT ![r] = "opening"],
                 opener' = [at |-> "opening", for |-> t, rt |-> r]
          PROVE  ReplacementKeepsItsRequests'
      BY <1>1, <2>2 DEF Opens, entryVars, historyVars, timerVars, recordVars, idVars,
         ReplacementKeepsItsRequests, RequestsHold, CutoffsHold, Removed, Opened, LockHolds,
         LiveIsOpen, TypeOK, Runtimes, Requests, Stages
    <2> QED
      BY <1>1, <2>1, <2>2 DEF Opens
  <1>4. CASE OpenFails
    BY <1>4 DEF OpenFails, Upset, Free, entryVars, historyVars, timerVars, recordVars,
        idVars, ReplacementKeepsItsRequests, RequestsHold, CutoffsHold, Removed, Opened,
        LockHolds, LiveIsOpen, TypeOK, Runtimes, Requests, Stages
  <1>5. CASE OpenInserts
    BY <1>5 DEF OpenInserts, timerVars, recordVars, idVars, countVars,
        ReplacementKeepsItsRequests, RequestsHold, CutoffsHold, Removed, Opened, LockHolds,
        LiveIsOpen, TypeOK, Runtimes, Requests, Stages
  <1>10. CASE OpenInterrupted
    BY <1>10 DEF OpenInterrupted, Free, entryVars, historyVars, timerVars, recordVars,
        idVars, countVars, ReplacementKeepsItsRequests, RequestsHold, CutoffsHold, Removed,
        Opened, LockHolds, LiveIsOpen, TypeOK, Runtimes, Requests, Stages
  <1>27. ASSUME NEW r \in Runtimes, NEW t \in Threads, Ask(r,
      t) PROVE ReplacementKeepsItsRequests'
    BY <1>27 DEF Ask, entryVars, historyVars, runtimeVars, timerVars, idVars, countVars,
        ReplacementKeepsItsRequests, RequestsHold, CutoffsHold, Removed, Opened, LockHolds,
        LiveIsOpen, TypeOK, Runtimes, Requests, Stages
  <1>r. CASE Removing
    <2>1. CASE \E threads \in SUBSET Threads : RemoveFor(threads)
      BY <1>0, <1>r, <2>1, RemovingFacts
    <2>2. CASE UNCHANGED <<live, busy, generation, strays, leaks, orphan, stage, served,
        cutoff>>
      BY <1>q, <1>r, <2>2, RemovingFacts
    <2> QED BY <1>r, <2>1, <2>2, RemovingFacts
  <1>e. ASSUME NEW r \in Runtimes, Release(r) PROVE ReplacementKeepsItsRequests'
    <2>1. /\ stage[r] \in {"closing", "retrying"} /\ stage'[r] \in {"retrying", "released"}
          /\ \A o \in Runtimes : o # r => stage'[o] = stage[o]
          /\ \A i \in Requests :
                /\ request'[i].from = request[i].from /\ request'[i].thread = request[i].thread
                /\ \/ request'[i].at = request[i].at
                   \/ request'[i].at = "settled" /\ request[i].at = "pending" /\ i <= cutoff[r]
      BY <1>e, RecordingFacts
    <2>2. UNCHANGED <<live, served, cutoff, turn, opener, asked>>
      BY <1>e, RecordingFacts DEF entryVars, historyVars
    <2> QED
      BY <2>1, <2>2 DEF ReplacementKeepsItsRequests, RequestsHold, CutoffsHold, Removed,
         Opened, LockHolds, LiveIsOpen, TypeOK, Runtimes, Requests, Stages
  <1>30. CASE UNCHANGED vars
    BY <1>q, <1>30 DEF vars, runtimeVars, recordVars
  <1> QED
    BY <1>u, <1>1, <1>4, <1>5, <1>10, <1>27, <1>r, <1>e, <1>30
       DEF Next, Opener, Turns, Aside, Idle, Removing

\* A row says ready only as long as a runtime is live or its end is to be written,
\* or when no thread was left to write it for.
LEMMA ReadyStep ==
    ASSUME TypeOK, LockHolds, LiveIsOpen, ServedHold, ReadyIsLive, [Next]_vars
    PROVE  ReadyIsLive'
  <1>0. ASSUME NEW threads \in SUBSET Threads, RemoveFor(threads), UNCHANGED <<row>>
        PROVE  ReadyIsLive'
    <2>1. /\ live \in Runtimes /\ live' = 0
          /\ stage'[live] = "closing" /\ served'[live] = threads /\ cutoff'[live] = asked
          /\ \A r \in Runtimes : r # live =>
                stage'[r] = stage[r] /\ served'[r] = served[r] /\ cutoff'[r] = cutoff[r]
      BY <1>0 DEF RemoveFor, TypeOK
    <2> QED
      BY <1>0, <2>1 DEF ReadyIsLive, Unrecorded, ServedHold, Removed, LockHolds, LiveIsOpen,
         TypeOK, Runtimes, Stages
  <1>q. ASSUME UNCHANGED <<row, live, stage, served>> PROVE ReadyIsLive'
    BY <1>q DEF ReadyIsLive
  <1>u. CASE
            \/ JoinFails \/ OpenUndone \/ PumpStarts \/ Touch
            \/ \E t \in Threads : MarkBusy(t) \/ TurnAccepted(t) \/ TurnRejected(t) \/
                   TurnEnds(t) \/ Aside(t) \/ Unbind(t)
            \/ \E g \in BagToSet(rearm) : Rearm(g) \/ RearmInterrupted(g)
            \/ \E x \in timers : IdleProbes(x) \/ IdlePinned(x)
            \/ \E r \in Runtimes, t \in Threads : Ask(r, t)
    BY <1>q, <1>u DEF JoinFails, OpenUndone, PumpStarts, MarkBusy, TurnAccepted,
        TurnRejected, TurnEnds, Aside, Compacts, TurnDropped, StartInterrupted, TurnIsLost,
        Touch, Rearm, RearmInterrupted, IdleProbes, IdlePinned, Unbind, Ask, entryVars,
        historyVars, runtimeVars, recordVars
  <1>1. ASSUME NEW t \in Threads, Opens(t) PROVE ReadyIsLive'
    <2>1. CASE live # 0 /\ UNCHANGED stage
      BY <1>1, <2>1 DEF Opens, entryVars, historyVars, timerVars, recordVars, idVars,
         ReadyIsLive, Unrecorded, ServedHold, Removed, LockHolds, LiveIsOpen, TypeOK,
         Runtimes, Stages
    <2>2. ASSUME NEW r \in Runtimes, live = 0, stage[r] = "none",
                 stage' = [stage EXCEPT ![r] = "opening"],
                 opener' = [at |-> "opening", for |-> t, rt |-> r]
          PROVE  ReadyIsLive'
      BY <1>1, <2>2 DEF Opens, entryVars, historyVars, timerVars, recordVars, idVars,
         ReadyIsLive, Unrecorded, ServedHold, Removed, LockHolds, LiveIsOpen, TypeOK,
         Runtimes, Stages
    <2> QED
      BY <1>1, <2>1, <2>2 DEF Opens
  <1>2. CASE OpenJoins
    BY <1>2 DEF OpenJoins, Attach, Schedule, Disarmed, Free, runtimeVars, idVars, countVars,
        ReadyIsLive, Unrecorded, ServedHold, Removed, LockHolds, LiveIsOpen, TypeOK,
        Runtimes, Stages
  <1>4. CASE OpenFails
    BY <1>4 DEF OpenFails, Upset, Free, entryVars, historyVars, timerVars, recordVars,
        idVars, ReadyIsLive, Unrecorded, ServedHold, Removed, LockHolds, LiveIsOpen,
        TypeOK, Runtimes, Stages
  <1>5. CASE OpenInserts
    BY <1>5 DEF OpenInserts, timerVars, recordVars, idVars, countVars, ReadyIsLive,
        Unrecorded, ServedHold, Removed, LockHolds, LiveIsOpen, TypeOK, Runtimes, Stages
  <1>6. CASE AttachWrites
    BY <1>6 DEF AttachWrites, entryVars, historyVars, runtimeVars, timerVars, idVars,
        countVars, ReadyIsLive, Unrecorded, ServedHold, Removed, LockHolds, LiveIsOpen,
        TypeOK, Runtimes, Stages
  <1>10. CASE OpenInterrupted
    BY <1>10 DEF OpenInterrupted, Attach, Free, entryVars, historyVars, timerVars,
        recordVars, idVars, countVars, ReadyIsLive, Unrecorded, ServedHold, Removed,
        LockHolds, LiveIsOpen, TypeOK, Runtimes, Stages
  <1>11. ASSUME NEW t \in Threads, TurnAttaches(t) PROVE ReadyIsLive'
    BY <1>11 DEF TurnAttaches, Attach, runtimeVars, timerVars, idVars, countVars,
        ReadyIsLive, Unrecorded, ServedHold, Removed, LockHolds, LiveIsOpen, TypeOK,
        Runtimes, Stages
  <1>23. ASSUME NEW r \in Runtimes, PumpReports(r) PROVE ReadyIsLive'
    BY <1>23 DEF PumpReports, entryVars, historyVars, runtimeVars, timerVars, idVars,
        countVars, ReadyIsLive, Unrecorded, ServedHold, Removed, LockHolds, LiveIsOpen,
        TypeOK, Runtimes, Stages
  <1>28. ASSUME NEW r \in Runtimes, Record(r) PROVE ReadyIsLive'
    <2>1. /\ UNCHANGED <<live, served>>
          /\ \/ stage'[r] = "released" /\ row' = Stopped(r)
             \/ stage'[r] = "retrying"
      BY <1>28 DEF Record, entryVars, historyVars, TypeOK
    <2> QED
      BY <2>1 DEF Stopped, ReadyIsLive, Unrecorded
  <1>29. ASSUME NEW r \in Runtimes, RetryRecords(r) PROVE ReadyIsLive'
    <2>1. /\ UNCHANGED <<live, served>>
          /\ \/ stage'[r] = "released" /\ row' = IF live = 0 THEN Stopped(r) ELSE row
             \/ UNCHANGED <<stage, row>>
      BY <1>29 DEF RetryRecords, entryVars, historyVars, TypeOK
    <2>2. CASE UNCHANGED <<stage, row>>
      BY <1>q, <2>1, <2>2
    <2>3. CASE live # 0
      BY <2>1, <2>3 DEF ReadyIsLive
    <2>4. CASE live = 0 /\ stage'[r] = "released" /\ row' = Stopped(r)
      BY <2>1, <2>4 DEF Stopped, ReadyIsLive
    <2> QED
      BY <2>1, <2>2, <2>3, <2>4
  <1>r. CASE Removing
    <2>1. CASE \E threads \in SUBSET Threads : RemoveFor(threads)
      BY <1>0, <1>r, <2>1, RemovingFacts
    <2>2. CASE UNCHANGED <<live, busy, generation, strays, leaks, orphan, stage, served,
        cutoff>>
      BY <1>q, <1>r, <2>2, RemovingFacts
    <2> QED BY <1>r, <2>1, <2>2, RemovingFacts
  <1>30. CASE UNCHANGED vars
    BY <1>q, <1>30 DEF vars, entryVars, historyVars, runtimeVars, recordVars
  <1> QED
    BY <1>u, <1>1, <1>2, <1>4, <1>5, <1>6, <1>10, <1>11, <1>23, <1>28, <1>29, <1>r, <1>30
       DEF Next, Opener, Turns, Aside, Idle, Removing, Release

-----------------------------------------------------------------------------
(* The invariant and what follows from it.                                 *)

LEMMA InitIInv == Init => IInv
  <1> SUFFICES ASSUME Init PROVE IInv
    OBVIOUS
  <1>1. IsABag(EmptyBag) /\ BagToSet(EmptyBag) = {}
    BY DEF EmptyBag, SetToBag, IsABag, BagToSet
  <1>2. TypeOK
    BY <1>1, SessionAssumption DEF Init, TypeOK, NoTurn, Free, Stages
  <1>3. LiveIsOpen /\ LockHolds /\ EntryHolds /\ ServedHold /\ TimersHold
    BY DEF Init, LiveIsOpen, LockHolds, EntryHolds, ServedHold, TimersHold, Removed, Free,
        Runtimes
  <1>7. Watched
    BY DEF Init, Watched
  <1>4. RequestsHold /\ CutoffsHold /\ TurnsHold
    BY DEF Init, RequestsHold, CutoffsHold, TurnsHold, NoTurn, Removed, Requests, Runtimes
  <1>5. BusyIsExact
    <2>1. Counted = {}
      BY DEF Init, Counted
    <2> QED BY <2>1, FS_EmptySet DEF Init, BusyIsExact
  <1>6. LeftoversAreSettled /\ ReplacementKeepsItsRequests /\ ReadyIsLive
    BY DEF Init, LeftoversAreSettled, ReplacementKeepsItsRequests, ReadyIsLive
  <1> QED BY <1>2, <1>3, <1>4, <1>5, <1>6, <1>7 DEF IInv

LEMMA NextIInv == IInv /\ [Next]_vars => IInv'
  BY TypeStep, LiveStep, LockStep, EntryStep, RequestsStep, CutoffsStep, ServedStep,
     TurnsStep, TimersStep, WatchedStep, BusyStep, LeftoversStep, ReplacementStep,
     ReadyStep DEF IInv

\* Whatever opens, turns, fibers, releases and commands interleave, the manager's
\* state is as IInv says.
THEOREM Invariance == Spec => []IInv
  BY InitIInv, NextIInv, PTL DEF Spec

\* Every value the entry, the runtimes, the fibers and the records take is of its
\* type; the count of stray decrements never goes below zero.
THEOREM TypesHold == Spec => []TypeOK
  BY Invariance, PTL DEF IInv

\* The busy count of the live session is the number of turns it was told of, less the
\* ends of turns it never counted, plus the starts that were interrupted.
THEOREM BusyCountIsExact == Spec => []BusyIsExact
  BY Invariance, PTL DEF IInv

\* No request outlives a release with its thread still waiting: what a removed
\* runtime left is settled by its release or will be by the retries.
THEOREM NoLeftovers == Spec => []LeftoversAreSettled
  BY Invariance, PTL DEF IInv

\* A release never settles a request of a runtime that is open.
THEOREM ReplacementsKeepTheirRequests == Spec => []ReplacementKeepsItsRequests
  BY Invariance, PTL DEF IInv

\* A session row that says ready has a live runtime, or a release that will
\* write its end, or none of its threads was left to write it for.
THEOREM ReadyRowsAreLive == Spec => []ReadyIsLive
  BY Invariance, PTL DEF IInv

\* An idle fiber that removes the entry found its count at zero: what turns there
\* are on it were taken out of the count by strays.
LEMMA ReleaseFindsItIdle ==
    ASSUME IInv, NEW x \in timers, IdleReleases(x), live # 0, live' = 0
    PROVE  Cardinality(Counted) <= strays
  <1>1. StillIdle(x)
    BY DEF IdleReleases, entryVars
  <1>2. busy = 0 /\ Cardinality(Counted) \in Nat /\ strays \in Nat /\ leaks \in Nat
    BY <1>1, CountedIsFinite DEF StillIdle, IInv, TypeOK
  <1> QED BY <1>2 DEF IInv, BusyIsExact

\* No idle fiber, of whatever generation or runtime, releases a session under more
\* turns that it counts than ends of other turns were reported to it.
THEOREM SessionsAreNotCutShort == Spec => NeverCutShort
  <1> DEFINE Short == (\E x \in timers : IdleReleases(x)) /\ live # 0 /\ live' = 0
                        => Cardinality(Counted) <= strays
  <1>1. IInv => Short
    BY ReleaseFindsItIdle
  <1>2. IInv => [Short]_vars
    BY <1>1
  <1> HIDE DEF Short
  <1>3. [](IInv) => [][Short]_vars
    BY <1>2, PTL
  <1>4. Spec => [][Short]_vars
    BY <1>3, Invariance, PTL
  <1> QED BY <1>4 DEF NeverCutShort, Short

\* A live session without a turn has a fiber, of the current generation, that can
\* release it, whatever runs next to what, unless an interrupted effect left it a
\* count or took it the fiber.
THEOREM UnusedSessionsAreWatched == Spec => []UnusedIsWatched
  <1>1. IInv => UnusedIsWatched
    <2> SUFFICES ASSUME IInv, live # 0, Counted = {}, opener.at \notin {"attaching",
                        "pumping"}, leaks = 0
                 PROVE  orphan \/ rearm # EmptyBag \/ \E x \in timers : x.gen = generation
      BY DEF UnusedIsWatched, IInv, TypeOK
    <2>1. Cardinality(Counted) = 0
      BY FS_EmptySet
    <2>2. busy = 0
      BY <2>1 DEF IInv, BusyIsExact, TypeOK
    <2> QED BY <2>2 DEF IInv, Watched
  <1> QED BY <1>1, Invariance, PTL

=============================================================================
