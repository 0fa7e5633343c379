-------------------------- MODULE KeyedLockProofs ---------------------------
(***************************************************************************)
(* Theorems about KeyedLock, for every finite set of fibers, every set of  *)
(* keys and every number of semaphores.                                    *)
(***************************************************************************)
EXTENDS KeyedLock, FiniteSetTheorems, TLAPS

USE LockAssumption

\* An entry counts its users.
UsersAreCounted == \A k \in Keys : locks[k].users = Cardinality(UsersOf(k))

\* An entry without users is no entry, and an entry has a semaphore.
EntriesAreWhole ==
    \A k \in Keys : /\ locks[k].users = 0 <=> locks[k].semaphore = 0
                    /\ locks[k].semaphore <= made

\* All users of a key have the semaphore of its entry.
OneSemaphorePerKey ==
    \A f \in Fibers : pc[f] # "idle" => semaphore[f] = locks[key[f]].semaphore

\* Who runs has the permit.
RunnersHold == \A f \in Fibers : pc[f] = "running" => holder[semaphore[f]] = f

IInv == TypeOK /\ UsersAreCounted /\ EntriesAreWhole /\ OneSemaphorePerKey /\ RunnersHold

LEMMA UsersAreFinite ==
    ASSUME NEW k
    PROVE  /\ IsFiniteSet(UsersOf(k))
           /\ Cardinality(UsersOf(k)) \in Nat
           /\ Cardinality(UsersOf(k)) = 0 <=> UsersOf(k) = {}
  <1>1. UsersOf(k) \subseteq Fibers
    BY DEF UsersOf
  <1>2. IsFiniteSet(UsersOf(k))
    BY <1>1, FS_Subset
  <1> QED
    BY <1>2, FS_CardinalityType, FS_EmptySet

\* The users of the keys when a fiber moves between stages of withLock.
LEMMA SameUsers ==
    ASSUME NEW f \in Fibers, NEW stage \in Stages \ {"idle"},
           pc \in [Fibers -> Stages], pc[f] # "idle", Goto(f, stage), UNCHANGED key
    PROVE  \A k : UsersOf(k)' = UsersOf(k)
  BY DEF Goto, UsersOf

LEMMA InitIInv == Init => IInv
  <1> SUFFICES ASSUME Init PROVE IInv
    OBVIOUS
  <1>1. TypeOK
    BY DEF Init, TypeOK, Entry, NoEntry, Semaphores, Stages
  <1>2. UsersAreCounted
    <2>1. \A k \in Keys : UsersOf(k) = {}
      BY DEF Init, UsersOf
    <2> QED
      BY <2>1, UsersAreFinite DEF Init, UsersAreCounted, NoEntry
  <1>3. EntriesAreWhole /\ OneSemaphorePerKey /\ RunnersHold
    BY DEF Init, EntriesAreWhole, OneSemaphorePerKey, RunnersHold, NoEntry
  <1> QED
    BY <1>1, <1>2, <1>3 DEF IInv

\* The entry of a user's key, and the semaphore it leads to, are real.
LEMMA UserEntry ==
    ASSUME IInv, NEW f \in Fibers, pc[f] # "idle"
    PROVE  /\ key[f] \in Keys
           /\ locks[key[f]].users \in Nat \ {0}
           /\ semaphore[f] \in Semaphores
  <1>1. key[f] \in Keys /\ f \in UsersOf(key[f])
    BY DEF IInv, TypeOK, UsersOf
  <1>2. locks[key[f]].users \in Nat \ {0}
    BY <1>1, UsersAreFinite DEF IInv, UsersAreCounted
  <1>3. locks[key[f]].semaphore \in 0..MaxSemaphores /\ locks[key[f]].semaphore # 0
    BY <1>1, <1>2 DEF IInv, EntriesAreWhole, TypeOK, Entry
  <1> QED
    BY <1>1, <1>2, <1>3 DEF IInv, OneSemaphorePerKey, Semaphores

LEMMA AcquireIInv ==
    ASSUME IInv, NEW f \in Fibers, NEW k \in Keys, Acquire(f, k)
    PROVE  IInv'
  <1> DEFINE s == IF locks[k] = NoEntry THEN made + 1 ELSE locks[k].semaphore
  <1>1. /\ pc[f] = "idle"
        /\ locks' = [locks EXCEPT ![k] = [semaphore |-> s, users |-> locks[k].users + 1]]
        /\ semaphore' = [semaphore EXCEPT ![f] = s]
        /\ key' = [key EXCEPT ![f] = k]
        /\ pc' = [pc EXCEPT ![f] = "acquired"]
        /\ UNCHANGED <<holder, waiters>>
        /\ locks[k] = NoEntry => made < MaxSemaphores
        /\ made' = IF locks[k] = NoEntry THEN made + 1 ELSE made
    BY DEF Acquire, Goto
  <1>2. locks[k] \in Entry /\ made \in 0..MaxSemaphores
    BY DEF IInv, TypeOK
  <1>3. locks[k] = NoEntry <=> locks[k].users = 0
    BY <1>2 DEF IInv, EntriesAreWhole, Entry, NoEntry
  <1>4. /\ s \in 1..MaxSemaphores /\ s <= made'
        /\ made' \in 0..MaxSemaphores /\ made' >= made
        /\ locks[k].users \in Nat
    BY <1>1, <1>2, <1>3 DEF IInv, EntriesAreWhole, Entry, NoEntry
  <1> HIDE DEF s
  <1>5. TypeOK'
    <2>1. [semaphore |-> s, users |-> locks[k].users + 1] \in Entry
      BY <1>4 DEF Entry
    <2>2. "acquired" \in Stages
      BY DEF Stages
    <2> QED
      BY <1>1, <1>4, <2>1, <2>2 DEF IInv, TypeOK
  <1>6. UsersAreCounted'
    <2>1. UsersOf(k)' = UsersOf(k) \cup {f} /\ f \notin UsersOf(k)
      BY <1>1 DEF UsersOf, IInv, TypeOK
    <2>2. \A j \in Keys \ {k} : UsersOf(j)' = UsersOf(j)
      BY <1>1 DEF UsersOf, IInv, TypeOK
    <2>3. Cardinality(UsersOf(k)') = Cardinality(UsersOf(k)) + 1
      BY <2>1, UsersAreFinite, FS_AddElement
    <2> QED
      BY <1>1, <2>2, <2>3 DEF IInv, TypeOK, UsersAreCounted
  <1>7. EntriesAreWhole'
    <2> SUFFICES ASSUME NEW j \in Keys
                 PROVE  /\ locks'[j].users = 0 <=> locks'[j].semaphore = 0
                        /\ locks'[j].semaphore <= made'
      BY DEF EntriesAreWhole
    <2>1. CASE j = k
      BY <1>1, <1>4, <2>1 DEF IInv, TypeOK
    <2>2. CASE j # k
      <3>1. locks'[j] = locks[j] /\ locks[j] \in Entry
        BY <1>1, <2>2 DEF IInv, TypeOK
      <3> QED
        BY <1>4, <1>2, <3>1 DEF IInv, EntriesAreWhole, Entry
    <2> QED
      BY <2>1, <2>2
  <1>8. OneSemaphorePerKey'
    <2> SUFFICES ASSUME NEW g \in Fibers, pc'[g] # "idle"
                 PROVE  semaphore'[g] = locks'[key'[g]].semaphore
      BY DEF OneSemaphorePerKey
    <2>1. CASE g = f
      BY <1>1, <2>1 DEF IInv, TypeOK
    <2>2. CASE g # f
      <3>1. /\ pc[g] # "idle" /\ key'[g] = key[g] /\ semaphore'[g] = semaphore[g]
            /\ semaphore[g] = locks[key[g]].semaphore
        BY <1>1, <2>2 DEF IInv, TypeOK, OneSemaphorePerKey
      <3>2. CASE key[g] = k
        <4>1. locks[k].users # 0
          BY <3>1, <3>2, UserEntry
        <4>2. s = locks[k].semaphore
          BY <4>1, <1>3 DEF s
        <4> QED
          BY <3>1, <3>2, <4>2, <1>1 DEF IInv, TypeOK
      <3>3. CASE key[g] # k
        BY <3>1, <3>3, <1>1 DEF IInv, TypeOK
      <3> QED
        BY <3>2, <3>3
    <2> QED
      BY <2>1, <2>2
  <1>9. RunnersHold'
    BY <1>1 DEF IInv, TypeOK, RunnersHold
  <1> QED
    BY <1>5, <1>6, <1>7, <1>8, <1>9 DEF IInv

\* Moving on inside withLock leaves the map and its users alone.
LEMMA MoveIInv ==
    ASSUME IInv, NEW f \in Fibers, NEW stage \in Stages \ {"idle"},
           pc[f] # "idle", Goto(f, stage), UNCHANGED <<locks, made, key, semaphore>>
    PROVE  /\ UsersAreCounted' /\ EntriesAreWhole' /\ OneSemaphorePerKey'
           /\ pc' \in [Fibers -> Stages]
  <1>1. UsersAreCounted'
    BY SameUsers DEF IInv, TypeOK, UsersAreCounted
  <1>2. EntriesAreWhole'
    BY DEF IInv, EntriesAreWhole
  <1>3. OneSemaphorePerKey' /\ pc' \in [Fibers -> Stages]
    BY DEF IInv, TypeOK, OneSemaphorePerKey, Goto
  <1> QED
    BY <1>1, <1>2, <1>3

LEMMA TakeIInv ==
    ASSUME IInv, NEW f \in Fibers, Take(f)
    PROVE  IInv'
  <1>1. /\ pc[f] = "queued" /\ Goto(f, "running")
        /\ holder[semaphore[f]] = NoFiber
        /\ holder' = [holder EXCEPT ![semaphore[f]] = f]
        /\ UNCHANGED <<locks, made, key, semaphore>>
    BY DEF Take
  <1>2. semaphore[f] \in Semaphores
    BY <1>1, UserEntry
  <1>3. "running" \in Stages \ {"idle"}
    BY DEF Stages
  <1>4. UsersAreCounted' /\ EntriesAreWhole' /\ OneSemaphorePerKey' /\ pc' \in [Fibers -> Stages]
    BY <1>1, <1>3, MoveIInv
  <1>5. TypeOK'
    <2>1. waiters[semaphore[f]] \in Seq(Fibers) /\ waiters[semaphore[f]] # <<>>
      BY <1>2 DEF Take, IInv, TypeOK
    <2>2. waiters' = [waiters EXCEPT ![semaphore[f]] = Tail(waiters[semaphore[f]])]
      BY DEF Take
    <2>3. waiters' \in [Semaphores -> Seq(Fibers)]
      <3>1. Tail(waiters[semaphore[f]]) \in Seq(Fibers)
        BY <2>1
      <3> QED
        BY <2>2, <3>1, <1>2 DEF IInv, TypeOK
    <2> QED
      BY <1>1, <1>2, <1>4, <2>3 DEF IInv, TypeOK
  <1>6. RunnersHold'
    <2> SUFFICES ASSUME NEW g \in Fibers, pc'[g] = "running"
                 PROVE  holder'[semaphore'[g]] = g
      BY DEF RunnersHold
    <2>1. CASE g = f
      BY <1>1, <1>2, <2>1 DEF IInv, TypeOK
    <2>2. CASE g # f
      <3>1. pc[g] = "running" /\ holder[semaphore[g]] = g
        BY <1>1, <2>2 DEF Goto, IInv, TypeOK, RunnersHold
      <3> QED
        BY <1>1, <1>2, <3>1 DEF IInv, TypeOK
    <2> QED
      BY <2>1, <2>2
  <1> QED
    BY <1>4, <1>5, <1>6 DEF IInv

LEMMA DoneIInv ==
    ASSUME IInv, NEW f \in Fibers, Done(f)
    PROVE  IInv'
  <1>1. /\ pc[f] = "running" /\ Goto(f, "releasing")
        /\ holder' = [holder EXCEPT ![semaphore[f]] = NoFiber]
        /\ UNCHANGED <<locks, made, waiters, key, semaphore>>
    BY DEF Done
  <1>2. semaphore[f] \in Semaphores
    BY <1>1, UserEntry
  <1>3. "releasing" \in Stages \ {"idle"}
    BY DEF Stages
  <1>4. UsersAreCounted' /\ EntriesAreWhole' /\ OneSemaphorePerKey' /\ pc' \in [Fibers -> Stages]
    BY <1>1, <1>3, MoveIInv
  <1>5. TypeOK'
    BY <1>1, <1>2, <1>4 DEF IInv, TypeOK
  <1>6. RunnersHold'
    <2> SUFFICES ASSUME NEW g \in Fibers, pc'[g] = "running"
                 PROVE  holder'[semaphore'[g]] = g
      BY DEF RunnersHold
    <2>1. g # f /\ pc[g] = "running"
      BY <1>1 DEF Goto, IInv, TypeOK
    <2>2. holder[semaphore[g]] = g /\ holder[semaphore[f]] = f
      BY <1>1, <2>1 DEF IInv, RunnersHold
    <2> QED
      BY <1>1, <1>2, <2>1, <2>2 DEF IInv, TypeOK
  <1> QED
    BY <1>4, <1>5, <1>6 DEF IInv

LEMMA WaitIInv ==
    ASSUME IInv, NEW f \in Fibers, Queue(f) \/ GiveUp(f)
    PROVE  IInv'
  <1>1. PICK stage \in {"queued", "releasing"} :
            /\ pc[f] \in {"acquired", "queued"} /\ Goto(f, stage)
            /\ UNCHANGED <<locks, made, holder, key, semaphore>>
    BY DEF Queue, GiveUp
  <1>2. stage \in Stages \ {"idle"}
    BY DEF Stages
  <1>3. UsersAreCounted' /\ EntriesAreWhole' /\ OneSemaphorePerKey' /\ pc' \in [Fibers -> Stages]
    BY <1>1, <1>2, MoveIInv
  <1>4. waiters' \in [Semaphores -> Seq(Fibers)]
    <2>1. semaphore[f] \in Semaphores /\ waiters[semaphore[f]] \in Seq(Fibers)
      BY <1>1, UserEntry DEF IInv, TypeOK
    <2>2. Append(waiters[semaphore[f]], f) \in Seq(Fibers)
      BY <2>1
    <2>3. Without(waiters[semaphore[f]], f) \in Seq(Fibers)
      BY <2>1, WithoutType
    <2> QED
      BY <2>1, <2>2, <2>3 DEF Queue, GiveUp, IInv, TypeOK
  <1>5. TypeOK'
    BY <1>1, <1>3, <1>4 DEF IInv, TypeOK
  <1>6. RunnersHold'
    BY <1>1 DEF IInv, TypeOK, RunnersHold, Goto
  <1> QED
    BY <1>3, <1>5, <1>6 DEF IInv

LEMMA ReleaseIInv ==
    ASSUME IInv, NEW f \in Fibers, Release(f)
    PROVE  IInv'
  <1> DEFINE k == key[f]
             entry == IF locks[k].users <= 1 THEN NoEntry
                      ELSE [locks[k] EXCEPT !.users = @ - 1]
  <1>1. /\ pc[f] = "releasing"
        /\ locks' = [locks EXCEPT ![k] = entry]
        /\ semaphore' = [semaphore EXCEPT ![f] = 0]
        /\ pc' = [pc EXCEPT ![f] = "idle"]
        /\ UNCHANGED <<made, holder, waiters, key>>
    BY DEF Release, Goto
  <1>2. k \in Keys /\ locks[k].users \in Nat \ {0} /\ locks[k] \in Entry
    BY <1>1, UserEntry DEF IInv, TypeOK
  <1>3. /\ entry \in Entry
        /\ entry.users = locks[k].users - 1
        /\ entry.users # 0 => entry.semaphore = locks[k].semaphore
        /\ entry.users = 0 => entry.semaphore = 0
    BY <1>2 DEF Entry, NoEntry
  <1> HIDE DEF entry
  <1>4. TypeOK'
    <2>1. "idle" \in Stages
      BY DEF Stages
    <2> QED
      BY <1>1, <1>2, <1>3, <2>1 DEF IInv, TypeOK
  <1>5. /\ UsersOf(k)' = UsersOf(k) \ {f} /\ f \in UsersOf(k)
        /\ \A j \in Keys \ {k} : UsersOf(j)' = UsersOf(j)
    BY <1>1 DEF UsersOf, IInv, TypeOK
  <1>6. UsersAreCounted'
    <2>1. Cardinality(UsersOf(k)') = Cardinality(UsersOf(k)) - 1
      BY <1>5, UsersAreFinite, FS_RemoveElement
    <2> QED
      BY <1>1, <1>2, <1>3, <1>5, <2>1 DEF IInv, TypeOK, UsersAreCounted
  <1>7. EntriesAreWhole'
    BY <1>1, <1>2, <1>3 DEF IInv, TypeOK, EntriesAreWhole, Entry
  <1>8. OneSemaphorePerKey'
    <2> SUFFICES ASSUME NEW g \in Fibers, pc'[g] # "idle"
                 PROVE  semaphore'[g] = locks'[key'[g]].semaphore
      BY DEF OneSemaphorePerKey
    <2>1. /\ g # f /\ pc[g] # "idle" /\ pc'[g] = pc[g]
          /\ key'[g] = key[g] /\ semaphore'[g] = semaphore[g]
          /\ semaphore[g] = locks[key[g]].semaphore
      BY <1>1 DEF IInv, TypeOK, OneSemaphorePerKey
    <2>2. CASE key[g] = k
      <3>1. UsersOf(k) \ {f} # {}
        BY <2>1, <2>2 DEF UsersOf
      <3>2. Cardinality(UsersOf(k) \ {f}) = Cardinality(UsersOf(k)) - 1
        BY <1>5, UsersAreFinite, FS_RemoveElement
      <3>3. entry.users # 0
        <4>1. IsFiniteSet(UsersOf(k) \ {f})
          BY UsersAreFinite, FS_RemoveElement
        <4>2. Cardinality(UsersOf(k) \ {f}) # 0
          BY <3>1, <4>1, FS_EmptySet
        <4>3. locks[k].users = Cardinality(UsersOf(k))
          BY <1>2 DEF IInv, UsersAreCounted
        <4> QED
          BY <3>2, <4>2, <4>3, <1>3
      <3> QED
        BY <2>1, <2>2, <3>3, <1>1, <1>2, <1>3 DEF IInv, TypeOK
    <2>3. CASE key[g] # k
      BY <1>1, <2>1, <2>3 DEF IInv, TypeOK
    <2> QED
      BY <2>2, <2>3
  <1>9. RunnersHold'
    BY <1>1 DEF IInv, TypeOK, RunnersHold
  <1> QED
    BY <1>4, <1>6, <1>7, <1>8, <1>9 DEF IInv

LEMMA NextIInv == IInv /\ [Next]_vars => IInv'
  <1> SUFFICES ASSUME IInv, [Next]_vars PROVE IInv'
    OBVIOUS
  <1>1. CASE UNCHANGED vars
    BY <1>1 DEF vars, IInv, TypeOK, UsersAreCounted, UsersOf, EntriesAreWhole,
                OneSemaphorePerKey, RunnersHold
  <1>2. ASSUME NEW f \in Fibers, NEW k \in Keys, Acquire(f, k) PROVE IInv'
    BY <1>2, AcquireIInv
  <1>3. ASSUME NEW f \in Fibers, Proceed(f) \/ GiveUp(f) PROVE IInv'
    BY <1>3, WaitIInv, TakeIInv, DoneIInv, ReleaseIInv DEF Proceed
  <1> QED
    BY <1>1, <1>2, <1>3 DEF Next

LEMMA IInvHolds == Spec => []IInv
  BY InitIInv, NextIInv, PTL DEF Spec

\* Every variable of the lock keeps its type; a line that fibers join, leave and
\* are served from holds fibers only.
THEOREM TypesHold == Spec => []TypeOK
  <1>1. IInv => TypeOK
    BY DEF IInv
  <1> QED
    BY <1>1, IInvHolds, PTL

\* Two effects never run at once under one key: they would hold the permit of
\* the one semaphore that all users of the key share.
THEOREM MutualExclusionHolds == Spec => []MutualExclusion
  <1>1. IInv => MutualExclusion
    BY DEF IInv, OneSemaphorePerKey, RunnersHold, MutualExclusion
  <1> QED
    BY <1>1, IInvHolds, PTL

\* The map has an entry for exactly the keys that somebody holds or waits for.
THEOREM EntriesAreInUseHolds == Spec => []EntriesAreInUse
  <1>1. IInv => EntriesAreInUse
    <2> SUFFICES ASSUME IInv, NEW k \in Keys
                 PROVE  locks[k] # NoEntry <=> UsersOf(k) # {}
      BY DEF EntriesAreInUse
    <2>1. locks[k] \in Entry /\ locks[k].users = Cardinality(UsersOf(k))
      BY DEF IInv, TypeOK, UsersAreCounted
    <2>2. locks[k] = NoEntry <=> locks[k].users = 0
      BY <2>1 DEF IInv, EntriesAreWhole, Entry, NoEntry
    <2> QED
      BY <2>1, <2>2, UsersAreFinite
  <1> QED
    BY <1>1, IInvHolds, PTL
-----------------------------------------------------------------------------
(* The map of semaphores is one first-in, first-out line per key.          *)

\* A semaphore belongs to one key.
KeysDiffer ==
    \A j, k \in Keys : locks[j].semaphore = locks[k].semaphore => j = k \/ locks[j].semaphore = 0

\* The fibers that wait for a permit are those in the line of their semaphore,
\* a permit is with a fiber that runs, and nobody is at a semaphore that is not
\* made yet.
LinesFit ==
    /\ \A s \in Semaphores : Distinct(waiters[s])
    /\ \A s \in Semaphores, f \in Fibers :
          Stands(f, waiters[s]) <=> pc[f] = "queued" /\ semaphore[f] = s
    /\ \A s \in Semaphores : holder[s] # NoFiber =>
          pc[holder[s]] = "running" /\ semaphore[holder[s]] = s
    /\ \A s \in Semaphores : s > made => waiters[s] = << >>

LInv == IInv /\ KeysDiffer /\ LinesFit

\* A user's semaphore is that of its key's entry, and of no other.
LEMMA UserSemaphore ==
    ASSUME LInv, NEW f \in Fibers, pc[f] # "idle"
    PROVE  /\ key[f] \in Keys /\ semaphore[f] \in Semaphores /\ semaphore[f] <= made
           /\ locks[key[f]].semaphore = semaphore[f]
           /\ waiters[semaphore[f]] \in Seq(Fibers)
           /\ \A k \in Keys : locks[k].semaphore = semaphore[f] => k = key[f]
  <1>1. key[f] \in Keys /\ semaphore[f] \in Semaphores
    BY UserEntry DEF LInv
  <1>2. locks[key[f]].semaphore = semaphore[f]
    BY DEF LInv, IInv, OneSemaphorePerKey
  <1>3. semaphore[f] # 0
    BY <1>1 DEF Semaphores
  <1>4. \A k \in Keys : locks[k].semaphore = semaphore[f] => k = key[f]
    BY <1>1, <1>2, <1>3 DEF LInv, KeysDiffer
  <1> QED
    BY <1>1, <1>2, <1>4 DEF LInv, IInv, EntriesAreWhole, TypeOK

LEMMA InitLines == Init => KeysDiffer /\ LinesFit
  BY DEF Init, KeysDiffer, LinesFit, NoEntry, Distinct, Stands

LEMMA AcquireLines ==
    ASSUME LInv, NEW f \in Fibers, NEW k \in Keys, Acquire(f, k)
    PROVE  KeysDiffer' /\ LinesFit'
  <1> DEFINE s == IF locks[k] = NoEntry THEN made + 1 ELSE locks[k].semaphore
  <1>1. /\ pc[f] = "idle"
        /\ locks' = [locks EXCEPT ![k] = [semaphore |-> s, users |-> locks[k].users + 1]]
        /\ semaphore' = [semaphore EXCEPT ![f] = s]
        /\ pc' = [pc EXCEPT ![f] = "acquired"]
        /\ UNCHANGED <<holder, waiters>>
        /\ made' = IF locks[k] = NoEntry THEN made + 1 ELSE made
    BY DEF Acquire, Goto
  <1>t. TypeOK /\ made \in Nat
    BY DEF LInv, IInv, TypeOK
  <1>2. \A j \in Keys : locks[j].semaphore \in Nat /\ locks[j].semaphore <= made
    BY <1>t DEF LInv, IInv, EntriesAreWhole, TypeOK, Entry
  <1>3. \A j \in Keys : j # k => locks'[j] = locks[j]
    BY <1>1, <1>t DEF TypeOK
  <1>4. locks'[k].semaphore = s
    BY <1>1, <1>t DEF TypeOK
  <1>5. \A j \in Keys : j # k /\ locks[j].semaphore = s => s = 0
    <2>1. CASE locks[k] = NoEntry
      BY <1>t, <1>2, <2>1
    <2>2. CASE locks[k] # NoEntry
      BY <2>2 DEF LInv, KeysDiffer
    <2> QED
      BY <2>1, <2>2
  <1> HIDE DEF s
  <1>6. KeysDiffer'
    <2> SUFFICES ASSUME NEW i \in Keys, NEW j \in Keys,
                        locks'[i].semaphore = locks'[j].semaphore, i # j
                 PROVE  locks'[i].semaphore = 0
      BY DEF KeysDiffer
    <2>1. CASE i = k
      BY <1>3, <1>4, <1>5, <2>1
    <2>2. CASE j = k
      BY <1>3, <1>4, <1>5, <2>2
    <2>3. CASE i # k /\ j # k
      BY <1>3, <2>3 DEF LInv, KeysDiffer
    <2> QED
      BY <2>1, <2>2, <2>3
  <1>7. \A g \in Fibers : g # f => pc'[g] = pc[g] /\ semaphore'[g] = semaphore[g]
    BY <1>1, <1>t DEF TypeOK
  <1>8. \A n \in Semaphores : n > made' => n > made
    BY <1>1, <1>t DEF Semaphores
  <1>9. pc'[f] = "acquired" /\ \A n \in Semaphores : ~ Stands(f, waiters[n])
    BY <1>1, <1>t DEF LInv, LinesFit, TypeOK
  <1>10. \A n \in Semaphores : holder[n] # NoFiber => holder[n] \in Fibers /\ holder[n] # f
    BY <1>1, <1>t DEF LInv, LinesFit, TypeOK
  <1> QED
    BY <1>1, <1>6, <1>7, <1>8, <1>9, <1>10 DEF LInv, LinesFit

\* A fiber moves between stages of withLock, and its place in the line with it.
LEMMA MoveLines ==
    ASSUME LInv, NEW f \in Fibers, pc[f] # "idle", NEW stage \in Stages,
           pc' = [pc EXCEPT ![f] = stage],
           UNCHANGED <<locks, made, key, semaphore>>,
           NEW line \in Seq(Fibers), waiters' = [waiters EXCEPT ![semaphore[f]] = line],
           Distinct(line),
           \A g \in Fibers : Stands(g, line) <=>
              \/ g # f /\ Stands(g, waiters[semaphore[f]])
              \/ g = f /\ stage = "queued",
           NEW h, holder' = [holder EXCEPT ![semaphore[f]] = h],
           \/ stage = "running" /\ h = f
           \/ stage = "releasing" /\ h = NoFiber
           \/ pc[f] # "running" /\ h = holder[semaphore[f]]
    PROVE  KeysDiffer' /\ LinesFit'
  <1> DEFINE s == semaphore[f]
  <1>1. TypeOK /\ s \in Semaphores /\ s <= made /\ made \in Nat
    BY UserSemaphore DEF LInv, IInv, TypeOK
  <1>2. waiters'[s] = line /\ \A n \in Semaphores : n # s => waiters'[n] = waiters[n]
    BY <1>1 DEF TypeOK
  <1>3. pc'[f] = stage /\ \A g \in Fibers : g # f => pc'[g] = pc[g]
    BY <1>1 DEF TypeOK
  <1>4. \A n \in Semaphores, g \in Fibers :
            Stands(g, waiters'[n]) <=> pc'[g] = "queued" /\ semaphore[g] = n
    <2> SUFFICES ASSUME NEW n \in Semaphores, NEW g \in Fibers
                 PROVE  Stands(g, waiters'[n]) <=> pc'[g] = "queued" /\ semaphore[g] = n
      OBVIOUS
    <2>1. Stands(g, waiters[n]) <=> pc[g] = "queued" /\ semaphore[g] = n
      BY DEF LInv, LinesFit
    <2>2. CASE g = f
      BY <1>2, <1>3, <2>1, <2>2
    <2>3. CASE g # f
      BY <1>2, <1>3, <2>1, <2>3
    <2> QED
      BY <2>2, <2>3
  <1>5. \A n \in Semaphores : Distinct(waiters'[n])
    BY <1>2 DEF LInv, LinesFit
  <1>6. \A n \in Semaphores : holder'[n] # NoFiber =>
            pc'[holder'[n]] = "running" /\ semaphore[holder'[n]] = n
    <2> SUFFICES ASSUME NEW n \in Semaphores, holder'[n] # NoFiber
                 PROVE  pc'[holder'[n]] = "running" /\ semaphore[holder'[n]] = n
      OBVIOUS
    <2>1. holder[n] # NoFiber => /\ holder[n] \in Fibers /\ pc[holder[n]] = "running"
                                 /\ semaphore[holder[n]] = n
      BY <1>1 DEF LInv, LinesFit, TypeOK
    <2>2. holder'[n] = IF n = s THEN h ELSE holder[n]
      BY <1>1 DEF TypeOK
    <2>3. holder'[n] # f => holder'[n] = holder[n]
      BY <2>2
    <2>4. holder'[n] = f => n = s /\ stage = "running"
      BY <2>1, <2>2
    <2> QED
      BY <1>3, <2>1, <2>3, <2>4
  <1>7. \A n \in Semaphores : n > made => waiters'[n] = << >>
    <2>1. \A n \in Semaphores : n > made => n # s
      BY <1>1 DEF Semaphores
    <2> QED
      BY <1>2, <2>1 DEF LInv, LinesFit
  <1>8. KeysDiffer'
    BY DEF LInv, KeysDiffer
  <1>9. LinesFit'
    BY <1>4, <1>5, <1>6, <1>7 DEF LinesFit
  <1> QED
    BY <1>8, <1>9

LEMMA ReleaseLines ==
    ASSUME LInv, NEW f \in Fibers, Release(f)
    PROVE  KeysDiffer' /\ LinesFit'
  <1> DEFINE k == key[f]
             entry == IF locks[k].users <= 1 THEN NoEntry
                      ELSE [locks[k] EXCEPT !.users = @ - 1]
  <1>1. /\ pc[f] = "releasing" /\ pc' = [pc EXCEPT ![f] = "idle"]
        /\ locks' = [locks EXCEPT ![k] = entry]
        /\ semaphore' = [semaphore EXCEPT ![f] = 0]
        /\ UNCHANGED <<made, holder, waiters, key>>
    BY DEF Release, Goto
  <1>2. TypeOK /\ k \in Keys
    BY <1>1, UserSemaphore DEF LInv, IInv
  <1>3. entry.semaphore = 0 \/ entry.semaphore = locks[k].semaphore
    BY <1>2 DEF NoEntry, TypeOK, Entry
  <1> HIDE DEF entry
  <1>4. \A j \in Keys : locks'[j].semaphore = 0 \/ locks'[j].semaphore = locks[j].semaphore
    BY <1>1, <1>2, <1>3 DEF TypeOK
  <1>5. KeysDiffer'
    BY <1>4 DEF LInv, KeysDiffer
  <1>6. /\ pc'[f] = "idle"
        /\ \A g \in Fibers : g # f => pc'[g] = pc[g] /\ semaphore'[g] = semaphore[g]
    BY <1>1, <1>2 DEF TypeOK
  <1>7. /\ \A n \in Semaphores : ~ Stands(f, waiters[n])
        /\ \A n \in Semaphores : holder[n] # NoFiber => holder[n] \in Fibers /\ holder[n] # f
    BY <1>1, <1>2 DEF LInv, LinesFit, TypeOK
  <1>8. LinesFit'
    BY <1>1, <1>6, <1>7 DEF LInv, LinesFit
  <1> QED
    BY <1>5, <1>8

LEMMA NextLines == LInv /\ [Next]_vars => LInv'
  <1> SUFFICES ASSUME LInv, [Next]_vars PROVE KeysDiffer' /\ LinesFit'
    BY NextIInv DEF LInv
  <1>1. CASE UNCHANGED vars
    BY <1>1 DEF vars, LInv, KeysDiffer, LinesFit
  <1>2. ASSUME NEW f \in Fibers, NEW k \in Keys, Acquire(f, k) PROVE KeysDiffer' /\ LinesFit'
    BY <1>2, AcquireLines
  <1>3. ASSUME NEW f \in Fibers, Release(f) PROVE KeysDiffer' /\ LinesFit'
    BY <1>3, ReleaseLines
  <1>4. ASSUME NEW f \in Fibers, Queue(f) PROVE KeysDiffer' /\ LinesFit'
    <2> DEFINE line == waiters[semaphore[f]]
    <2>1. pc[f] = "acquired" /\ line \in Seq(Fibers) /\ semaphore[f] \in Semaphores
      BY <1>4, UserSemaphore DEF Queue
    <2>2. Distinct(line) /\ ~ Stands(f, line)
      BY <2>1 DEF LInv, LinesFit
    <2> HIDE DEF line
    <2>3. /\ Append(line, f) \in Seq(Fibers) /\ Distinct(Append(line, f))
          /\ \A g : Stands(g, Append(line, f)) <=> g = f \/ Stands(g, line)
      BY <2>1, <2>2, AppendJoins
    <2>4. /\ pc' = [pc EXCEPT ![f] = "queued"]
          /\ waiters' = [waiters EXCEPT ![semaphore[f]] = Append(line, f)]
          /\ UNCHANGED <<locks, made, holder, key, semaphore>>
      BY <1>4 DEF Queue, Goto, line
    <2>5. holder' = [holder EXCEPT ![semaphore[f]] = holder[semaphore[f]]]
      BY <2>1, <2>4 DEF LInv, IInv, TypeOK
    <2> QED
      BY <2>1, <2>3, <2>4, <2>5, MoveLines DEF Stages, line
  <1>5. ASSUME NEW f \in Fibers, Take(f) PROVE KeysDiffer' /\ LinesFit'
    <2> DEFINE line == waiters[semaphore[f]]
    <2>1. pc[f] = "queued" /\ line \in Seq(Fibers) /\ semaphore[f] \in Semaphores
      BY <1>5, UserSemaphore DEF Take
    <2>2. Distinct(line) /\ line # << >> /\ Head(line) = f
      BY <1>5, <2>1 DEF LInv, LinesFit, Take
    <2> HIDE DEF line
    <2>3. /\ Tail(line) \in Seq(Fibers) /\ Distinct(Tail(line)) /\ ~ Stands(f, Tail(line))
          /\ \A g : Stands(g, line) <=> g = f \/ Stands(g, Tail(line))
      BY <2>1, <2>2, TailLeaves
    <2>4. /\ pc' = [pc EXCEPT ![f] = "running"]
          /\ waiters' = [waiters EXCEPT ![semaphore[f]] = Tail(line)]
          /\ holder' = [holder EXCEPT ![semaphore[f]] = f]
          /\ UNCHANGED <<locks, made, key, semaphore>>
      BY <1>5 DEF Take, Goto, line
    <2>5. \A g \in Fibers : Stands(g, Tail(line)) <=>
             \/ g # f /\ Stands(g, waiters[semaphore[f]])
             \/ g = f /\ "running" = "queued"
      BY <2>3 DEF line
    <2>6. "running" \in Stages /\ pc[f] # "idle"
      BY <2>1 DEF Stages
    <2> QED
      BY <2>3, <2>4, <2>5, <2>6, MoveLines
  <1>6. ASSUME NEW f \in Fibers, Done(f) PROVE KeysDiffer' /\ LinesFit'
    <2> DEFINE line == waiters[semaphore[f]]
    <2>1. pc[f] = "running" /\ line \in Seq(Fibers) /\ semaphore[f] \in Semaphores
      BY <1>6, UserSemaphore DEF Done
    <2>2. Distinct(line) /\ ~ Stands(f, line)
      BY <2>1 DEF LInv, LinesFit
    <2>3. waiters' = [waiters EXCEPT ![semaphore[f]] = line]
      BY <1>6, <2>1 DEF Done, LInv, IInv, TypeOK
    <2> HIDE DEF line
    <2>4. /\ pc' = [pc EXCEPT ![f] = "releasing"]
          /\ holder' = [holder EXCEPT ![semaphore[f]] = NoFiber]
          /\ UNCHANGED <<locks, made, key, semaphore>>
      BY <1>6 DEF Done, Goto
    <2>5. \A g \in Fibers : Stands(g, line) <=>
             \/ g # f /\ Stands(g, waiters[semaphore[f]])
             \/ g = f /\ "releasing" = "queued"
      BY <2>2 DEF line
    <2>6. "releasing" \in Stages /\ pc[f] # "idle"
      BY <2>1 DEF Stages
    <2> QED
      BY <2>1, <2>2, <2>3, <2>4, <2>5, <2>6, MoveLines
  <1>7. ASSUME NEW f \in Fibers, GiveUp(f) PROVE KeysDiffer' /\ LinesFit'
    <2> DEFINE line == waiters[semaphore[f]]
               rest == Without(line, f)
    <2>1. /\ pc[f] \in {"acquired", "queued"} /\ line \in Seq(Fibers)
          /\ semaphore[f] \in Semaphores
      BY <1>7, UserSemaphore DEF GiveUp
    <2>2. Distinct(line)
      BY <2>1 DEF LInv, LinesFit
    <2>4. /\ pc' = [pc EXCEPT ![f] = "releasing"]
          /\ waiters' = [waiters EXCEPT ![semaphore[f]] = rest]
          /\ UNCHANGED <<locks, made, holder, key, semaphore>>
      BY <1>7 DEF GiveUp, Goto
    <2> HIDE DEF line
    <2>3. /\ rest \in Seq(Fibers) /\ Distinct(rest)
          /\ \A g \in Fibers : Stands(g, rest) <=> g # f /\ Stands(g, line)
      <3>1. rest \in Seq(Fibers)
        BY <2>1, WithoutType
      <3>2. /\ Distinct(rest) /\ (Stands(f, line) => ~ Stands(f, rest))
            /\ \A g : Stands(g, rest) => Stands(g, line)
        BY <2>1, <2>2, WithoutLeaves
      <3>3. \A g : g # f /\ Stands(g, line) => Stands(g, rest)
        BY <2>1, WithoutKeeps
      <3> QED
        BY <3>1, <3>2, <3>3
    <2>5. holder' = [holder EXCEPT ![semaphore[f]] = holder[semaphore[f]]]
      BY <2>1, <2>4 DEF LInv, IInv, TypeOK
    <2> HIDE DEF rest
    <2> QED
      BY <2>1, <2>3, <2>4, <2>5, MoveLines DEF Stages, line
  <1> QED
    BY <1>1, <1>2, <1>3, <1>4, <1>5, <1>6, <1>7 DEF Next, Proceed

LEMMA LInvHolds == Spec => []LInv
  BY InitIInv, InitLines, NextLines, PTL DEF Spec, LInv

KeyLines == [k \in Keys |-> LineOf(k)]
Inside == {f \in Fibers : pc[f] = "running"}

\* A key's line does not change while its entry and its semaphore do not.
LEMMA SameLine ==
    ASSUME NEW k, locks'[k].semaphore = locks[k].semaphore,
           \/ locks[k].semaphore = 0
           \/ /\ holder'[locks[k].semaphore] = holder[locks[k].semaphore]
              /\ waiters'[locks[k].semaphore] = waiters[locks[k].semaphore]
    PROVE  LineOf(k)' = LineOf(k)
  BY DEF LineOf

\* The line of a user's key: who holds the permit, and who waits for it.
LEMMA UserLine ==
    ASSUME LInv, NEW f \in Fibers, pc[f] # "idle", NEW h, NEW w,
           h = holder[semaphore[f]], w = waiters[semaphore[f]]
    PROVE  /\ w \in Seq(Fibers) /\ h \in Fibers \cup {NoFiber}
           /\ LineOf(key[f]) = IF h = NoFiber THEN w ELSE <<h>> \o w
  <1>1. /\ semaphore[f] \in Semaphores /\ locks[key[f]].semaphore = semaphore[f]
        /\ w \in Seq(Fibers) /\ h \in Fibers \cup {NoFiber}
    BY UserSemaphore DEF LInv, IInv, TypeOK
  <1>2. << >> \o w = w /\ semaphore[f] # 0
    BY <1>1 DEF Semaphores
  <1>3. LineOf(key[f]) = (IF h = NoFiber THEN << >> ELSE <<h>>) \o w
    BY <1>1, <1>2, Zenon DEF LineOf
  <1> QED
    BY <1>1, <1>2, <1>3

\* Whoever is in the line of a key waits for its permit or has it.
LEMMA LineMembers ==
    ASSUME LInv, NEW k \in Keys
    PROVE  /\ LineOf(k) \in Seq(Fibers)
           /\ \A f : Stands(f, LineOf(k)) => /\ f \in Fibers /\ pc[f] \in {"queued", "running"}
                                             /\ semaphore[f] = locks[k].semaphore
  <1> DEFINE s == locks[k].semaphore
             h == holder[s]
             w == waiters[s]
  <1>1. CASE s = 0
    BY <1>1 DEF LineOf, Stands
  <1>2. CASE s # 0
    <2>1. s \in Semaphores
      BY <1>2 DEF LInv, IInv, TypeOK, Entry, Semaphores
    <2>2. /\ w \in Seq(Fibers) /\ h \in Fibers \cup {NoFiber}
          /\ h # NoFiber => pc[h] = "running" /\ semaphore[h] = s
          /\ \A f \in Fibers : Stands(f, w) => pc[f] = "queued" /\ semaphore[f] = s
      BY <2>1 DEF LInv, LinesFit, IInv, TypeOK
    <2>3. \A f : Stands(f, w) => f \in Fibers
      BY <2>2 DEF Stands
    <2>4. LineOf(k) = (IF h = NoFiber THEN << >> ELSE <<h>>) \o w
      BY <1>2, Zenon DEF LineOf
    <2> HIDE DEF s, h, w
    <2>5. CASE h = NoFiber
      <3>1. LineOf(k) = w
        BY <2>2, <2>4, <2>5
      <3> QED
        BY <2>2, <2>3, <3>1 DEF s
    <2>6. CASE h # NoFiber
      <3>1. LineOf(k) = <<h>> \o w /\ h \in Fibers
        BY <2>2, <2>4, <2>6
      <3>2. <<h>> \o w \in Seq(Fibers) /\ \A f : Stands(f, <<h>> \o w) <=> f = h \/ Stands(f, w)
        BY <2>2, <3>1, AtTheHead
      <3> QED
        BY <2>2, <2>3, <2>6, <3>1, <3>2 DEF s
    <2> QED
      BY <2>5, <2>6
  <1> QED
    BY <1>1, <1>2

\* The lines of other keys do not change when a fiber moves.
LEMMA OtherLines ==
    ASSUME LInv, NEW f \in Fibers, pc[f] # "idle", UNCHANGED locks,
           \A n \in Semaphores : n # semaphore[f] =>
               holder'[n] = holder[n] /\ waiters'[n] = waiters[n]
    PROVE  \A k \in Keys : k # key[f] => LineOf(k)' = LineOf(k)
  <1> SUFFICES ASSUME NEW k \in Keys, k # key[f] PROVE LineOf(k)' = LineOf(k)
    OBVIOUS
  <1>1. locks[k].semaphore # semaphore[f]
    BY UserSemaphore
  <1>2. locks[k].semaphore = 0 \/ locks[k].semaphore \in Semaphores
    BY DEF LInv, IInv, TypeOK, Entry, Semaphores
  <1> QED
    BY <1>1, <1>2, SameLine

\* Taking an entry and giving it back leave the lines as they are: a new
\* semaphore is free, and the last user of an entry has left its line.
LEMMA AcquireStays ==
    ASSUME LInv, NEW f \in Fibers, NEW k \in Keys, Acquire(f, k)
    PROVE  UNCHANGED <<KeyLines, Inside>>
  <1> DEFINE s == IF locks[k] = NoEntry THEN made + 1 ELSE locks[k].semaphore
  <1>1. /\ pc[f] = "idle"
        /\ locks' = [locks EXCEPT ![k] = [semaphore |-> s, users |-> locks[k].users + 1]]
        /\ pc' = [pc EXCEPT ![f] = "acquired"]
        /\ UNCHANGED <<holder, waiters>>
        /\ locks[k] = NoEntry => made < MaxSemaphores
    BY DEF Acquire, Goto
  <1>2. TypeOK
    BY DEF LInv, IInv
  <1>3. Inside' = Inside
    BY <1>1, <1>2 DEF Inside, TypeOK
  <1>4. locks'[k].semaphore = s /\ \A j \in Keys : j # k => locks'[j] = locks[j]
    BY <1>1, <1>2 DEF TypeOK
  <1>5. \A j \in Keys : j # k => LineOf(j)' = LineOf(j)
    BY <1>1, <1>4, SameLine
  <1>6. LineOf(k)' = LineOf(k)
    <2>1. CASE locks[k] # NoEntry
      BY <1>1, <1>4, <2>1, SameLine
    <2>2. CASE locks[k] = NoEntry
      <3>1. /\ made + 1 \in Semaphores /\ made + 1 > made /\ s = made + 1
            /\ \A g \in Fibers : pc[g] # "idle" => semaphore[g] # made + 1
        <4>1. made \in 0 .. MaxSemaphores
          BY <1>2 DEF TypeOK
        <4>2. made + 1 \in Semaphores /\ made + 1 > made
          <5>1. made < MaxSemaphores
            BY <1>1, <2>2
          <5> QED
            BY <4>1, <5>1 DEF Semaphores
        <4>3. \A g \in Fibers : pc[g] # "idle" => semaphore[g] \in Semaphores /\ semaphore[g] <= made
          BY UserSemaphore
        <4>4. \A n \in Semaphores : n <= made => n # made + 1
          BY <4>1 DEF Semaphores
        <4> QED
          BY <2>2, <4>2, <4>3, <4>4
      <3>2. waiters[s] = << >>
        BY <3>1 DEF LInv, LinesFit
      <3>3. holder[s] = NoFiber
        BY <1>2, <3>1 DEF LInv, LinesFit, TypeOK
      <3>4. LineOf(k) = << >>
        BY <2>2 DEF LineOf, NoEntry
      <3>5. s # 0
        BY <3>1 DEF Semaphores
      <3>6. LineOf(k)' = << >> \o << >>
        BY <1>1, <1>4, <3>2, <3>3, <3>5, Zenon DEF LineOf
      <3> QED
        BY <3>4, <3>6
    <2> QED
      BY <2>1, <2>2
  <1>7. KeyLines' = KeyLines
    BY <1>5, <1>6 DEF KeyLines
  <1> QED
    BY <1>3, <1>7

LEMMA ReleaseStays ==
    ASSUME LInv, NEW f \in Fibers, Release(f)
    PROVE  UNCHANGED <<KeyLines, Inside>>
  <1> PICK k \in Keys : k = key[f]
    BY UserSemaphore DEF Release
  <1> DEFINE entry == IF locks[k].users <= 1 THEN NoEntry
                      ELSE [locks[k] EXCEPT !.users = @ - 1]
  <1>1. /\ pc[f] = "releasing" /\ pc' = [pc EXCEPT ![f] = "idle"]
        /\ locks' = [locks EXCEPT ![k] = entry]
        /\ UNCHANGED <<holder, waiters>>
    BY DEF Release, Goto
  <1>2. TypeOK /\ k \in Keys /\ f \in UsersOf(k)
    BY <1>1, UserSemaphore DEF LInv, IInv, UsersOf
  <1>3. Inside' = Inside
    BY <1>1, <1>2 DEF Inside, TypeOK
  <1>4. locks'[k] = entry /\ \A j \in Keys : j # k => locks'[j] = locks[j]
    BY <1>1, <1>2 DEF TypeOK
  <1>5. \A j \in Keys : j # k => LineOf(j)' = LineOf(j)
    BY <1>1, <1>4, SameLine
  <1>6. LineOf(k)' = LineOf(k)
    <2>1. CASE locks[k].users > 1
      <3>1. locks'[k].semaphore = locks[k].semaphore
        BY <1>2, <1>4, <2>1 DEF TypeOK, Entry
      <3> QED
        BY <1>1, <3>1, SameLine
    <2>2. CASE ~ locks[k].users > 1
      <3>1. locks'[k].semaphore = 0
        BY <1>2, <1>4, <2>2 DEF TypeOK, Entry, NoEntry
      <3>2. UsersOf(k) = {f}
        <4>1. Cardinality(UsersOf(k)) <= 1
          BY <1>2, <2>2, UsersAreFinite DEF LInv, IInv, TypeOK, Entry, UsersAreCounted
        <4>2. ASSUME NEW g \in UsersOf(k), g # f PROVE FALSE
          <5>1. Cardinality(UsersOf(k) \ {f}) = Cardinality(UsersOf(k)) - 1 /\ IsFiniteSet(UsersOf(k) \ {f})
            BY <1>2, UsersAreFinite, FS_RemoveElement
          <5>2. Cardinality(UsersOf(k) \ {f}) = 0
            BY <4>1, <5>1, UsersAreFinite, FS_CardinalityType
          <5> QED
            BY <4>2, <5>1, <5>2, FS_EmptySet
        <4> QED
          BY <1>2, <4>2
      <3>3. LineOf(k) = << >>
        <4>1. LineOf(k) \in Seq(Fibers)
          BY <1>2, LineMembers
        <4>2. ASSUME LineOf(k) # << >> PROVE FALSE
          <5>1. PICK g : Stands(g, LineOf(k))
            BY <4>1, <4>2, TailLeaves
          <5>2. g \in Fibers /\ pc[g] \in {"queued", "running"}
            BY <1>2, <5>1, LineMembers
          <5>3. key[g] # k
            BY <1>1, <3>2, <5>2 DEF UsersOf
          <5>4. semaphore[g] \in Semaphores /\ locks[k].semaphore # semaphore[g]
            BY <1>2, <5>2, <5>3, UserSemaphore
          <5> QED
            BY <1>2, <5>1, <5>4, LineMembers
        <4> QED
          BY <4>2
      <3> QED
        BY <3>1, <3>3 DEF LineOf
    <2> QED
      BY <2>1, <2>2
  <1>7. KeyLines' = KeyLines
    BY <1>5, <1>6 DEF KeyLines
  <1> QED
    BY <1>3, <1>7

\* Asking for the permit joins the line of the key, getting it goes inside, and
\* giving it back or giving up leaves.
LEMMA QueueJoins ==
    ASSUME LInv, NEW f \in Fibers, Queue(f)
    PROVE  Line!LockNext
  <1> PICK k \in Keys, s \in Semaphores : k = key[f] /\ s = semaphore[f]
    BY UserSemaphore DEF Queue
  <1> DEFINE h == holder[s]
             w == waiters[s]
  <1>1. /\ pc[f] = "acquired" /\ pc' = [pc EXCEPT ![f] = "queued"]
        /\ waiters' = [waiters EXCEPT ![s] = Append(w, f)]
        /\ UNCHANGED <<locks, made, holder, key, semaphore>>
    BY DEF Queue, Goto
  <1>2. TypeOK
    BY DEF LInv, IInv
  <1>3. Inside' = Inside
    BY <1>1, <1>2 DEF Inside, TypeOK
  <1>4. waiters'[s] = Append(w, f) /\ \A n \in Semaphores : n # s => waiters'[n] = waiters[n]
    BY <1>1, <1>2 DEF TypeOK
  <1>5. \A j \in Keys : j # k => LineOf(j)' = LineOf(j)
    BY <1>1, <1>4, OtherLines
  <1>6. LineOf(k)' = Append(LineOf(k), f)
    <2>1. /\ w \in Seq(Fibers) /\ h \in Fibers \cup {NoFiber}
          /\ LineOf(k) = IF h = NoFiber THEN w ELSE <<h>> \o w
      BY <1>1, UserLine
    <2>3. LineOf(k)' = (IF h = NoFiber THEN << >> ELSE <<h>>) \o Append(w, f)
      <3>1. s # 0 /\ locks[k].semaphore = s
        BY <1>1, UserSemaphore DEF Semaphores
      <3> QED
        BY <1>1, <1>4, <3>1, Zenon DEF LineOf
    <2> HIDE DEF h, w
    <2>4. CASE h = NoFiber
      BY <2>1, <2>3, <2>4
    <2>5. ASSUME h \in Fibers, h # NoFiber PROVE LineOf(k)' = Append(LineOf(k), f)
      <3>1. <<h>> \o Append(w, f) = Append(<<h>> \o w, f)
        BY <2>1, <2>5
      <3> QED
        BY <2>1, <2>3, <2>5, <3>1
    <2> QED
      BY <2>1, <2>4, <2>5
  <1>7. \A j \in Keys : \A i \in DOMAIN LineOf(j) : LineOf(j)[i] # f
    <2> SUFFICES ASSUME NEW j \in Keys, NEW i \in DOMAIN LineOf(j), LineOf(j)[i] = f PROVE FALSE
      OBVIOUS
    <2>1. LineOf(j) \in Seq(Fibers)
      BY LineMembers
    <2>2. Stands(f, LineOf(j))
      BY <2>1 DEF Stands
    <2> QED
      BY <1>1, <2>2, LineMembers
  <1>8. KeyLines' = [KeyLines EXCEPT ![k] = Append(@, f)]
    BY <1>5, <1>6 DEF KeyLines
  <1>9. Line!Join(f, k)
    BY <1>3, <1>7, <1>8 DEF Line!Join, KeyLines, Inside
  <1> QED
    BY <1>9 DEF Line!LockNext

LEMMA TakeEnters ==
    ASSUME LInv, NEW f \in Fibers, Take(f)
    PROVE  Line!LockNext
  <1> PICK k \in Keys, s \in Semaphores : k = key[f] /\ s = semaphore[f]
    BY UserSemaphore DEF Take
  <1> DEFINE w == waiters[s]
  <1>1. /\ pc[f] = "queued" /\ pc' = [pc EXCEPT ![f] = "running"]
        /\ waiters' = [waiters EXCEPT ![s] = Tail(w)]
        /\ holder' = [holder EXCEPT ![s] = f]
        /\ holder[s] = NoFiber /\ w # << >> /\ Head(w) = f
        /\ UNCHANGED <<locks, made, key, semaphore>>
    BY DEF Take, Goto
  <1>2. TypeOK
    BY DEF LInv, IInv
  <1>3. Inside' = Inside \cup {f}
    BY <1>1, <1>2 DEF Inside, TypeOK
  <1>4. /\ waiters'[s] = Tail(w) /\ holder'[s] = f
        /\ \A n \in Semaphores : n # s => waiters'[n] = waiters[n] /\ holder'[n] = holder[n]
    BY <1>1, <1>2 DEF TypeOK
  <1>5. \A j \in Keys : j # k => LineOf(j)' = LineOf(j)
    BY <1>1, <1>4, OtherLines
  <1>6. LineOf(k) = w /\ w \in Seq(Fibers)
    BY <1>1, UserLine
  <1>7. LineOf(k)' = w
    <2>1. s # 0 /\ locks[k].semaphore = s /\ f # NoFiber
      BY <1>1, UserSemaphore DEF Semaphores
    <2>2. LineOf(k)' = <<f>> \o Tail(w)
      BY <1>1, <1>4, <2>1, Zenon DEF LineOf
    <2> HIDE DEF w
    <2>3. w = <<Head(w)>> \o Tail(w)
      BY <1>1, <1>6, TailLeaves
    <2> QED
      BY <1>1, <2>2, <2>3
  <1>8. KeyLines' = KeyLines
    BY <1>5, <1>6, <1>7 DEF KeyLines
  <1>9. Line!Enter(f, k)
    BY <1>1, <1>3, <1>6, <1>8 DEF Line!Enter, KeyLines, Inside
  <1> QED
    BY <1>9 DEF Line!LockNext

LEMMA DoneLeaves ==
    ASSUME LInv, NEW f \in Fibers, Done(f)
    PROVE  Line!LockNext
  <1> PICK k \in Keys, s \in Semaphores : k = key[f] /\ s = semaphore[f]
    BY UserSemaphore DEF Done
  <1> DEFINE w == waiters[s]
  <1>1. /\ pc[f] = "running" /\ pc' = [pc EXCEPT ![f] = "releasing"]
        /\ holder' = [holder EXCEPT ![s] = NoFiber]
        /\ UNCHANGED <<locks, made, waiters, key, semaphore>>
    BY DEF Done, Goto
  <1>2. TypeOK
    BY DEF LInv, IInv
  <1>3. Inside' = Inside \ {f}
    BY <1>1, <1>2 DEF Inside, TypeOK
  <1>4. holder'[s] = NoFiber /\ \A n \in Semaphores : n # s => holder'[n] = holder[n]
    BY <1>1, <1>2 DEF TypeOK
  <1>5. \A j \in Keys : j # k => LineOf(j)' = LineOf(j)
    BY <1>1, <1>4, OtherLines
  <1>6. holder[s] = f /\ f # NoFiber
    BY <1>1 DEF LInv, IInv, RunnersHold
  <1>7. LineOf(k) = <<f>> \o w /\ w \in Seq(Fibers)
    BY <1>1, <1>6, UserLine
  <1>8. ~ Stands(f, w)
    BY <1>1 DEF LInv, LinesFit
  <1>9. LineOf(k)' = w
    <2>1. s # 0 /\ locks[k].semaphore = s
      BY <1>1, UserSemaphore DEF Semaphores
    <2>2. LineOf(k)' = << >> \o w
      BY <1>1, <1>4, <2>1, Zenon DEF LineOf
    <2> QED
      BY <1>7, <2>2
  <1> HIDE DEF w
  <1>10. Line!Without(LineOf(k), f) = w
    <2>1. Without(LineOf(k), f) = w
      BY <1>7, <1>8, WithoutFirst
    <2>2. Line!Without(LineOf(k), f) = Without(LineOf(k), f)
      BY DEF Line!Without, Without
    <2> QED
      BY <2>1, <2>2
  <1>11. KeyLines' = [KeyLines EXCEPT ![k] = Line!Without(@, f)]
    BY <1>5, <1>9, <1>10 DEF KeyLines
  <1>12. \E i \in DOMAIN LineOf(k) : LineOf(k)[i] = f
    <2>1. Stands(f, LineOf(k)) /\ LineOf(k) \in Seq(Fibers)
      BY <1>7, AtTheHead
    <2> QED
      BY <2>1 DEF Stands
  <1>13. Line!Leave(f, k)
    BY <1>3, <1>11, <1>12 DEF Line!Leave, KeyLines, Inside
  <1> QED
    BY <1>13 DEF Line!LockNext

LEMMA GiveUpLeaves ==
    ASSUME LInv, NEW f \in Fibers, GiveUp(f)
    PROVE  Line!LockNext \/ UNCHANGED <<KeyLines, Inside>>
  <1> PICK k \in Keys, s \in Semaphores : k = key[f] /\ s = semaphore[f]
    BY UserSemaphore DEF GiveUp
  <1> DEFINE h == holder[s]
             w == waiters[s]
  <1>1. /\ pc[f] \in {"acquired", "queued"} /\ pc' = [pc EXCEPT ![f] = "releasing"]
        /\ waiters' = [waiters EXCEPT ![s] = Without(w, f)]
        /\ UNCHANGED <<locks, made, holder, key, semaphore>>
    BY DEF GiveUp, Goto
  <1>2. TypeOK
    BY DEF LInv, IInv
  <1>3. Inside' = Inside /\ f \notin Inside
    BY <1>1, <1>2 DEF Inside, TypeOK
  <1>4. /\ waiters'[s] = Without(w, f)
        /\ \A n \in Semaphores : n # s => waiters'[n] = waiters[n]
    BY <1>1, <1>2 DEF TypeOK
  <1>5. \A j \in Keys : j # k => LineOf(j)' = LineOf(j)
    BY <1>1, <1>4, OtherLines
  <1>6. /\ w \in Seq(Fibers) /\ h \in Fibers \cup {NoFiber} /\ Distinct(w)
        /\ LineOf(k) = IF h = NoFiber THEN w ELSE <<h>> \o w
        /\ h # f
    BY <1>1, UserLine DEF LInv, LinesFit
  <1>7. LineOf(k)' = (IF h = NoFiber THEN << >> ELSE <<h>>) \o Without(w, f)
    <2>1. s # 0 /\ locks[k].semaphore = s
      BY <1>1, UserSemaphore DEF Semaphores
    <2> QED
      BY <1>1, <1>4, <2>1, Zenon DEF LineOf
  <1> HIDE DEF h, w
  <1>8. Without(w, f) \in Seq(Fibers)
    BY <1>6, WithoutType
  <1>9. LineOf(k)' = Without(LineOf(k), f)
    <2>1. CASE h = NoFiber
      BY <1>6, <1>7, <1>8, <2>1
    <2>2. ASSUME h \in Fibers, h # NoFiber PROVE LineOf(k)' = Without(LineOf(k), f)
      <3>1. Without(<<h>> \o w, f) = <<h>> \o Without(w, f)
        BY <1>6, <2>2, WithoutBehind
      <3> QED
        BY <1>6, <1>7, <2>2, <3>1
    <2> QED
      BY <1>6, <2>1, <2>2
  <1>10. CASE Stands(f, LineOf(k))
    <2>1. \E i \in DOMAIN LineOf(k) : LineOf(k)[i] = f
      <3>1. LineOf(k) \in Seq(Fibers)
        BY LineMembers
      <3> QED
        BY <1>10, <3>1 DEF Stands
    <2>2. Line!Without(LineOf(k), f) = Without(LineOf(k), f)
      BY DEF Line!Without, Without
    <2>3. KeyLines' = [KeyLines EXCEPT ![k] = Line!Without(@, f)]
      BY <1>5, <1>9, <2>2 DEF KeyLines
    <2>4. Inside' = Inside \ {f}
      BY <1>3
    <2>5. Line!Leave(f, k)
      BY <2>1, <2>3, <2>4 DEF Line!Leave, KeyLines, Inside
    <2> QED
      BY <2>5 DEF Line!LockNext
  <1>11. CASE ~ Stands(f, LineOf(k))
    <2>1. Without(LineOf(k), f) = LineOf(k)
      BY <1>11 DEF Without, Stands
    <2>2. KeyLines' = KeyLines
      BY <1>5, <1>9, <2>1 DEF KeyLines
    <2> QED
      BY <1>3, <2>2
  <1> QED
    BY <1>10, <1>11

LEMMA FifoStep == LInv /\ [Next]_vars => [Line!LockNext]_<<KeyLines, Inside>>
  <1> SUFFICES ASSUME LInv, [Next]_vars PROVE Line!LockNext \/ UNCHANGED <<KeyLines, Inside>>
    OBVIOUS
  <1>1. CASE UNCHANGED vars
    BY <1>1 DEF vars, KeyLines, LineOf, Inside
  <1>2. ASSUME NEW f \in Fibers, NEW k \in Keys, Acquire(f, k) PROVE UNCHANGED <<KeyLines, Inside>>
    BY <1>2, AcquireStays
  <1>3. ASSUME NEW f \in Fibers, Proceed(f) \/ GiveUp(f)
        PROVE  Line!LockNext \/ UNCHANGED <<KeyLines, Inside>>
    BY <1>3, QueueJoins, TakeEnters, DoneLeaves, ReleaseStays, GiveUpLeaves DEF Proceed
  <1> QED
    BY <1>1, <1>2, <1>3 DEF Next

\* The semaphores that come and go with the entries of the map serve the fibers
\* of each key first-in, first-out and one at a time: fibers that are
\* interrupted while they wait leave the order of the others, and a key whose
\* entry is removed and made again goes on with an empty line.
THEOREM LocksAreFifo == Spec => ImplementsFifoLock
  <1>1. Init => Line!LockInit
    <2> SUFFICES ASSUME Init PROVE KeyLines = [k \in Keys |-> << >>] /\ Inside = {}
      BY DEF Line!LockInit, KeyLines, Inside
    <2> QED
      BY DEF Init, KeyLines, Inside, LineOf, NoEntry
  <1>2. LInv /\ [Next]_vars => [Line!LockNext]_<<[k \in Keys |-> LineOf(k)],
                                                {f \in Fibers : pc[f] = "running"}>>
    BY FifoStep DEF KeyLines, Inside
  <1> QED
    BY <1>1, <1>2, LInvHolds, PTL DEF Spec, ImplementsFifoLock, Line!LockSpec
=============================================================================
