----------------------------- MODULE KeyedLock ------------------------------
(***************************************************************************)
(* Mutual exclusion per key, with locks that exist only while somebody     *)
(* uses them (packages/shared/src/KeyedLock.ts).  A map holds, per key, a  *)
(* semaphore of one permit and the number of its users; the last user to   *)
(* go removes the entry, and the next one to come makes a new semaphore.   *)
(***************************************************************************)
EXTENDS FiniteSets, Lines

CONSTANTS
    Fibers,
    NoFiber,
    Keys,
    MaxSemaphores   \* bound: semaphores ever put into the map

ASSUME LockAssumption ==
    /\ IsFiniteSet(Fibers)
    /\ NoFiber \notin Fibers
    /\ MaxSemaphores \in Nat

VARIABLES
    locks,      \* key -> its entry: a semaphore, 0 for no entry, and its users
    made,       \* semaphores made so far; each is the number it got
    holder,     \* semaphore -> the fiber with its permit, or NoFiber
    waiters,    \* semaphore -> the fibers that wait for its permit
    pc,         \* fiber -> where in withLock it is
    key,        \* fiber -> the key it locks
    semaphore   \* fiber -> the semaphore acquire gave it

vars == <<locks, made, holder, waiters, pc, key, semaphore>>

Semaphores == 1..MaxSemaphores
NoEntry == [semaphore |-> 0, users |-> 0]
Entry == [semaphore : 0..MaxSemaphores, users : Nat]
Stages == {"idle", "acquired", "queued", "running", "releasing"}

TypeOK ==
    /\ locks \in [Keys -> Entry]
    /\ made \in 0..MaxSemaphores
    /\ holder \in [Semaphores -> Fibers \cup {NoFiber}]
    /\ waiters \in [Semaphores -> Seq(Fibers)]
    /\ pc \in [Fibers -> Stages]
    /\ key \in [Fibers -> Keys]
    /\ semaphore \in [Fibers -> 0..MaxSemaphores]

Init ==
    /\ locks = [k \in Keys |-> NoEntry]
    /\ made = 0
    /\ holder = [s \in Semaphores |-> NoFiber]
    /\ waiters = [s \in Semaphores |-> <<>>]
    /\ pc = [f \in Fibers |-> "idle"]
    /\ key \in [Fibers -> Keys]
    /\ semaphore = [f \in Fibers |-> 0]

Goto(f, stage) == pc' = [pc EXCEPT ![f] = stage]

\* acquire, one Ref.modify: the entry's semaphore, or a new one.
\* Mutant: an entry of a key that is in use is replaced.
Acquire_New(f, k) ==
    /\ pc[f] = "idle" /\ made < MaxSemaphores
    /\ made' = made + 1
    /\ locks' = [locks EXCEPT ![k] = [semaphore |-> made + 1, users |-> @.users + 1]]
    /\ semaphore' = [semaphore EXCEPT ![f] = made + 1]
    /\ key' = [key EXCEPT ![f] = k]
    /\ Goto(f, "acquired")
    /\ UNCHANGED <<holder, waiters>>

Acquire(f, k) ==
    LET s == IF locks[k] = NoEntry THEN made + 1 ELSE locks[k].semaphore
    IN  /\ pc[f] = "idle"
        /\ locks[k] = NoEntry => made < MaxSemaphores
        /\ made' = IF locks[k] = NoEntry THEN made + 1 ELSE made
        /\ locks' = [locks EXCEPT ![k] = [semaphore |-> s, users |-> @.users + 1]]
        /\ semaphore' = [semaphore EXCEPT ![f] = s]
        /\ key' = [key EXCEPT ![f] = k]
        /\ Goto(f, "acquired")
        /\ UNCHANGED <<holder, waiters>>

\* withPermit asks for the permit, and gets it when it is free and its turn.
Queue(f) ==
    /\ pc[f] = "acquired"
    /\ waiters' = [waiters EXCEPT ![semaphore[f]] = Append(@, f)]
    /\ Goto(f, "queued")
    /\ UNCHANGED <<locks, made, holder, key, semaphore>>

Take(f) ==
    LET s == semaphore[f]
    IN  /\ pc[f] = "queued"
        /\ holder[s] = NoFiber /\ waiters[s] # <<>> /\ Head(waiters[s]) = f
        /\ holder' = [holder EXCEPT ![s] = f]
        /\ waiters' = [waiters EXCEPT ![s] = Tail(@)]
        /\ Goto(f, "running")
        /\ UNCHANGED <<locks, made, key, semaphore>>

\* The effect has succeeded, failed or been interrupted.
Done(f) ==
    /\ pc[f] = "running"
    /\ holder' = [holder EXCEPT ![semaphore[f]] = NoFiber]
    /\ Goto(f, "releasing")
    /\ UNCHANGED <<locks, made, waiters, key, semaphore>>

\* Mutant: it keeps its place in the line.
GiveUp_StaysInLine(f) ==
    /\ pc[f] \in {"acquired", "queued"}
    /\ Goto(f, "releasing")
    /\ UNCHANGED <<locks, made, holder, waiters, key, semaphore>>

\* A fiber is interrupted before it has the permit.
GiveUp(f) ==
    /\ pc[f] \in {"acquired", "queued"}
    /\ waiters' = [waiters EXCEPT ![semaphore[f]] = Without(@, f)]
    /\ Goto(f, "releasing")
    /\ UNCHANGED <<locks, made, holder, key, semaphore>>

\* release, one Ref.update: the last user removes the entry.
\* Mutant: whoever is done with the lock removes it.
Release_Removes(f) ==
    /\ pc[f] = "releasing"
    /\ locks' = [locks EXCEPT ![key[f]] = NoEntry]
    /\ semaphore' = [semaphore EXCEPT ![f] = 0]
    /\ Goto(f, "idle")
    /\ UNCHANGED <<made, holder, waiters, key>>

\* Mutant: the entry stays for the next user.
Release_Keeps(f) ==
    /\ pc[f] = "releasing"
    /\ locks' = [locks EXCEPT ![key[f]].users = @ - 1]
    /\ semaphore' = [semaphore EXCEPT ![f] = 0]
    /\ Goto(f, "idle")
    /\ UNCHANGED <<made, holder, waiters, key>>

Release(f) ==
    LET entry == locks[key[f]]
    IN  /\ pc[f] = "releasing"
        /\ locks' = [locks EXCEPT ![key[f]] =
              IF entry.users <= 1 THEN NoEntry ELSE [entry EXCEPT !.users = @ - 1]]
        /\ semaphore' = [semaphore EXCEPT ![f] = 0]
        /\ Goto(f, "idle")
        /\ UNCHANGED <<made, holder, waiters, key>>

\* The steps a fiber takes by itself once it has an entry.
Proceed(f) == Queue(f) \/ Take(f) \/ Done(f) \/ Release(f)

Next ==
    \E f \in Fibers :
        \/ \E k \in Keys : Acquire(f, k)
        \/ Proceed(f) \/ GiveUp(f)

\* Effects under a lock end, and the runtime goes on with every fiber.
Fairness == \A f \in Fibers : WF_vars(Proceed(f))

Spec == Init /\ [][Next]_vars
FairSpec == Spec /\ Fairness
-----------------------------------------------------------------------------
(* Properties.                                                             *)

\* Two effects never run at once under one key, however entries come and go
\* while others wait: "mutual exclusion per key".
MutualExclusion ==
    \A f, g \in Fibers : pc[f] = "running" /\ pc[g] = "running" /\ key[f] = key[g] => f = g

UsersOf(k) == {f \in Fibers : pc[f] # "idle" /\ key[f] = k}

\* "A key's lock exists only while someone holds or waits on it, so locks for
\* keys that come and go never accumulate."
EntriesAreInUse == \A k \in Keys : locks[k] # NoEntry <=> UsersOf(k) # {}

\* Whoever waits for a lock gets it or gives up; nobody waits for a permit
\* that no holder will return.
EveryoneGetsTheLock == \A f \in Fibers : pc[f] = "acquired" ~> pc[f] \in {"running", "releasing"}

\* The map of semaphores is one line of fibers per key.
LineOf(k) ==
    LET s == locks[k].semaphore
    IN  IF s = 0 THEN <<>>
        ELSE (IF holder[s] = NoFiber THEN <<>> ELSE <<holder[s]>>) \o waiters[s]

Line == INSTANCE FifoLock WITH
    Users <- Fibers, LockKeys <- Keys,
    line <- [k \in Keys |-> LineOf(k)],
    inside <- {f \in Fibers : pc[f] = "running"}

ImplementsFifoLock == Line!LockSpec
=============================================================================
