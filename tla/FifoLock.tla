------------------------------ MODULE FifoLock ------------------------------
(***************************************************************************)
(* What a keyed lock promises its users (packages/shared/src/KeyedLock.ts, *)
(* "Queued waiters go first-in, first-out"): a line of fibers per key, of  *)
(* which only the first may be inside.                                     *)
(***************************************************************************)
EXTENDS Lines

CONSTANTS Users, LockKeys

VARIABLES
    line,       \* key -> the fibers that have asked for it, in order
    inside      \* the fibers that run the effect they took a lock for

Join(u, k) ==
    /\ \A j \in LockKeys : \A i \in DOMAIN line[j] : line[j][i] # u
    /\ line' = [line EXCEPT ![k] = Append(@, u)]
    /\ UNCHANGED inside

Enter(u, k) ==
    /\ line[k] # <<>> /\ Head(line[k]) = u
    /\ inside' = inside \cup {u}
    /\ UNCHANGED line

\* Its effect has ended, or it gives up waiting.
Leave(u, k) ==
    /\ \E i \in DOMAIN line[k] : line[k][i] = u
    /\ line' = [line EXCEPT ![k] = Without(@, u)]
    /\ inside' = inside \ {u}

\* The process is lost, and its locks with it.
Restart == line' = [k \in LockKeys |-> <<>>] /\ inside' = {}

LockInit == line = [k \in LockKeys |-> <<>>] /\ inside = {}

LockNext ==
    \/ \E u \in Users, k \in LockKeys : Join(u, k) \/ Enter(u, k) \/ Leave(u, k)
    \/ Restart

LockSpec == LockInit /\ [][LockNext]_<<line, inside>>
=============================================================================
