----------------------------- MODULE LaneQueue ------------------------------
(***************************************************************************)
(* What the effect outbox promises, without rows, leases, slots, signals   *)
(* or processes: jobs wait in lanes, each lane works on its oldest         *)
(* unfinished job only, a job may be given back and tried again, and a     *)
(* finished job is never touched again, except that it may be forgotten;   *)
(* a forgotten one may be put in anew.  EffectWorker implements it.        *)
(***************************************************************************)
EXTENDS Naturals

CONSTANTS Jobs, LaneOf

VARIABLES stage, rank

vars == <<stage, rank>>

Stages == {"new", "waiting", "active", "done", "forgotten"}

Init ==
    /\ stage = [j \in Jobs |-> "new"]
    /\ rank = [j \in Jobs |-> 0]

\* Put a new job (or none) behind all others and finish the jobs of F, at once.
Admit(A, F) ==
    /\ \A j \in A : stage[j] \in {"new", "forgotten"}
    /\ \A j \in F : j \in A \/ stage[j] \in {"waiting", "active"}
    /\ stage' = [j \in Jobs |-> IF j \in F THEN "done" ELSE IF j \in A THEN "waiting" ELSE stage[j]]
    /\ rank' \in [Jobs -> Nat]
    /\ \A j \in A, k \in Jobs \ A : rank[k] < rank'[j]
    /\ \A k \in Jobs \ A : rank'[k] = rank[k]

\* Start the oldest unfinished job of its lane.
Start(j) ==
    /\ stage[j] = "waiting"
    /\ \A k \in Jobs \ {j} :
          LaneOf[k] = LaneOf[j] /\ stage[k] \in {"waiting", "active"} =>
              stage[k] = "waiting" /\ rank[j] < rank[k]
    /\ stage' = [stage EXCEPT ![j] = "active"]
    /\ UNCHANGED rank

\* Give jobs back; they keep their place.
Return(R) ==
    /\ \A j \in R : stage[j] = "active"
    /\ stage' = [j \in Jobs |-> IF j \in R THEN "waiting" ELSE stage[j]]
    /\ UNCHANGED rank

\* Forget a finished job.
Forget(j) ==
    /\ stage[j] = "done"
    /\ stage' = [stage EXCEPT ![j] = "forgotten"]
    /\ UNCHANGED rank

Next ==
    \/ \E A \in {{}} \cup {{j} : j \in Jobs}, F \in SUBSET Jobs : Admit(A, F)
    \/ \E j \in Jobs : Start(j) \/ Forget(j)
    \/ \E R \in SUBSET Jobs : Return(R)

Spec == Init /\ [][Next]_vars
=============================================================================
