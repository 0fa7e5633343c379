------------------------- MODULE RunQueueTurnProofs -------------------------
(***************************************************************************)
(* More theorems about RunQueue: its types, what the effects in the lane   *)
(* name, that a message is handed to a provider once, and that no message  *)
(* is lost.                                                                *)
(***************************************************************************)
EXTENDS RunQueueProofs, FiniteSetTheorems

-----------------------------------------------------------------------------
(* Types.                                                                  *)

\* What a plan names exists.
PlanNames ==
    /\ plan.kind \notin {"none", "resume", "advance", "hold"} => plan.run \in Runs
    /\ plan.kind \in {"steer", "restart", "interrupt"} => plan.att \in Attempts
    /\ plan.kind \in {"steer", "restart"} => NextAttempt(plan.run) \in Attempts

\* Whoever executes has an effect in the lane.
StepHasEffect == step.at # "idle" => lane # << >>

TypeInv == TypeOK /\ PlanNames /\ StepHasEffect

LEMMA Smallest ==
    /\ 1 \in Runs /\ 1 \in Attempts /\ 0 \in 0 .. MaxTries - 1
    /\ 0 \notin Runs /\ 0 \notin Attempts /\ 0 \notin Messages
    /\ Runs \subseteq Nat /\ Attempts \subseteq Nat /\ Messages \subseteq Nat
  BY RunQueueAssumption DEF Runs, Attempts, Messages

LEMMA IdleTyped == Idle \in Steps
  BY Smallest DEF Idle, Steps, Statuses

LEMMA StepTypes ==
    ASSUME NEW at \in {"idle", "awaiting", "opening", "opened", "cleared", "followup", "capturing"},
           NEW r \in Runs, NEW a \in Attempts, NEW was \in Statuses
    PROVE  [at |-> at, run |-> r, att |-> a, was |-> was] \in Steps
  BY DEF Steps

LEMMA StepGoesOn ==
    ASSUME step \in Steps, NEW at \in {"opened", "cleared"}
    PROVE  [step EXCEPT !.at = at] \in Steps
  BY DEF Steps

LEMMA NoPlanTyped == NoPlan \in Plans
  BY DEF NoPlan, Plans

LEMMA EffectTyped ==
    ASSUME NEW kind \in Starts \cup Others, NEW r \in Runs, NEW a \in Attempts,
           NEW m \in Messages \cup {0}
    PROVE  Effect(kind, r, a, m) \in Effects
  BY Smallest DEF Effect, Effects, EffectsOf

LEMMA EndTyped ==
    ASSUME TypeOK, NEW r \in Runs, NEW s \in Statuses, NEW c \in Classes, End(r, s, c)
    PROVE  /\ status' \in [Runs -> Statuses]
           /\ class' \in [Runs -> Classes]
           /\ last' \in Runs \cup {0}
           /\ notices' \in Seq(Runs)
  BY DEF TypeOK, End

LEMMA FirstTyped ==
    ASSUME TypeOK, lane # << >>
    PROVE  /\ Head(lane) = lane[1] /\ lane[1] \in Effects
           /\ lane[1].kind \in Starts \cup Others /\ lane[1].run \in Runs
           /\ lane[1].att \in Attempts /\ lane[1].msg \in Messages \cup {0}
           /\ lane[1].tries \in 0 .. MaxTries - 1
           /\ Tail(lane) \in Seq(Effects)
  <1>1. lane \in Seq(Effects) /\ lane[1] \in Effects
    BY DEF TypeOK
  <1> QED
    BY <1>1 DEF Effects, EffectsOf

LEMMA TryAgainTyped ==
    ASSUME TypeOK, lane # << >>, TryAgain
    PROVE  lane' \in Seq(Effects) /\ step' = Idle
  <1>1. CASE LastTry
    BY <1>1, FirstTyped DEF TryAgain, Settle
  <1>2. CASE ~LastTry
    <2>1. lane' = [lane EXCEPT ![1].tries = lane[1].tries + 1] /\ step' = Idle
      BY <1>2 DEF TryAgain
    <2>2. lane[1].tries + 1 \in 0 .. MaxTries - 1
      BY <1>2, FirstTyped, RunQueueAssumption DEF LastTry
    <2>3. [lane[1] EXCEPT !.tries = lane[1].tries + 1] \in Effects
      BY <2>2, FirstTyped DEF Effects, EffectsOf
    <2>4. lane' = [lane EXCEPT ![1] = [lane[1] EXCEPT !.tries = lane[1].tries + 1]]
      BY <2>1
    <2>5. lane \in Seq(Effects)
      BY DEF TypeOK
    <2> QED
      BY <2>1, <2>3, <2>4, <2>5
  <1> QED
    BY <1>1, <1>2

\* The first of the line is the first of the part that is kept, if it is kept.
LEMMA OnlyKeepsFirst ==
    ASSUME NEW T, NEW w \in Seq(T), NEW S, w # << >>, w[1] \in S
    PROVE  Only(w, S) # << >> /\ Only(w, S)[1] = w[1]
  <1> DEFINE t == Only(w, S)
  <1>1. t \in Seq(T) /\ IsPartOf(t, w, Len(w), S)
    BY OnlyShape
  <1> HIDE DEF t
  <1>2. PICK place \in [1 .. Len(t) -> 1 .. Len(w)] :
           /\ \A j \in 1 .. Len(t) : t[j] = w[place[j]] /\ t[j] \in S
           /\ \A j, k \in 1 .. Len(t) : j < k => place[j] < place[k]
           /\ \A i \in 1 .. Len(w) : w[i] \in S => \E j \in 1 .. Len(t) : place[j] = i
    BY <1>1 DEF IsPartOf
  <1>3. 1 \in 1 .. Len(w)
    OBVIOUS
  <1>4. PICK j \in 1 .. Len(t) : place[j] = 1
    BY <1>2, <1>3
  <1>5. 1 \in 1 .. Len(t) /\ place[1] \in 1 .. Len(w)
    BY <1>1, <1>4
  <1>6. j = 1
    BY <1>1, <1>2, <1>4, <1>5
  <1>7. t[1] = w[1]
    BY <1>2, <1>4, <1>6
  <1> QED
    BY <1>1, <1>5, <1>7 DEF t

\* A steer effect carries a message.
SteersCarry == \A i \in 1 .. Len(lane) : lane[i].kind = "steer" => lane[i].msg \in Messages

\* What has been spent is counted per kind.
Counts == [stops : Nat, edits : Nat, restarts : Nat, losses : Nat]

\* A command that reads changes nothing but the plan and the bounds.
LEMMA ReadTyped ==
    ASSUME TypeInv, Reads, spent' \in Counts,
           plan' \in Plans, PlanNames'
    PROVE  TypeInv'
  BY DEF TypeInv, TypeOK, Reads, runVars, queueVars, turnVars, laneVars, endVars, messageVars,
         StepHasEffect, Counts

LEMMA SpentTyped ==
    ASSUME TypeOK
    PROVE  /\ [spent EXCEPT !.stops = @ + 1] \in Counts
           /\ [spent EXCEPT !.edits = @ + 1] \in Counts
           /\ [spent EXCEPT !.restarts = @ + 1] \in Counts
           /\ [spent EXCEPT !.losses = @ + 1] \in Counts
           /\ spent \in Counts
  <1>1. spent \in Counts
    BY DEF TypeOK, Counts
  <1>2. /\ spent.stops + 1 \in Nat /\ spent.edits + 1 \in Nat
        /\ spent.restarts + 1 \in Nat /\ spent.losses + 1 \in Nat
    BY <1>1 DEF Counts
  <1> QED
    BY <1>1, <1>2 DEF Counts

LEMMA PlanTyped ==
    ASSUME NEW kind \in {"none", "queue", "begin", "prepare", "steer", "restart", "stop",
                         "interrupt", "resume", "cancel", "reorder", "release", "fail",
                         "retry", "advance", "hold", "launch"},
           NEW r \in Runs \cup {0}, NEW a \in Attempts \cup {0}, NEW m \in Messages \cup {0},
           NEW hold \in BOOLEAN, NEW q \in Runs \cup {0}
    PROVE  [kind |-> kind, run |-> r, att |-> a, msg |-> m, hold |-> hold, from |-> q] \in Plans
  BY DEF Plans

LEMMA FreshPlanTyped ==
    ASSUME TypeOK, NEW m \in Messages \cup {0}, NEW kind \in {"begin", "prepare"},
           NextRun \in Fresh, plan' = FreshPlan(m, kind)
    PROVE  plan' \in Plans /\ PlanNames'
  <1>1. NextRun \in Runs
    BY DEF Fresh
  <1>2. /\ plan' = [kind |-> plan'.kind, run |-> NextRun, att |-> 0, msg |-> m,
                    hold |-> plan'.hold, from |-> 0]
        /\ plan'.kind \in {"queue", "begin", "prepare"} /\ plan'.hold \in BOOLEAN
    BY DEF FreshPlan, NoPlan
  <1> QED
    BY <1>1, <1>2 DEF Plans, PlanNames

LEMMA CommandTyped ==
    ASSUME TypeInv, SendFresh \/ SendJoining \/ Stop \/ Edit \/ Prepared \/ FollowUp
    PROVE  TypeInv'
  <1>t. TypeOK
    BY DEF TypeInv
  <1>1. CASE SendFresh
    <2>1. PICK kind \in {"begin", "prepare"} : plan' = FreshPlan(NextMessage, kind)
      BY <1>1 DEF SendFresh
    <2>2. NextRun \in Fresh /\ Reads /\ spent' = spent /\ NextMessage \in Messages
      BY <1>1 DEF SendFresh
    <2> QED
      BY <1>t, <2>1, <2>2, FreshPlanTyped, ReadTyped, SpentTyped
  <1>2. CASE SendJoining
    <2>1. PICK r \in Runs, m \in Messages \cup {0}, force \in BOOLEAN, q \in Runs \cup {0} :
             NextAttempt(r) \in Attempts /\ plan' = JoinPlan(r, m, force, q)
      <3>1. PICK r \in Runs :
              /\ NextAttempt(r) \in Attempts
              /\ \/ /\ NextMessage \in Messages
                    /\ \E mode \in Modes[NextMessage] \cap {"steer", "restart"} :
                          plan' = JoinPlan(r, NextMessage, mode = "restart", 0)
                 \/ \E q \in Queued : plan' = JoinPlan(r, prompt[Current(q)], FALSE, q)
        BY <1>2 DEF SendJoining
      <3>2. CASE \E q \in Queued : plan' = JoinPlan(r, prompt[Current(q)], FALSE, q)
        <4>1. PICK q \in Queued : plan' = JoinPlan(r, prompt[Current(q)], FALSE, q)
          BY <3>2
        <4>2. q \in Runs /\ prompt[Current(q)] \in Messages \cup {0}
          BY <1>t DEF Queued, TypeOK, Current
        <4> QED
          BY <3>1, <4>1, <4>2
      <3>3. CASE /\ NextMessage \in Messages
                 /\ \E mode \in Modes[NextMessage] \cap {"steer", "restart"} :
                       plan' = JoinPlan(r, NextMessage, mode = "restart", 0)
        <4>1. PICK force \in BOOLEAN : plan' = JoinPlan(r, NextMessage, force, 0)
          BY <3>3
        <4>2. NextMessage \in Messages \cup {0} /\ 0 \in Runs \cup {0}
          BY <3>3
        <4> QED
          BY <3>1, <4>1, <4>2
      <3> QED
        BY <3>1, <3>2, <3>3
    <2>2. Reads /\ spent' \in Counts
      BY <1>2, <1>t, SpentTyped DEF SendJoining
    <2>3. attempt[r] \in Attempts
      BY <1>t DEF TypeOK
    <2>4. PICK kind \in {"steer", "restart"} :
            plan' = [kind |-> kind, run |-> r, att |-> attempt[r], msg |-> m,
                     hold |-> FALSE, from |-> q]
      BY <2>1 DEF JoinPlan, NoPlan
    <2>5. plan' \in Plans /\ plan'.run = r /\ plan'.att \in Attempts
      <3>1. plan'.run = r /\ plan'.att = attempt[r]
        BY <2>4
      <3>2. plan' \in Plans
        BY <2>3, <2>4, PlanTyped
      <3> QED
        BY <2>3, <3>1, <3>2
    <2>6. (NextAttempt(r) \in Attempts)'
      BY <2>1, <2>2 DEF Reads, runVars, NextAttempt
    <2>7. PlanNames'
      BY <2>4, <2>5, <2>6 DEF PlanNames, NextAttempt
    <2> QED
      BY <2>2, <2>5, <2>7, ReadTyped
  <1>3. CASE Stop
    <2>1. PICK r \in Runs, hold \in BOOLEAN :
            plan' = [NoPlan EXCEPT
                       !.kind = IF turn[Current(r)] = "running" THEN "interrupt" ELSE "stop",
                       !.run = r, !.att = attempt[r], !.hold = hold]
      BY <1>3 DEF Stop
    <2>2. Reads /\ spent' \in Counts
      BY <1>3, <1>t, SpentTyped DEF Stop
    <2>3. attempt[r] \in Attempts
      BY <1>t DEF TypeOK
    <2>4. /\ plan' = [kind |-> plan'.kind, run |-> r, att |-> attempt[r], msg |-> 0,
                      hold |-> hold, from |-> 0]
          /\ plan'.kind \in {"interrupt", "stop"}
      BY <2>1 DEF NoPlan
    <2> QED
      BY <2>2, <2>3, <2>4, ReadTyped DEF Plans, PlanNames
  <1>4. CASE Edit
    <2>1. Reads /\ spent' \in Counts
      BY <1>4, <1>t, SpentTyped DEF Edit
    <2>2. \/ plan' = [NoPlan EXCEPT !.kind = "resume"]
          \/ \E r \in Runs, kind \in {"cancel", "reorder", "retry"} :
                plan' = [NoPlan EXCEPT !.kind = kind, !.run = r]
      BY <1>4 DEF Edit, Queued
    <2>3. PICK r \in Runs \cup {0}, kind \in {"resume", "cancel", "reorder", "retry"} :
            /\ plan' = [kind |-> kind, run |-> r, att |-> 0, msg |-> 0, hold |-> FALSE,
                        from |-> 0]
            /\ kind = "resume" \/ r \in Runs
      BY <2>2 DEF NoPlan
    <2>4. plan' \in Plans
      BY <2>3, PlanTyped
    <2>5. PlanNames'
      BY <2>3 DEF PlanNames
    <2> QED
      BY <2>1, <2>4, <2>5, ReadTyped
  <1>5. CASE Prepared
    <2>1. Reads /\ spent' \in Counts
      BY <1>5, <1>t, SpentTyped DEF Prepared
    <2>2. PICK r \in Runs, kind \in {"release", "fail"} :
            plan' = [kind |-> kind, run |-> r, att |-> 0, msg |-> 0, hold |-> FALSE, from |-> 0]
      BY <1>5 DEF Prepared, NoPlan
    <2>3. plan' \in Plans
      BY <2>2, PlanTyped
    <2>4. PlanNames'
      BY <2>2 DEF PlanNames
    <2> QED
      BY <2>1, <2>3, <2>4, ReadTyped
  <1>6. CASE FollowUp
    <2>1. /\ Reads /\ NextRun \in Fresh /\ plan' = FreshPlan(Head(lane).msg, "begin")
          /\ lane # << >> /\ spent' = spent
      BY <1>6 DEF FollowUp, At
    <2> QED
      BY <1>t, <2>1, FirstTyped, FreshPlanTyped, ReadTyped, SpentTyped
  <1> QED
    BY <1>1, <1>2, <1>3, <1>4, <1>5, <1>6

\* The dispatch of a follow-up takes the first effect away, or nothing.
LEMMA FollowUpTyped ==
    ASSUME TypeInv
    PROVE  /\ SettleFollowUp.lane \in Seq(Effects)
           /\ \/ SettleFollowUp.step = Idle
              \/ SettleFollowUp.step = step /\ SettleFollowUp.lane = lane
  <1>1. step.at = "followup" => Tail(lane) \in Seq(Effects)
    BY FirstTyped DEF TypeInv, StepHasEffect
  <1> QED
    BY <1>1 DEF TypeInv, TypeOK, SettleFollowUp

\* A commit that leaves the executor's effect first.
LEMMA StillHasEffect ==
    ASSUME TypeInv, step' = Idle \/ (step' = step /\ (lane # << >> => lane' # << >>))
    PROVE  step' \in Steps /\ StepHasEffect'
  BY IdleTyped DEF TypeInv, TypeOK, StepHasEffect, Idle

\* The provider takes a turn.
LEMMA BegunTyped ==
    ASSUME TypeOK, NEW x, NEW m
    PROVE  /\ [turn EXCEPT ![x] = "begun"] \in [Runs \X Attempts -> TurnStages]
           /\ [given EXCEPT ![m] = @ + 1] \in [Messages -> Nat]
  <1>1. [turn EXCEPT ![x] = "begun"] \in [Runs \X Attempts -> TurnStages]
    BY DEF TypeOK, TurnStages
  <1>2. [given EXCEPT ![m] = given[m] + 1] \in [Messages -> Nat]
    <2>1. given \in [Messages -> Nat]
      BY DEF TypeOK
    <2>2. CASE m \in Messages
      <3>1. given[m] + 1 \in Nat
        BY <2>1, <2>2
      <3> QED
        BY <2>1, <3>1
    <2>3. CASE m \notin Messages
      <3>1. [given EXCEPT ![m] = given[m] + 1] = given
        BY <2>1, <2>3
      <3> QED
        BY <2>1, <3>1
    <2> QED
      BY <2>2, <2>3
  <1> QED
    BY <1>1, <1>2

\* A step counts the runs it moved on under a write decided before, or none.
Tracks == overtaken' = overtaken \/ Overtakes

LEMMA TracksTyped ==
    ASSUME TypeOK, Tracks
    PROVE  overtaken' \in SUBSET Runs
  BY DEF TypeOK, Tracks, Overtakes

\* The plan of a commit is done.
LEMMA CommitTyped ==
    ASSUME TypeInv, plan' = NoPlan,
           status' \in [Runs -> Statuses], attempt' \in [Runs -> Attempts],
           prompt' \in [Runs \X Attempts -> Messages \cup {0}], class' \in [Runs -> Classes],
           last' \in Runs \cup {0}, held' \in SUBSET Runs, line' \in Seq(Runs),
           turn' \in [Runs \X Attempts -> TurnStages], lane' \in Seq(Effects),
           step' \in Steps, StepHasEffect', notices' \in Seq(Runs),
           owner' \in [Messages -> Runs \cup {0}], given' \in [Messages -> Nat],
           Tracks, UNCHANGED <<missed, ending, asked, captured, forfeit, spent>>
    PROVE  TypeInv'
  BY NoPlanTyped, TracksTyped DEF TypeInv, TypeOK, PlanNames, NoPlan

LEMMA PlanIsTyped ==
    ASSUME TypeOK
    PROVE  /\ plan.run \in Runs \cup {0} /\ plan.att \in Attempts \cup {0}
           /\ plan.msg \in Messages \cup {0} /\ plan.from \in Runs \cup {0}
           /\ plan.hold \in BOOLEAN
  BY DEF TypeOK, Plans

LEMMA AppendTyped ==
    ASSUME NEW T, NEW w \in Seq(T), NEW e \in T
    PROVE  Append(w, e) \in Seq(T) /\ Append(w, e) # << >>
  <1>1. Append(w, e) \in Seq(T) /\ Len(Append(w, e)) = Len(w) + 1
    OBVIOUS
  <1>2. ASSUME NEW u \in Seq(T), Len(u) # 0 PROVE u # << >>
    BY <1>2
  <1>3. Len(Append(w, e)) # 0
    BY <1>1
  <1> QED
    BY <1>1, <1>2, <1>3

LEMMA CommitTypes ==
    ASSUME TypeInv, Commit
    PROVE  TypeInv'
  <1> USE DEF Committing
  <1>t. TypeOK /\ PlanNames
    BY DEF TypeInv
  <1>p. /\ plan.run \in Runs \cup {0} /\ plan.att \in Attempts \cup {0}
        /\ plan.msg \in Messages \cup {0} /\ plan.from \in Runs \cup {0}
        /\ plan.hold \in BOOLEAN
    BY <1>t, PlanIsTyped
  <1>l. lane \in Seq(Effects)
    BY <1>t DEF TypeOK
  <1>1. CASE ReadQueue
    <2>2. PICK r \in Runs \cup {0}, kind \in {"none", "hold", "launch"} :
            /\ plan' = [kind |-> kind, run |-> r, att |-> 0, msg |-> 0, hold |-> FALSE,
                        from |-> 0]
            /\ kind = "launch" => r \in Runs
      BY <1>1 DEF ReadQueue, NoPlan, Queued
    <2>3. plan' \in Plans
      BY <2>2, PlanTyped
    <2>4. PlanNames'
      BY <2>2 DEF PlanNames
    <2>5. TypeOK'
      BY <1>1, <1>t, <2>3 DEF ReadQueue, TypeOK, runVars, queueVars, turnVars, laneVars, messageVars
    <2>6. StepHasEffect'
      BY <1>1 DEF ReadQueue, TypeInv, StepHasEffect, laneVars
    <2> QED
      BY <2>4, <2>5, <2>6 DEF TypeInv
  <1>2. CASE CommitQueue
    <2>1. plan.run \in Runs
      BY <1>2, <1>t DEF CommitQueue, PlanNames
    <2>2. step' \in Steps /\ StepHasEffect' /\ lane' \in Seq(Effects)
      BY <1>2, FollowUpTyped, StillHasEffect DEF CommitQueue
    <2>3. /\ status' \in [Runs -> Statuses] /\ held' \in SUBSET Runs
          /\ prompt' \in [Runs \X Attempts -> Messages \cup {0}]
          /\ owner' \in [Messages -> Runs \cup {0}]
      BY <1>2, <1>t, <1>p, <2>1 DEF CommitQueue, TypeOK, Statuses
    <2>4. line' \in Seq(Runs)
      BY <1>2, <1>t, <2>1, AppendTyped DEF CommitQueue, TypeOK
    <2> QED
      BY <1>2, <1>t, <2>2, <2>3, <2>4, CommitTyped
         DEF Tracks, Counts, endVars, CommitQueue, turnVars, TypeOK
  <1>3. CASE CommitBegin
    <2>1. plan.run \in Runs
      BY <1>3, <1>t DEF CommitBegin, PlanNames
    <2>2. Effect("start", plan.run, 1, 0) \in Effects
      BY <2>1, EffectTyped, Smallest DEF Starts
    <2>3. lane' \in Seq(Effects)
      BY <1>3, <2>2, FollowUpTyped DEF CommitBegin
    <2>4. step' \in Steps /\ StepHasEffect'
      BY <1>3, <2>2, FollowUpTyped, StillHasEffect DEF CommitBegin
    <2>5. /\ status' \in [Runs -> Statuses]
          /\ prompt' \in [Runs \X Attempts -> Messages \cup {0}]
          /\ owner' \in [Messages -> Runs \cup {0}]
      BY <1>3, <1>t, <1>p, <2>1 DEF CommitBegin, TypeOK, Statuses, Blocking
    <2> QED
      BY <1>3, <1>t, <2>3, <2>4, <2>5, CommitTyped
         DEF Tracks, Counts, endVars, CommitBegin, queueVars, turnVars, TypeOK
  <1>4. CASE CommitJoin
    <2>1. plan.run \in Runs /\ plan.att \in Attempts /\ NextAttempt(plan.run) \in Attempts
      BY <1>4, <1>t DEF CommitJoin, PlanNames
    <2>2. LeaveQueue(status, plan.from) \in [Runs -> Statuses]
      BY <1>t DEF LeaveQueue, TypeOK, Statuses, Terminal
    <2>3. /\ status' \in [Runs -> Statuses] /\ attempt' \in [Runs -> Attempts]
          /\ prompt' \in [Runs \X Attempts -> Messages \cup {0}]
      BY <1>4, <1>t, <1>p, <2>1, <2>2 DEF CommitJoin, TypeOK, Statuses, Blocking
    <2>4. /\ Effect("steer", plan.run, plan.att, plan.msg) \in Effects
          /\ Effect("restart", plan.run, plan.att, 0) \in Effects
      BY <1>p, <2>1, EffectTyped DEF Starts, Others
    <2>5. lane' \in Seq(Effects) /\ lane' # << >>
      <3>1. \E e \in Effects : lane' = Append(lane, e)
        BY <1>4, <2>4 DEF CommitJoin
      <3> QED
        BY <1>t, <3>1, AppendTyped DEF TypeOK
    <2>6. step' \in Steps /\ StepHasEffect'
      BY <1>4, <2>5, StillHasEffect DEF CommitJoin
    <2>7. line' \in Seq(Runs)
      BY <1>4, <1>t, WithoutType DEF CommitJoin, TypeOK
    <2>8. notices' \in Seq(Runs)
      BY <1>4, <1>t, <1>p, AppendTyped DEF CommitJoin, TypeOK
    <2>9. held' \in SUBSET Runs /\ owner' \in [Messages -> Runs \cup {0}]
      BY <1>4, <1>t, <2>1 DEF CommitJoin, TypeOK
    <2> QED
      BY <1>4, <1>t, <2>3, <2>5, <2>6, <2>7, <2>8, <2>9, CommitTyped
         DEF Tracks, Counts, endVars, CommitJoin, turnVars, TypeOK
  <1>5. CASE CommitStop
    <2>1. plan.run \in Runs
      BY <1>5, <1>t DEF CommitStop, PlanNames
    <2>2. /\ status' \in [Runs -> Statuses] /\ class' \in [Runs -> Classes]
          /\ last' \in Runs \cup {0} /\ notices' \in Seq(Runs)
      BY <1>5, <1>t, <2>1, EndTyped DEF CommitStop, Statuses, Terminal, Classes
    <2>3. lane \in Seq(Effects) /\ lane' = Only(lane, EffectsOf(Others))
      BY <1>5, <1>t DEF CommitStop, TypeOK
    <2>4. lane' \in Seq(Effects)
      BY <2>3, OnlyShape
    <2>5. \/ step' = Idle
          \/ step' = step /\ (lane = << >> \/ step.at = "idle" \/ lane[1].kind \notin Starts)
      BY <1>5, <1>t, FirstTyped DEF CommitStop
    <2>6. lane # << >> /\ lane[1].kind \notin Starts => lane' # << >>
      <3>1. lane # << >> /\ lane[1].kind \notin Starts => lane[1] \in EffectsOf(Others)
        BY <1>t, FirstTyped DEF Effects, EffectsOf
      <3> QED
        BY <2>3, <3>1, OnlyKeepsFirst
    <2>7. step' \in Steps /\ StepHasEffect'
      BY <2>5, <2>6, IdleTyped DEF TypeInv, TypeOK, StepHasEffect, Idle
    <2>8. turn' \in [Runs \X Attempts -> TurnStages] /\ given' \in [Messages -> Nat]
      <3>1. \/ UNCHANGED <<turn, given>>
            \/ \E x, m : turn' = [turn EXCEPT ![x] = "begun"] /\ given' = [given EXCEPT ![m] = @ + 1]
        BY <1>5 DEF CommitStop
      <3>2. turn \in [Runs \X Attempts -> TurnStages] /\ given \in [Messages -> Nat]
        BY <1>t DEF TypeOK
      <3>3. ASSUME NEW x, NEW m, turn' = [turn EXCEPT ![x] = "begun"],
                   given' = [given EXCEPT ![m] = @ + 1]
            PROVE  turn' \in [Runs \X Attempts -> TurnStages] /\ given' \in [Messages -> Nat]
        BY <1>t, <3>3, BegunTyped
      <3> QED
        BY <3>1, <3>2, <3>3
    <2>9. held' \in SUBSET Runs
      BY <1>5, <1>t DEF CommitStop, TypeOK, Queued
    <2> QED
      BY <1>5, <1>t, <2>2, <2>4, <2>7, <2>8, <2>9, CommitTyped
         DEF Tracks, Counts, endVars, CommitStop, TypeOK
  <1>6. CASE CommitInterrupt
    <2>1. plan.run \in Runs /\ plan.att \in Attempts
      BY <1>6, <1>t DEF CommitInterrupt, PlanNames
    <2>2. Effect("interrupt", plan.run, plan.att, 0) \in Effects
      BY <2>1, EffectTyped DEF Others
    <2>3. lane' \in Seq(Effects) /\ lane' # << >>
      BY <1>6, <1>t, <2>2, AppendTyped DEF CommitInterrupt, TypeOK
    <2>4. step' \in Steps /\ StepHasEffect'
      BY <1>6, <2>3, StillHasEffect DEF CommitInterrupt
    <2>5. held' \in SUBSET Runs
      BY <1>6, <1>t DEF CommitInterrupt, TypeOK, Queued
    <2> QED
      BY <1>6, <1>t, <2>3, <2>4, <2>5, CommitTyped
      DEF Tracks, Counts, endVars, CommitInterrupt, runVars, turnVars, messageVars, TypeOK
  <1>7. CASE CommitResume
    <2>1. plan' = [kind |-> "advance", run |-> 0, att |-> 0, msg |-> 0, hold |-> FALSE,
                   from |-> 0]
      BY <1>7 DEF CommitResume, NoPlan
    <2>2. plan' \in Plans
      BY <2>1, PlanTyped
    <2>3. PlanNames'
      BY <2>1 DEF PlanNames
    <2> QED
      BY <1>7, <1>t, <2>2, <2>3 DEF CommitResume, TypeInv, TypeOK, StepHasEffect,
         runVars, turnVars, laneVars, endVars, messageVars
  <1>8. CASE CommitCancel
    <2>1. plan.run \in Runs
      BY <1>8, <1>t DEF CommitCancel, PlanNames
    <2>2. /\ status' \in [Runs -> Statuses] /\ held' \in SUBSET Runs
          /\ line' \in Seq(Runs) /\ notices' \in Seq(Runs)
      BY <1>8, <1>t, <2>1, WithoutType, AppendTyped DEF CommitCancel, TypeOK, Statuses, Terminal
    <2>3. step' \in Steps /\ StepHasEffect'
      BY <1>8, StillHasEffect DEF CommitCancel, laneVars
    <2> QED
      BY <1>8, <1>t, <2>2, <2>3, CommitTyped
      DEF Tracks, Counts, endVars, CommitCancel, turnVars, laneVars, messageVars, TypeOK
  <1>9. CASE CommitReorder
    <2>1. plan.run \in Runs
      BY <1>9, <1>t DEF CommitReorder, PlanNames
    <2>2. line' \in Seq(Runs)
      <3> DEFINE rest == Without(line, plan.run)
      <3>1. line \in Seq(Runs) /\ rest \in Seq(Runs)
        BY <1>t, WithoutType DEF TypeOK
      <3>2. Len(rest) >= Len(line) - 1
        BY <3>1, WithoutShape
      <3>3. PICK i \in 1 .. Len(line) : line' = InsertAt(rest, i, plan.run)
        BY <1>9 DEF CommitReorder
      <3> HIDE DEF rest
      <3>4. SubSeq(rest, 1, i - 1) \in Seq(Runs) /\ SubSeq(rest, i, Len(rest)) \in Seq(Runs)
        BY <3>1, <3>2
      <3>5. <<plan.run>> \in Seq(Runs)
        BY <2>1
      <3> QED
        BY <3>3, <3>4, <3>5 DEF InsertAt
    <2>3. step' \in Steps /\ StepHasEffect'
      BY <1>9, StillHasEffect DEF CommitReorder, laneVars
    <2> QED
      BY <1>9, <1>t, <2>2, <2>3, CommitTyped
      DEF Tracks, Counts, endVars, CommitReorder, runVars, turnVars, laneVars, messageVars, TypeOK
  <1>10. CASE CommitPrepared
    <2>1. plan.run \in Runs
      BY <1>10, <1>t DEF CommitPrepared, PlanNames
    <2>2. Effect("start", plan.run, 1, 0) \in Effects
      BY <2>1, EffectTyped, Smallest DEF Starts
    <2>3. lane' \in Seq(Effects) /\ (lane' = lane \/ lane' # << >>)
      <3>1. lane' = lane \/ lane' = Append(lane, Effect("start", plan.run, 1, 0))
        BY <1>10 DEF CommitPrepared
      <3> QED
        BY <1>l, <2>2, <3>1, AppendTyped
    <2>4. step' \in Steps /\ StepHasEffect'
      BY <1>10, <2>3, StillHasEffect DEF CommitPrepared
    <2>5. /\ status' \in [Runs -> Statuses] /\ class' \in [Runs -> Classes]
          /\ last' \in Runs \cup {0} /\ notices' \in Seq(Runs)
      <3>1. CASE status' = [status EXCEPT ![plan.run] = "starting"] /\ UNCHANGED <<class, last, notices>>
        BY <1>t, <2>1, <3>1 DEF Statuses, Blocking, TypeOK
      <3>2. CASE End(plan.run, "failed", "workspace")
        BY <1>t, <2>1, <3>2, EndTyped DEF Statuses, Terminal, Classes
      <3>3. CASE /\ status' = [status EXCEPT ![plan.run] = "preparing"]
                 /\ class' = [class EXCEPT ![plan.run] = "none"]
                 /\ UNCHANGED <<last, notices>>
        BY <1>t, <2>1, <3>3 DEF Statuses, Blocking, Classes, TypeOK
      <3> QED
        BY <1>10, <3>1, <3>2, <3>3 DEF CommitPrepared
    <2> QED
      BY <1>10, <1>t, <2>3, <2>4, <2>5, CommitTyped
      DEF Tracks, Counts, endVars, CommitPrepared, queueVars, turnVars, messageVars, TypeOK
  <1>11. CASE CommitHold
    <2>1. held' \in SUBSET Runs
      BY <1>11 DEF CommitHold, Queued
    <2>2. step' \in Steps /\ StepHasEffect'
      BY <1>11, StillHasEffect DEF CommitHold, laneVars
    <2> QED
      BY <1>11, <1>t, <2>1, <2>2, CommitTyped
      DEF Tracks, Counts, endVars, CommitHold, runVars, turnVars, laneVars, messageVars, TypeOK
  <1>12. CASE CommitLaunch
    <2>1. plan.run \in Runs
      BY <1>12, <1>t DEF CommitLaunch, PlanNames
    <2>2. Effect("start", plan.run, 1, 0) \in Effects
      BY <2>1, EffectTyped, Smallest DEF Starts
    <2>3. lane' \in Seq(Effects) /\ (lane' = lane \/ lane' # << >>)
      <3>1. lane' = lane \/ lane' = Append(lane, Effect("start", plan.run, 1, 0))
        BY <1>12 DEF CommitLaunch
      <3> QED
        BY <1>l, <2>2, <3>1, AppendTyped
    <2>4. step' \in Steps /\ StepHasEffect'
      BY <1>12, <2>3, StillHasEffect DEF CommitLaunch
    <2>5. /\ status' \in [Runs -> Statuses] /\ class' \in [Runs -> Classes]
          /\ last' \in Runs \cup {0} /\ notices' \in Seq(Runs)
      <3>1. CASE status' = [status EXCEPT ![plan.run] = "starting"] /\ UNCHANGED <<class, last, notices>>
        BY <1>t, <2>1, <3>1 DEF Statuses, Blocking, TypeOK
      <3>2. CASE \E c \in {"provider", "validation"} : End(plan.run, "failed", c)
        BY <1>t, <2>1, <3>2, EndTyped DEF Statuses, Terminal, Classes
      <3> QED
        BY <1>12, <3>1, <3>2 DEF CommitLaunch
    <2>6. line' \in Seq(Runs)
      BY <1>12, <1>t, WithoutType DEF CommitLaunch, TypeOK
    <2> QED
      BY <1>12, <1>t, <2>3, <2>4, <2>5, <2>6, CommitTyped
      DEF Tracks, Counts, endVars, CommitLaunch, turnVars, messageVars, TypeOK
  <1> QED
    BY <1>1, <1>2, <1>3, <1>4, <1>5, <1>6, <1>7, <1>8, <1>9, <1>10, <1>11, <1>12 DEF Commit

\* An executor's step that leaves the plan and the attempts' messages alone.
LEMMA StepTyped ==
    ASSUME TypeInv, UNCHANGED <<prompt, plan, held, line, owner>>,
           status' \in [Runs -> Statuses], attempt' \in [Runs -> Attempts],
           class' \in [Runs -> Classes], last' \in Runs \cup {0}, Tracks, missed' = missed,
           turn' \in [Runs \X Attempts -> TurnStages],
           ending' \in [Runs \X Attempts -> Endings],
           asked' \in SUBSET (Runs \X Attempts), lane' \in Seq(Effects),
           step' \in Steps, StepHasEffect', captured' \in SUBSET Runs, notices' \in Seq(Runs),
           given' \in [Messages -> Nat], forfeit' \in SUBSET Messages,
           spent' \in Counts
    PROVE  TypeInv'
  BY TracksTyped DEF TypeInv, TypeOK, PlanNames, NextAttempt, Counts

\* Who has settled its effect, or gives it back, is idle.
LEMMA IdleHasEffect ==
    ASSUME step' = Idle
    PROVE  step' \in Steps /\ StepHasEffect'
  BY IdleTyped DEF StepHasEffect, Idle

LEMMA WorkerTypes ==
    ASSUME TypeInv, SteersCarry, Worker
    PROVE  TypeInv'
  <1>t. TypeOK
    BY DEF TypeInv
  <1>l. lane \in Seq(Effects) /\ step \in Steps
    BY <1>t DEF TypeOK
  <1>i. /\ step.run \in Runs /\ step.att \in Attempts /\ step.was \in Statuses
        /\ spent \in Counts
    BY <1>t DEF TypeOK, Steps, Counts
  <1>s. ASSUME lane # << >>, Settle
        PROVE  lane' \in Seq(Effects) /\ step' = Idle
    BY <1>t, <1>s, FirstTyped DEF Settle
  <1>1. CASE StartLoads
    <2>1. lane # << >> /\ LoadRun
      BY <1>1 DEF StartLoads, At
    <2>2. lane' \in Seq(Effects) /\ step' \in Steps /\ StepHasEffect'
      <3>1. CASE Settle
        BY <2>1, <3>1, <1>s, IdleHasEffect
      <3>2. CASE /\ lane' = lane
                 /\ step' = [at |-> "opening", run |-> Head(lane).run,
                             att |-> attempt[Head(lane).run], was |-> "starting"]
        <4>1. Head(lane).run \in Runs /\ attempt[Head(lane).run] \in Attempts
          BY <1>t, <2>1, FirstTyped DEF TypeOK
        <4> QED
          BY <1>l, <2>1, <3>2, <4>1 DEF Steps, Statuses, Blocking, StepHasEffect
      <3> QED
        BY <2>1, <3>1, <3>2 DEF LoadRun
    <2> QED
      BY <1>1, <1>t, <2>2, StepTyped
      DEF Tracks, Counts, endVars, StartLoads, runVars, queueVars, turnVars, messageVars, TypeOK
  <1>2. CASE RestartInterrupts
    <2>1. lane # << >> /\ lane' = lane /\ step' = [Idle EXCEPT !.at = "awaiting"]
      BY <1>2 DEF RestartInterrupts, At
    <2>2. step' = [at |-> "awaiting", run |-> 1, att |-> 1, was |-> "none"]
      BY <2>1 DEF Idle
    <2>3. step' \in Steps /\ StepHasEffect'
      <3>1. step' \in Steps
        BY <2>2, StepTypes, Smallest DEF Statuses
      <3> QED
        BY <2>1, <3>1 DEF StepHasEffect
    <2>4. asked' \in SUBSET (Runs \X Attempts)
      <3>1. Head(lane).run \in Runs /\ Head(lane).att \in Attempts
        BY <1>t, <2>1, FirstTyped
      <3> QED
        BY <1>2, <1>t, <3>1 DEF RestartInterrupts, TypeOK
    <2> QED
      BY <1>2, <1>t, <2>1, <2>3, <2>4, StepTyped
      DEF Tracks, Counts, endVars, RestartInterrupts, runVars, queueVars, messageVars, TypeOK
  <1>3. CASE RestartTimesOut \/ StartFails \/ CaptureFails
    <2>1. lane' \in Seq(Effects) /\ step' = Idle
      BY <1>3, <1>t, TryAgainTyped DEF RestartTimesOut, StartFails, CaptureFails, At
    <2>2. step' \in Steps /\ StepHasEffect'
      BY <2>1, IdleHasEffect
    <2> QED
      BY <1>3, <1>t, <2>1, <2>2, StepTyped
     
         DEF Tracks, Counts, endVars, RestartTimesOut, StartFails, CaptureFails, runVars, queueVars, turnVars,
          messageVars, TypeOK
  <1>4. CASE SessionOpens
    <2>1. lane # << >>
      BY <1>4 DEF SessionOpens, At
    <2>2. CASE /\ status' = [status EXCEPT ![step.run] = "running"]
               /\ step' = [step EXCEPT !.at = "opened"] /\ lane' = lane
      <3>1. status' \in [Runs -> Statuses]
        BY <1>t, <2>2 DEF TypeOK, Statuses, Blocking
      <3>2. step' \in Steps /\ StepHasEffect'
        <4>1. step' \in Steps
          BY <1>l, <2>2, StepGoesOn
        <4> QED
          BY <2>1, <2>2, <4>1 DEF StepHasEffect
      <3> QED
        BY <1>4, <1>t, <2>2, <3>1, <3>2, StepTyped
        DEF Tracks, Counts, endVars, SessionOpens, queueVars, turnVars, messageVars, TypeOK
    <2>3. CASE Settle /\ status' = status
      <3>1. lane' \in Seq(Effects) /\ step' \in Steps /\ StepHasEffect'
        BY <2>1, <2>3, <1>s, IdleHasEffect
      <3> QED
        BY <1>4, <1>t, <2>3, <3>1, StepTyped
        DEF Tracks, Counts, endVars, SessionOpens, queueVars, turnVars, messageVars, TypeOK
    <2> QED
      BY <1>4, <2>2, <2>3 DEF SessionOpens
  <1>5. CASE SessionFails
    <2>1. lane' \in Seq(Effects) /\ step' = Idle
      BY <1>5, <1>t, TryAgainTyped DEF SessionFails, At
    <2>2. step' \in Steps /\ StepHasEffect'
      BY <2>1, IdleHasEffect
    <2>3. End(step.run, "failed", "provider") \/ UNCHANGED <<status, class, last, notices>>
      BY <1>5 DEF SessionFails
    <2>4. /\ status' \in [Runs -> Statuses] /\ class' \in [Runs -> Classes]
          /\ last' \in Runs \cup {0} /\ notices' \in Seq(Runs)
      <3>1. "failed" \in Statuses /\ "provider" \in Classes
        BY DEF Statuses, Terminal, Classes
      <3>2. CASE End(step.run, "failed", "provider")
        BY <1>t, <1>i, <3>1, <3>2, EndTyped
      <3>3. CASE UNCHANGED <<status, class, last, notices>>
        BY <1>t, <3>3 DEF TypeOK
      <3> QED
        BY <2>3, <3>2, <3>3
    <2> QED
      BY <1>5, <1>t, <2>1, <2>2, <2>4, StepTyped
      DEF Tracks, Counts, endVars, SessionFails, queueVars, turnVars, messageVars, TypeOK
  <1>6. CASE TurnClears
    <2>1. lane # << >>
      BY <1>6 DEF TurnClears, At
    <2>2. lane' \in Seq(Effects) /\ step' \in Steps /\ StepHasEffect'
      <3>1. CASE Settle
        BY <2>1, <3>1, <1>s, IdleHasEffect
      <3>2. CASE step' = [step EXCEPT !.at = "cleared"] /\ lane' = lane
        BY <1>l, <2>1, <3>2, StepGoesOn DEF StepHasEffect
      <3> QED
        BY <1>6, <3>1, <3>2 DEF TurnClears
    <2> QED
      BY <1>6, <1>t, <2>2, StepTyped
      DEF Tracks, Counts, endVars, TurnClears, runVars, queueVars, turnVars, messageVars, TypeOK
  <1>7. CASE TurnBegins
    <2>1. lane' \in Seq(Effects) /\ step' \in Steps /\ StepHasEffect'
      BY <1>7, <1>s, IdleHasEffect DEF TurnBegins, At
    <2>2. turn' \in [Runs \X Attempts -> TurnStages] /\ given' \in [Messages -> Nat]
      <3>1. /\ turn' = [turn EXCEPT ![<<step.run, step.att>>] = "begun"]
            /\ given' = [given EXCEPT ![prompt[<<step.run, step.att>>]] = @ + 1]
        BY <1>7 DEF TurnBegins
      <3> QED
        BY <1>t, <3>1, BegunTyped
    <2> QED
      BY <1>7, <1>t, <2>1, <2>2, StepTyped
         DEF Tracks, Counts, endVars, TurnBegins, runVars, queueVars, TypeOK
  <1>8. CASE TurnRefused
    <2>1. lane' \in Seq(Effects) /\ step' \in Steps /\ StepHasEffect'
      BY <1>8, <1>s, IdleHasEffect DEF TurnRefused, At
    <2>2. /\ status' \in [Runs -> Statuses] /\ class' \in [Runs -> Classes]
          /\ last' \in Runs \cup {0} /\ notices' \in Seq(Runs)
      <3>1. "failed" \in Statuses /\ "provider" \in Classes
        BY DEF Statuses, Terminal, Classes
      <3>2. CASE End(step.run, "failed", "provider")
        BY <1>t, <1>i, <3>1, <3>2, EndTyped
      <3>3. CASE UNCHANGED <<status, class, last, notices>>
        BY <1>t, <3>3 DEF TypeOK
      <3> QED
        BY <1>8, <3>2, <3>3 DEF TurnRefused
    <2> QED
      BY <1>8, <1>t, <2>1, <2>2, StepTyped
         DEF Tracks, Counts, endVars, TurnRefused, queueVars, turnVars, messageVars, TypeOK
  <1>9. CASE Steer
    <2>0. lane # << >>
      BY <1>9 DEF Steer, At
    <2>1. /\ given' = given \/ given' = [given EXCEPT ![Head(lane).msg] = @ + 1]
          /\ \/ forfeit' = forfeit
             \/ forfeit' = forfeit \cup {Head(lane).msg} /\ Head(lane).kind = "steer"
      BY <1>9 DEF Steer, At
    <2>2. given' \in [Messages -> Nat]
      <3>1. CASE given' = given
        BY <1>t, <3>1 DEF TypeOK
      <3>2. CASE given' = [given EXCEPT ![Head(lane).msg] = @ + 1]
        BY <1>t, <3>2, BegunTyped
      <3> QED
        BY <2>1, <3>1, <3>2
    <2>3. forfeit' \in SUBSET Messages
      <3>1. Head(lane).kind = "steer" => Head(lane).msg \in Messages
        BY <1>l, <2>0, <1>t, FirstTyped DEF SteersCarry
      <3> QED
        BY <1>t, <2>1, <3>1 DEF TypeOK
    <2>4. lane' \in Seq(Effects) /\ step' \in Steps /\ StepHasEffect'
      <3>1. CASE Settle
        BY <2>0, <3>1, <1>s, IdleHasEffect
      <3>2. CASE TryAgain
        BY <2>0, <3>2, <1>t, TryAgainTyped, IdleHasEffect
      <3>3. CASE lane' = lane /\ step' = [Idle EXCEPT !.at = "followup"]
        <4>1. step' = [at |-> "followup", run |-> 1, att |-> 1, was |-> "none"]
          BY <3>3 DEF Idle
        <4> QED
          <5>1. step' \in Steps
            BY <4>1, StepTypes, Smallest DEF Statuses
          <5> QED
            BY <1>l, <2>0, <3>3, <5>1 DEF StepHasEffect
      <3> QED
        BY <1>9, <3>1, <3>2, <3>3 DEF Steer
    <2> QED
      BY <1>9, <1>t, <2>2, <2>3, <2>4, StepTyped
         DEF Tracks, Counts, endVars, Steer, runVars, queueVars, turnVars, TypeOK
  <1>10. CASE FollowUp
    BY <1>10, CommandTyped
  <1>11. CASE Interrupt
    <2>0. lane # << >>
      BY <1>11 DEF Interrupt, At
    <2>1. lane' \in Seq(Effects) /\ step' \in Steps /\ StepHasEffect'
      BY <1>11, <2>0, <1>s, IdleHasEffect DEF Interrupt
    <2>2. asked' \in SUBSET (Runs \X Attempts)
      <3>1. Head(lane).run \in Runs /\ Head(lane).att \in Attempts
        BY <1>t, <2>0, FirstTyped
      <3> QED
        BY <1>11, <1>t, <3>1 DEF Interrupt, TypeOK
    <2> QED
      BY <1>11, <1>t, <2>1, <2>2, StepTyped
         DEF Tracks, Counts, endVars, Interrupt, runVars, queueVars, messageVars, TypeOK
  <1>12. CASE CaptureLoads
    <2>0. lane # << >>
      BY <1>12 DEF CaptureLoads, At
    <2>1. lane' \in Seq(Effects) /\ step' \in Steps /\ StepHasEffect'
      <3>1. CASE Settle
        BY <2>0, <3>1, <1>s, IdleHasEffect
      <3>2. CASE TryAgain
        BY <2>0, <3>2, <1>t, TryAgainTyped, IdleHasEffect
      <3>3. CASE /\ lane' = lane
                 /\ step' = [at |-> "capturing", run |-> Head(lane).run,
                             att |-> attempt[Head(lane).run], was |-> status[Head(lane).run]]
        <4>1. /\ Head(lane).run \in Runs /\ attempt[Head(lane).run] \in Attempts
              /\ status[Head(lane).run] \in Statuses
          BY <1>t, <2>0, FirstTyped DEF TypeOK
        <4> QED
          BY <1>l, <2>0, <3>3, <4>1 DEF Steps, StepHasEffect
      <3> QED
        BY <1>12, <3>1, <3>2, <3>3 DEF CaptureLoads
    <2> QED
      BY <1>12, <1>t, <2>1, StepTyped
      DEF Tracks, Counts, endVars, CaptureLoads, runVars, queueVars, turnVars, messageVars, TypeOK
  <1>13. CASE CaptureCommits
    <2>1. lane' \in Seq(Effects) /\ step' \in Steps /\ StepHasEffect'
      BY <1>13, <1>s, IdleHasEffect DEF CaptureCommits, At
    <2>2. /\ attempt' = [attempt EXCEPT ![step.run] = step.att]
          /\ \E to \in Statuses : status' = [status EXCEPT ![step.run] = to]
          /\ last' \in {last, step.run} /\ notices' = Append(notices, step.run)
      BY <1>13, <1>i DEF CaptureCommits, Statuses, Terminal
    <2>3. /\ attempt' \in [Runs -> Attempts] /\ status' \in [Runs -> Statuses]
          /\ last' \in Runs \cup {0}
      BY <1>t, <1>i, <2>2 DEF TypeOK
    <2>4. notices' \in Seq(Runs)
      BY <1>t, <1>i, <2>2, AppendTyped DEF TypeOK
    <2> QED
      BY <1>13, <1>t, <2>1, <2>3, <2>4, StepTyped
      DEF Tracks, Counts, endVars, CaptureCommits, queueVars, turnVars, messageVars, TypeOK
  <1> QED
    BY <1>1, <1>2, <1>3, <1>4, <1>5, <1>6, <1>7, <1>8, <1>9, <1>10, <1>11, <1>12, <1>13
    DEF Worker

LEMMA IngestionTypes ==
    ASSUME TypeInv, NEW x \in Attempted, Ingestion(x)
    PROVE  TypeInv'
  <1>t. TypeOK
    BY DEF TypeInv
  <1>x. x[1] \in Runs /\ x[2] \in Attempts
    BY DEF Attempted
  <1>1. CASE TurnProjected(x)
    <2>1. turn' \in [Runs \X Attempts -> TurnStages]
      BY <1>1, <1>t DEF TurnProjected, TypeOK, TurnStages
    <2> QED
      BY <1>1, <1>t, <2>1, StepTyped
     
         DEF Tracks, Counts, endVars, TurnProjected, runVars, queueVars, laneVars, messageVars, TypeOK, TypeInv, StepHasEffect
  <1>2. CASE TurnEnds(x)
    <2>1. turn' \in [Runs \X Attempts -> TurnStages] /\ ending' \in [Runs \X Attempts -> Endings]
      BY <1>2, <1>t DEF TurnEnds, TypeOK, TurnStages, Endings
    <2> QED
      BY <1>2, <1>t, <2>1, StepTyped
     
         DEF Tracks, Counts, endVars, TurnEnds, runVars, queueVars, laneVars, messageVars, TypeOK, TypeInv, StepHasEffect
  <1>3. CASE Decide(x)
    <2>1. turn' \in [Runs \X Attempts -> TurnStages]
      BY <1>3, <1>t DEF Decide, TypeOK, TurnStages
    <2> QED
      BY <1>3, <1>t, <2>1, StepTyped
     
         DEF Tracks, Counts, endVars, Decide, runVars, queueVars, laneVars, messageVars, TypeOK, TypeInv, StepHasEffect
  <1>4. CASE Finalize(x)
    <2>1. turn' \in [Runs \X Attempts -> TurnStages] /\ attempt' \in [Runs -> Attempts]
      BY <1>4, <1>t, <1>x DEF Finalize, TypeOK, TurnStages
    <2>2. /\ status' \in [Runs -> Statuses] /\ class' \in [Runs -> Classes]
          /\ last' \in Runs \cup {0} /\ notices' \in Seq(Runs)
      <3>1. CASE status' = [status EXCEPT ![x[1]] = "waiting"] /\ UNCHANGED <<class, last, notices>>
        BY <1>t, <3>1 DEF TypeOK, Statuses, Blocking
      <3>2. CASE \E s \in {"interrupted", "failed"}, c \in {"none", "provider", "limit"} :
                    End(x[1], s, c)
        BY <1>t, <1>x, <3>2, EndTyped DEF Statuses, Terminal, Classes
      <3> QED
        BY <1>4, <3>1, <3>2 DEF Finalize
    <2>3. lane' \in Seq(Effects) /\ (lane' = lane \/ lane' # << >>) /\ captured' \in SUBSET Runs
      <3>1. Effect("capture", x[1], x[2], 0) \in Effects
        BY <1>x, EffectTyped DEF Others
      <3>2. lane \in Seq(Effects) /\ captured \in SUBSET Runs
        BY <1>t DEF TypeOK
      <3>3. \/ UNCHANGED <<lane, captured>>
            \/ /\ lane' = Append(lane, Effect("capture", x[1], x[2], 0))
               /\ captured' = captured \cup {x[1]}
        BY <1>4 DEF Finalize
      <3> QED
        BY <1>x, <3>1, <3>2, <3>3, AppendTyped
    <2>4. step' \in Steps /\ StepHasEffect'
      BY <1>4, <2>3, StillHasEffect DEF Finalize
    <2> QED
      BY <1>4, <1>t, <2>1, <2>2, <2>3, <2>4, StepTyped
         DEF Tracks, Counts, endVars, Finalize, queueVars, messageVars, TypeOK
  <1> QED
    BY <1>1, <1>2, <1>3, <1>4 DEF Ingestion

\* The largest of some runs.
LEMMA LargestRun ==
    ASSUME NEW S \in SUBSET Runs, S # {}
    PROVE  \E r \in S : \A o \in S : o <= r
  <1> DEFINE D == {n \in Nat : (\E r \in S : r >= MaxRuns - n) =>
                                 \E r \in S : \A o \in S : o <= r}
  <1>0. S \subseteq Nat /\ \A o \in S : o <= MaxRuns /\ o >= 1
    BY RunQueueAssumption DEF Runs
  <1>1. 0 \in D
    BY <1>0, RunQueueAssumption
  <1>2. ASSUME NEW n \in Nat, n \in D PROVE n + 1 \in D
    <2>1. CASE \E r \in S : r >= MaxRuns - n
      BY <1>2, <2>1
    <2>2. CASE ~\E r \in S : r >= MaxRuns - n
      <3>1. ASSUME NEW r \in S, r >= MaxRuns - (n + 1) PROVE \A o \in S : o <= r
        BY <1>0, <2>2, <3>1, RunQueueAssumption
      <3> QED
        BY <3>1
    <2> QED
      BY <2>1, <2>2
  <1>3. MaxRuns \in Nat
    BY RunQueueAssumption
  <1>4. MaxRuns \in D
    <2> HIDE DEF D
    <2> QED
      BY <1>1, <1>2, <1>3, NatSets
  <1>5. \E r \in S : r >= MaxRuns - MaxRuns
    <2> PICK r \in S : TRUE
      OBVIOUS
    <2>1. r >= MaxRuns - MaxRuns
      BY <1>0, <1>3
    <2> QED
      BY <2>1
  <1> QED
    BY <1>4, <1>5

LEMMA RestartTypes ==
    ASSUME TypeInv, SteersCarry, ServerRestarts
    PROVE  TypeInv'
  <1>t. TypeOK
    BY DEF TypeInv
  <1>1. status' \in [Runs -> Statuses]
    BY <1>t DEF ServerRestarts, TypeOK, Statuses, Terminal
  <1>2. last' \in Runs \cup {0}
    <2>1. \/ last' = last
          \/ \E S \in SUBSET Runs : S # {} /\ last' = CHOOSE r \in S : \A o \in S : o <= r
      BY DEF ServerRestarts, BlockingRuns
    <2>2. ASSUME NEW S \in SUBSET Runs, S # {}, last' = CHOOSE r \in S : \A o \in S : o <= r
          PROVE  last' \in Runs
      BY <2>2, LargestRun
    <2> QED
      BY <1>t, <2>1, <2>2 DEF TypeOK
  <1>3. lane' \in Seq(Effects)
    BY <1>t, OnlyShape DEF ServerRestarts, TypeOK
  <1>4. forfeit' \in SUBSET Messages
    <2>1. forfeit \in SUBSET Messages /\ lane \in Seq(Effects)
      BY <1>t DEF TypeOK
    <2>2. forfeit' = forfeit \cup {lane[i].msg : i \in {j \in 1 .. Len(lane) : lane[j].kind = "steer"}}
      BY <2>1 DEF ServerRestarts
    <2> QED
      BY <2>1, <2>2 DEF SteersCarry
  <1>5. /\ turn' \in [Runs \X Attempts -> TurnStages]
        /\ ending' \in [Runs \X Attempts -> Endings]
    BY <1>t DEF ServerRestarts, TypeOK, TurnStages, Endings
  <1>6. step' \in Steps /\ StepHasEffect'
    BY IdleHasEffect DEF ServerRestarts
  <1>7. held' \in SUBSET Runs /\ notices' \in Seq(Runs)
    BY DEF ServerRestarts, Queued
  <1>8. plan' \in Plans /\ PlanNames'
    BY NoPlanTyped DEF ServerRestarts, PlanNames, NoPlan
  <1>9. spent' \in Counts
    BY <1>t, SpentTyped DEF ServerRestarts
  <1>10. overtaken' \in SUBSET Runs /\ missed' \in BOOLEAN
    BY <1>t, TracksTyped DEF ServerRestarts, Tracks
  <1> QED
    BY <1>t, <1>1, <1>2, <1>3, <1>4, <1>5, <1>6, <1>7, <1>8, <1>9, <1>10
    DEF ServerRestarts, TypeInv, TypeOK, Counts

-----------------------------------------------------------------------------
(* What becomes of the lane.                                               *)

\* The same effect, perhaps tried more often.
Same(e, f) == e.kind = f.kind /\ e.run = f.run /\ e.att = f.att /\ e.msg = f.msg

\* The lane w is what is left of the entries K of the lane old.
From(w, old, K) ==
    \E f \in [1 .. Len(w) -> K] :
       /\ \A i \in 1 .. Len(w) : Same(w[i], old[f[i]])
       /\ \A i, j \in 1 .. Len(w) : f[i] = f[j] => i = j
       /\ \A k \in K : \E i \in 1 .. Len(w) : f[i] = k

LEMMA FromSame ==
    ASSUME NEW w, NEW old, Len(w) \in Nat, Len(w) = Len(old),
           \A i \in 1 .. Len(w) : Same(w[i], old[i])
    PROVE  From(w, old, 1 .. Len(old))
  <1> DEFINE f == [i \in 1 .. Len(w) |-> i]
  <1>1. f \in [1 .. Len(w) -> 1 .. Len(old)] /\ \A i \in 1 .. Len(w) : f[i] = i
    OBVIOUS
  <1> HIDE DEF f
  <1> QED
    BY <1>1 DEF From

LEMMA FromTail ==
    ASSUME NEW T, NEW old \in Seq(T), old # << >>
    PROVE  From(Tail(old), old, 2 .. Len(old))
  <1> DEFINE f == [i \in 1 .. Len(Tail(old)) |-> i + 1]
  <1>1. Len(Tail(old)) = Len(old) - 1 /\ \A i \in 1 .. Len(old) - 1 : Tail(old)[i] = old[i + 1]
    OBVIOUS
  <1>2. Len(old) \in Nat /\ Len(old) >= 1
    OBVIOUS
  <1>3. /\ f \in [1 .. Len(Tail(old)) -> 2 .. Len(old)]
        /\ \A i \in 1 .. Len(Tail(old)) : f[i] = i + 1
    BY <1>1, <1>2
  <1> HIDE DEF f
  <1>4. \A i \in 1 .. Len(Tail(old)) : Same(Tail(old)[i], old[f[i]])
    BY <1>1, <1>3 DEF Same
  <1>5. \A i, j \in 1 .. Len(Tail(old)) : f[i] = f[j] => i = j
    BY <1>3
  <1>6. ASSUME NEW k \in 2 .. Len(old) PROVE \E i \in 1 .. Len(Tail(old)) : f[i] = k
    <2>1. k - 1 \in 1 .. Len(Tail(old))
      BY <1>1, <1>2
    <2>2. f[k - 1] = k
      BY <1>3, <2>1
    <2> QED
      BY <2>1, <2>2
  <1> QED
    BY <1>3, <1>4, <1>5, <1>6, Zenon DEF From

LEMMA FromOnly ==
    ASSUME NEW T, NEW old \in Seq(T), NEW S
    PROVE  From(Only(old, S), old, {i \in 1 .. Len(old) : old[i] \in S})
  <1> DEFINE w == Only(old, S)
             K == {i \in 1 .. Len(old) : old[i] \in S}
  <1>1. w \in Seq(T) /\ IsPartOf(w, old, Len(old), S)
    BY OnlyShape
  <1> HIDE DEF w
  <1>2. PICK place \in [1 .. Len(w) -> 1 .. Len(old)] :
           /\ \A j \in 1 .. Len(w) : w[j] = old[place[j]] /\ w[j] \in S
           /\ \A j, k \in 1 .. Len(w) : j < k => place[j] < place[k]
           /\ \A i \in 1 .. Len(old) : old[i] \in S => \E j \in 1 .. Len(w) : place[j] = i
    BY <1>1 DEF IsPartOf
  <1>3. place \in [1 .. Len(w) -> K]
    BY <1>2
  <1>4. \A i \in 1 .. Len(w) : Same(w[i], old[place[i]])
    BY <1>2 DEF Same
  <1>5. ASSUME NEW i \in 1 .. Len(w), NEW j \in 1 .. Len(w), place[i] = place[j] PROVE i = j
    <2>1. place[i] \in Int /\ place[j] \in Int
      BY <1>2
    <2> QED
      BY <1>2, <1>5, <2>1
  <1>6. \A k \in K : \E i \in 1 .. Len(w) : place[i] = k
    BY <1>2
  <1>7. From(w, old, K)
    BY <1>3, <1>4, <1>5, <1>6, Zenon DEF From
  <1> QED
    BY <1>7 DEF w

\* An executor that gives its effect back leaves the lane as it is, but for the
\* tries, or without its first effect.
LEMMA FromTryAgain ==
    ASSUME TypeOK, lane # << >>, TryAgain
    PROVE  \/ LastTry /\ From(lane', lane, 2 .. Len(lane))
           \/ ~LastTry /\ From(lane', lane, 1 .. Len(lane))
  <1>1. lane \in Seq(Effects)
    BY DEF TypeOK
  <1>2. CASE LastTry
    BY <1>1, <1>2, FromTail DEF TryAgain, Settle
  <1>3. CASE ~LastTry
    <2>1. lane' = [lane EXCEPT ![1].tries = lane[1].tries + 1]
      BY <1>3 DEF TryAgain
    <2>2. lane' \in Seq(Effects) /\ Len(lane') = Len(lane)
      BY <1>1, <2>1, TryAgainTyped
    <2>3. ASSUME NEW i \in 1 .. Len(lane') PROVE Same(lane'[i], lane[i])
      BY <1>1, <2>1, <2>2, <2>3 DEF Same, Effects, EffectsOf
    <2> QED
      BY <1>3, <2>2, <2>3, FromSame
  <1> QED
    BY <1>2, <1>3

\* The effects of one kind in a lane that loses some entries and may get one.
LEMMA SteersCarryOn ==
    ASSUME SteersCarry, NEW w \in Seq(Effects), NEW K \in SUBSET (1 .. Len(lane)),
           From(w, lane, K),
           \/ lane' = w
           \/ \E e \in Effects : /\ lane' = Append(w, e)
                                 /\ e.kind = "steer" => e.msg \in Messages
    PROVE  SteersCarry'
  <1>1. \A i \in 1 .. Len(w) : w[i].kind = "steer" => w[i].msg \in Messages
    <2>1. PICK f \in [1 .. Len(w) -> K] : \A i \in 1 .. Len(w) : Same(w[i], lane[f[i]])
      BY DEF From
    <2> QED
      BY <2>1 DEF Same, SteersCarry
  <1>2. CASE lane' = w
    BY <1>1, <1>2 DEF SteersCarry
  <1>3. ASSUME NEW e \in Effects, lane' = Append(w, e),
               e.kind = "steer" => e.msg \in Messages
        PROVE  SteersCarry'
    <2>1. /\ Len(lane') = Len(w) + 1 /\ Len(w) \in Nat
          /\ \A i \in 1 .. Len(w) : lane'[i] = w[i]
          /\ lane'[Len(w) + 1] = e
      BY <1>3, AppendEntries
    <2>2. \A i \in 1 .. Len(lane') : i \in 1 .. Len(w) \/ i = Len(w) + 1
      BY <2>1
    <2> QED
      BY <1>1, <1>3, <2>1, <2>2 DEF SteersCarry
  <1> QED
    BY <1>2, <1>3

-----------------------------------------------------------------------------
(* Whatever starts a turn has a message to give.                           *)

MessagePlans == {"queue", "begin", "prepare", "steer", "restart"}

Addressed ==
    /\ \A r \in Runs : IF status[r] = "none" THEN attempt[r] = 1 ELSE prompt[Current(r)] # 0
    /\ \A x \in Attempted : turn[x] # "none" => prompt[x] # 0
    /\ step.at \in {"opening", "opened", "cleared", "capturing"} =>
          prompt[<<step.run, step.att>>] # 0
    /\ plan.kind \in MessagePlans => plan.msg \in Messages
    /\ (plan.kind \in {"steer", "restart"} /\ plan.from # 0) =>
          plan.from \in Runs /\ status[plan.from] # "none"
    /\ plan.kind \in {"cancel", "launch"} => status[plan.run] # "none"
    /\ SteersCarry

\* Steps that give no attempt a message.
LEMMA AddressedStays ==
    ASSUME TypeInv, HInv, Addressed, SteersCarry', prompt' = prompt,
           \A r \in Runs : /\ status'[r] = "none" <=> status[r] = "none"
                           /\ \/ attempt'[r] = attempt[r]
                              \/ status[r] # "none" /\ prompt[<<r, attempt'[r]>>] # 0,
           \A x \in Attempted : turn'[x] # "none" => (turn[x] # "none" \/ prompt[x] # 0),
           \/ step' = Idle
           \/ step'.at \in {"awaiting", "followup"}
           \/ step' = step
           \/ step'.run = step.run /\ step'.att = step.att /\ step.at \in {"opening", "opened"}
           \/ status[step'.run] # "none" /\ step'.run \in Runs /\ step'.att = attempt[step'.run],
           plan' = plan \/ plan'.kind \notin MessagePlans \cup {"cancel", "launch"}
    PROVE  Addressed'
  <1> USE DEF MessagePlans
  <1>1. \A r \in Runs : IF status'[r] = "none" THEN attempt'[r] = 1
                        ELSE prompt'[<<r, attempt'[r]>>] # 0
    BY DEF Addressed, Current
  <1>2. step'.at \in {"opening", "opened", "cleared", "capturing"} =>
          prompt'[<<step'.run, step'.att>>] # 0
    BY DEF Addressed, Current, Idle
  <1>3. plan'.kind \in {"cancel", "launch"} => status'[plan'.run] # "none"
    <2>1. plan.kind \in {"cancel", "launch"} => plan.run \in Runs
      BY DEF TypeInv, PlanNames
    <2> QED
      BY <2>1 DEF Addressed
  <1>4. plan'.kind \in {"steer", "restart"} /\ plan'.from # 0 =>
          plan'.from \in Runs /\ status'[plan'.from] # "none"
    BY DEF Addressed
  <1> QED
    BY <1>1, <1>2, <1>3, <1>4 DEF Addressed, Current

LEMMA CommandAddressed ==
    ASSUME TypeInv, HInv, Addressed,
           SendFresh \/ SendJoining \/ Stop \/ Edit \/ Prepared \/ FollowUp
    PROVE  Addressed'
  <1>1. Reads
    BY DEF SendFresh, SendJoining, Stop, Edit, Prepared, FollowUp
  <1>3. plan'.from # 0 => plan'.from \in Runs /\ status[plan'.from] # "none"
    <2>1. CASE SendFresh \/ Stop \/ Edit \/ Prepared \/ FollowUp
      BY <2>1 DEF SendFresh, Stop, Edit, Prepared, FollowUp, FreshPlan, NoPlan
    <2>2. CASE SendJoining
      <3>1. plan'.from = 0 \/ plan'.from \in Queued
        BY <2>2 DEF SendJoining, JoinPlan, NoPlan
      <3> QED
        BY <3>1 DEF Queued
    <2> QED
      BY <2>1, <2>2
  <1>4. plan'.kind \in {"cancel", "launch"} => status[plan'.run] # "none"
    BY DEF SendFresh, SendJoining, JoinPlan, Stop, Edit, Prepared, FollowUp, FreshPlan, NoPlan,
       Queued
  <1>2. plan'.kind \in MessagePlans => plan'.msg \in Messages
    <2>1. CASE SendFresh
      BY <2>1 DEF SendFresh, FreshPlan, NoPlan
    <2>2. CASE SendJoining
      <3>1. \A o \in Queued : prompt[Current(o)] \in Messages
        <4>1. ASSUME NEW o \in Queued PROVE prompt[Current(o)] \in Messages \cup {0}
          BY DEF Queued, Current, TypeInv, TypeOK
        <4> QED
          BY <4>1 DEF Addressed, Queued
      <3>2. PICK r \in Runs :
              \/ /\ NextMessage \in Messages
                 /\ \E mode \in Modes[NextMessage] \cap {"steer", "restart"} :
                       plan' = JoinPlan(r, NextMessage, mode = "restart", 0)
              \/ \E q \in Queued : plan' = JoinPlan(r, prompt[Current(q)], FALSE, q)
        BY <2>2 DEF SendJoining
      <3>3. \/ NextMessage \in Messages /\ plan'.msg = NextMessage
            \/ \E q \in Queued : plan'.msg = prompt[Current(q)]
        BY <3>2 DEF JoinPlan, NoPlan
      <3> QED
        BY <3>1, <3>3
    <2>3. CASE Stop
      BY <2>3 DEF Stop, NoPlan, MessagePlans
    <2>4. CASE Edit
      BY <2>4 DEF Edit, NoPlan, MessagePlans
    <2>5. CASE Prepared
      BY <2>5 DEF Prepared, NoPlan, MessagePlans
    <2>6. CASE FollowUp
      <3>1. /\ plan' = FreshPlan(Head(lane).msg, "begin")
            /\ lane # << >> /\ Head(lane).kind = "steer"
        BY <2>6 DEF FollowUp, At
      <3>2. lane \in Seq(Effects) /\ Head(lane) = lane[1] /\ 1 \in 1 .. Len(lane)
        BY <3>1 DEF TypeInv, TypeOK
      <3> QED
        BY <3>1, <3>2 DEF FreshPlan, NoPlan, Addressed, SteersCarry
    <2> QED
      BY <2>1, <2>2, <2>3, <2>4, <2>5, <2>6
  <1> QED
    BY <1>1, <1>2, <1>3, <1>4
       DEF Addressed, Reads, runVars, turnVars, laneVars, Current, SteersCarry

\* The lane after a dispatch that may settle the steer effect it came from.
LEMMA FollowUpFrom ==
    ASSUME TypeInv
    PROVE  /\ SettleFollowUp.lane \in Seq(Effects)
           /\ \/ From(SettleFollowUp.lane, lane, 1 .. Len(lane))
              \/ lane # << >> /\ From(SettleFollowUp.lane, lane, 2 .. Len(lane))
  <1>1. lane \in Seq(Effects)
    BY DEF TypeInv, TypeOK
  <1>2. CASE SettleFollowUp.lane = lane
    BY <1>1, <1>2, FromSame DEF Same
  <1>3. CASE lane # << >> /\ SettleFollowUp.lane = Tail(lane)
    BY <1>1, <1>3, FromTail
  <1>4. SettleFollowUp.lane = lane \/ (lane # << >> /\ SettleFollowUp.lane = Tail(lane))
    BY DEF SettleFollowUp, TypeInv, StepHasEffect
  <1> QED
    BY <1>2, <1>3, <1>4, FollowUpTyped

LEMMA BeginLane ==
    ASSUME TypeInv, CommitBegin
    PROVE  \/ lane' = SettleFollowUp.lane
           \/ /\ plan.kind = "begin"
              /\ lane' = Append(SettleFollowUp.lane, Effect("start", plan.run, 1, 0))
  <1> DEFINE w == SettleFollowUp.lane
             e == Effect("start", plan.run, 1, 0)
  <1>1. w \in Seq(Effects)
    BY FollowUpTyped
  <1>2. plan.run \in Runs
    BY DEF CommitBegin, Committing, TypeInv, PlanNames
  <1>3. e \in Effects
    BY <1>2, EffectTyped, Smallest DEF Starts
  <1>4. lane' = w \o IF plan.kind = "begin" THEN <<e>> ELSE << >>
    BY DEF CommitBegin
  <1> HIDE DEF w, e
  <1>5. w \o <<e>> = Append(w, e) /\ w \o << >> = w
    BY <1>1, <1>3, AppendEntries
  <1>6. lane' = w \/ (plan.kind = "begin" /\ lane' = Append(w, e))
    BY <1>4, <1>5
  <1> QED
    BY <1>6 DEF w, e

LEMMA CommitAddressed ==
    ASSUME TypeInv, HInv, Addressed, Commit
    PROVE  Addressed'
  <1> USE DEF Committing
  <1>t. TypeOK /\ PlanNames /\ Types /\ PlanHolds /\ StepHolds /\ SteersCarry
    BY DEF TypeInv, HInv, Addressed
  <1>l. /\ lane \in Seq(Effects) /\ prompt \in [Attempted -> Messages \cup {0}]
        /\ status \in [Runs -> Statuses] /\ attempt \in [Runs -> Attempts]
    BY <1>t DEF TypeOK, Attempted
  <1>c. \A r \in Runs : Current(r) \in Attempted
    BY <1>l DEF Current, Attempted
  <1>k. From(lane, lane, 1 .. Len(lane))
    BY <1>l, FromSame DEF Same
  \* A commit that writes the message of its plan as the prompt of one attempt.
  <1>w. ASSUME NEW x \in Attempted, x[1] = plan.run, plan.msg \in Messages,
               prompt' = [prompt EXCEPT ![x] = plan.msg],
               status' \in [Runs -> Statuses], status'[plan.run] # "none",
               \A r \in Runs : r # plan.run => (status'[r] = "none" <=> status[r] = "none"),
               attempt' = [attempt EXCEPT ![plan.run] = x[2]],
               turn' = turn, step' = Idle \/ step' = step, plan' = NoPlan, SteersCarry'
        PROVE  Addressed'
    <2>1. \A y \in Attempted : prompt[y] # 0 => prompt'[y] # 0
      BY <1>l, <1>w, Smallest
    <2>2. x = <<plan.run, x[2]>> /\ prompt'[x] # 0 /\ plan.run \in Runs
      BY <1>l, <1>w, Smallest DEF Attempted
    <2>3. ASSUME NEW r \in Runs
          PROVE  IF status'[r] = "none" THEN attempt'[r] = 1 ELSE prompt'[<<r, attempt'[r]>>] # 0
      <3>1. CASE r = plan.run
        BY <1>l, <1>w, <2>2, <3>1
      <3>2. CASE r # plan.run
        <4>1. attempt'[r] = attempt[r]
          BY <1>l, <1>w, <3>2
        <4>2. Current(r) = <<r, attempt[r]>> /\ Current(r) \in Attempted
          BY <1>c DEF Current
        <4> QED
          BY <1>w, <2>1, <3>2, <4>1, <4>2 DEF Addressed
      <3> QED
        BY <3>1, <3>2
    <2>4. step'.at \in {"opening", "opened", "cleared", "capturing"} =>
             prompt'[<<step'.run, step'.att>>] # 0
      <3>1. <<step.run, step.att>> \in Attempted
        BY <1>t DEF TypeOK, Steps, Attempted
      <3> QED
        BY <1>w, <2>1, <3>1 DEF Addressed, Idle
    <2>5. \A y \in Attempted : turn'[y] # "none" => prompt'[y] # 0
      BY <1>w, <2>1 DEF Addressed
    <2> QED
      BY <1>w, <2>3, <2>4, <2>5 DEF Addressed, Current, NoPlan, MessagePlans
  <1>1. CASE ReadQueue
    <2>1. UNCHANGED <<runVars, turnVars, laneVars>>
      BY <1>1 DEF ReadQueue
    <2>2. PICK kind, r :
            /\ plan' = [kind |-> kind, run |-> r, att |-> 0, msg |-> 0, hold |-> FALSE, from |-> 0]
            /\ kind \in {"none", "hold", "launch"}
            /\ kind = "launch" => status[r] # "none"
      BY <1>1 DEF ReadQueue, NoPlan, Queued
    <2>3. /\ plan'.kind \in {"none", "hold", "launch"}
          /\ plan'.kind = "launch" => status[plan'.run] # "none"
      BY <2>2
    <2> QED
      BY <2>1, <2>3 DEF Addressed, MessagePlans, runVars, turnVars, laneVars, Current, SteersCarry
  <1>2. CASE CommitQueue
    <2>1. plan.run \in Runs /\ status[plan.run] = "none" /\ plan.msg \in Messages
      BY <1>2, <1>t DEF CommitQueue, PlanHolds, Fresh, Addressed, MessagePlans
    <2>2. attempt[plan.run] = 1
      BY <2>1 DEF Addressed
    <2>3. SteersCarry'
      BY <1>2, <1>t, FollowUpFrom, SteersCarryOn DEF CommitQueue
    <2>4. attempt' = [attempt EXCEPT ![plan.run] = 1]
      BY <1>2, <1>l, <2>2 DEF CommitQueue
    <2>5. status' \in [Runs -> Statuses] /\ status' = [status EXCEPT ![plan.run] = "queued"]
      BY <1>2, <1>l DEF CommitQueue, Statuses
    <2>6. <<plan.run, 1>> \in Attempted
      BY <2>1, Smallest DEF Attempted
    <2> QED
      BY <1>2, <1>l, <2>1, <2>3, <2>4, <2>5, <2>6, <1>w, FollowUpTyped DEF CommitQueue, turnVars
  <1>3. CASE CommitBegin
    <2>1. plan.run \in Runs /\ status[plan.run] = "none" /\ plan.msg \in Messages
      BY <1>3, <1>t DEF CommitBegin, PlanHolds, Fresh, Addressed, MessagePlans
    <2>2. attempt[plan.run] = 1
      BY <2>1 DEF Addressed
    <2>3. SteersCarry'
      <3>1. Effect("start", plan.run, 1, 0) \in Effects
        BY <2>1, EffectTyped, Smallest DEF Starts
      <3>2. \/ lane' = SettleFollowUp.lane
            \/ lane' = Append(SettleFollowUp.lane, Effect("start", plan.run, 1, 0))
        BY <1>3, BeginLane
      <3>3. Effect("start", plan.run, 1, 0).kind = "start"
        BY DEF Effect
      <3> QED
        BY <1>t, <3>1, <3>2, <3>3, FollowUpFrom, SteersCarryOn
    <2>4. attempt' = [attempt EXCEPT ![plan.run] = 1]
      BY <1>3, <1>l, <2>2 DEF CommitBegin
    <2>5. /\ status' \in [Runs -> Statuses]
          /\ \E to \in {"starting", "preparing"} : status' = [status EXCEPT ![plan.run] = to]
      BY <1>3, <1>l DEF CommitBegin, Statuses, Blocking
    <2>6. <<plan.run, 1>> \in Attempted
      BY <2>1, Smallest DEF Attempted
    <2> QED
      BY <1>3, <1>l, <2>1, <2>3, <2>4, <2>5, <2>6, <1>w, FollowUpTyped DEF CommitBegin, turnVars
  <1>4. CASE CommitJoin
    <2>1. /\ plan.run \in Runs /\ status[plan.run] # "none" /\ plan.msg \in Messages
          /\ plan.att \in Attempts /\ NextAttempt(plan.run) \in Attempts
      BY <1>4, <1>t DEF CommitJoin, PlanHolds, PlanNames, Started, Addressed, MessagePlans
    <2>2. /\ Effect("steer", plan.run, plan.att, plan.msg) \in Effects
          /\ Effect("restart", plan.run, plan.att, 0) \in Effects
          /\ Effect("steer", plan.run, plan.att, plan.msg).msg = plan.msg
          /\ Effect("restart", plan.run, plan.att, 0).kind = "restart"
      BY <2>1, EffectTyped DEF Starts, Others, Effect
    <2>3. SteersCarry'
      <3>1. \/ lane' = Append(lane, Effect("steer", plan.run, plan.att, plan.msg))
            \/ lane' = Append(lane, Effect("restart", plan.run, plan.att, 0))
        BY <1>4 DEF CommitJoin
      <3> QED
        BY <1>t, <1>l, <1>k, <2>1, <2>2, <3>1, SteersCarryOn
    <2>4. \A r \in Runs : LeaveQueue(status, plan.from)[r] \in {status[r], "cancelled"}
      BY <1>l DEF LeaveQueue
    <2>5. \A r \in Runs : LeaveQueue(status, plan.from)[r] = "none" <=> status[r] = "none"
      <3>1. plan.from # 0 => plan.from \in Runs /\ status[plan.from] # "none"
        BY <1>4 DEF CommitJoin, Addressed
      <3> QED
        BY <1>l, <2>4, <3>1 DEF LeaveQueue
    <2>6. LeaveQueue(status, plan.from) \in [Runs -> Statuses]
      BY <1>l DEF LeaveQueue, Statuses, Terminal
    <2>7. CASE plan.kind = "steer"
      <3>1. /\ status' = LeaveQueue(status, plan.from) /\ UNCHANGED <<attempt, prompt, turn, step>>
            /\ plan' = NoPlan
        BY <1>4, <2>7 DEF CommitJoin, turnVars
      <3>2. \A r \in Runs : status'[r] = "none" <=> status[r] = "none"
        BY <2>5, <3>1
      <3> QED
        BY <2>3, <3>1, <3>2, AddressedStays DEF NoPlan, MessagePlans
    <2>8. CASE plan.kind = "restart"
      <3> DEFINE next == NextAttempt(plan.run)
      <3>1. /\ status' = [LeaveQueue(status, plan.from) EXCEPT ![plan.run] = "starting"]
            /\ attempt' = [attempt EXCEPT ![plan.run] = next]
            /\ prompt' = [prompt EXCEPT ![<<plan.run, next>>] = plan.msg]
            /\ UNCHANGED <<turn, step>> /\ plan' = NoPlan
        BY <1>4, <2>8 DEF CommitJoin, turnVars
      <3>2. <<plan.run, next>> \in Attempted
        BY <2>1 DEF Attempted
      <3> HIDE DEF next
      <3>3. /\ status' \in [Runs -> Statuses] /\ status'[plan.run] # "none"
            /\ \A r \in Runs : r # plan.run => (status'[r] = "none" <=> status[r] = "none")
        BY <2>1, <2>5, <2>6, <3>1 DEF Statuses, Blocking
      <3> QED
        BY <2>1, <2>3, <3>1, <3>2, <3>3, <1>w
    <2> QED
      BY <1>4, <2>7, <2>8 DEF CommitJoin
  <1>5. CASE CommitStop
    <2>1. /\ plan.run \in Runs /\ status[plan.run] # "none"
          /\ status' = [status EXCEPT ![plan.run] = "interrupted"]
          /\ UNCHANGED <<attempt, prompt>> /\ plan' = NoPlan /\ step' \in {step, Idle}
      BY <1>5, <1>t DEF CommitStop, End, PlanHolds, Started
    <2>2. SteersCarry'
      <3>1. lane' = Only(lane, EffectsOf(Others)) /\ lane' \in Seq(Effects)
        BY <1>5, <1>l, OnlyShape DEF CommitStop
      <3> QED
        BY <1>t, <1>l, <3>1, FromOnly, SteersCarryOn
    <2>3. \/ turn' = turn
          \/ step.at = "cleared" /\ turn' = [turn EXCEPT ![<<step.run, step.att>>] = "begun"]
      BY <1>5 DEF CommitStop
    <2>4. \A x \in Attempted : turn'[x] # "none" => (turn[x] # "none" \/ prompt[x] # 0)
      BY <1>t, <2>3 DEF TypeOK, Attempted, Addressed
    <2>5. \A r \in Runs : status'[r] = "none" <=> status[r] = "none"
      BY <1>l, <2>1
    <2> QED
      BY <2>1, <2>2, <2>4, <2>5, AddressedStays DEF NoPlan, MessagePlans
  <1>6. CASE CommitInterrupt
    <2>1. plan.run \in Runs /\ plan.att \in Attempts
      BY <1>6, <1>t DEF CommitInterrupt, PlanNames
    <2>2. Effect("interrupt", plan.run, plan.att, 0) \in Effects /\
          Effect("interrupt", plan.run, plan.att, 0).kind = "interrupt"
      BY <2>1, EffectTyped DEF Others, Effect
    <2>3. SteersCarry'
      BY <1>6, <1>t, <1>l, <1>k, <2>2, SteersCarryOn DEF CommitInterrupt
    <2>4. UNCHANGED <<status, attempt, prompt, turn, step>> /\ plan' = NoPlan
      BY <1>6 DEF CommitInterrupt, runVars, turnVars
    <2> QED
      BY <2>3, <2>4, AddressedStays DEF NoPlan, MessagePlans
  <1>7. CASE CommitResume \/ CommitReorder \/ CommitHold
    <2>1. /\ UNCHANGED <<status, attempt, prompt, turn, step, lane>>
          /\ plan'.kind \in {"none", "advance"}
      BY <1>7 DEF CommitResume, CommitReorder, CommitHold, runVars, turnVars, laneVars, NoPlan
    <2>2. SteersCarry'
      BY <1>t, <2>1 DEF SteersCarry
    <2> QED
      BY <2>1, <2>2, AddressedStays DEF MessagePlans
  \* Commits that move a run that has been sent, and may append a start.
  <1>m. ASSUME plan.run \in Runs, status[plan.run] # "none",
               \E to \in Statuses \ {"none"} : status' = [status EXCEPT ![plan.run] = to],
               lane' = lane \/ lane' = Append(lane, Effect("start", plan.run, 1, 0)),
               UNCHANGED <<attempt, prompt, turn, step>>, plan' = NoPlan
        PROVE  Addressed'
    <2>1. Effect("start", plan.run, 1, 0) \in Effects /\
          Effect("start", plan.run, 1, 0).kind = "start"
      BY <1>m, EffectTyped, Smallest DEF Starts, Effect
    <2>2. SteersCarry'
      BY <1>m, <1>t, <1>l, <1>k, <2>1, SteersCarryOn
    <2>3. \A r \in Runs : status'[r] = "none" <=> status[r] = "none"
      BY <1>m, <1>l
    <2> QED
      BY <1>m, <2>2, <2>3, AddressedStays DEF NoPlan, MessagePlans
  <1>8. CASE CommitCancel
    <2>1. plan.run \in Runs /\ status[plan.run] # "none"
      BY <1>8, <1>t DEF CommitCancel, PlanNames, Addressed
    <2>2. /\ status' = [status EXCEPT ![plan.run] = "cancelled"]
          /\ UNCHANGED <<attempt, prompt, turn, step, lane>> /\ plan' = NoPlan
      BY <1>8 DEF CommitCancel, turnVars, laneVars
    <2> QED
      BY <2>1, <2>2, <1>m DEF Statuses, Terminal
  <1>9. CASE CommitPrepared
    <2>1. plan.run \in Runs /\ status[plan.run] # "none"
      BY <1>9, <1>t DEF CommitPrepared, PlanHolds, Started
    <2>2. /\ \E to \in {"starting", "failed", "preparing"} :
               status' = [status EXCEPT ![plan.run] = to]
          /\ lane' = lane \/ lane' = Append(lane, Effect("start", plan.run, 1, 0))
          /\ UNCHANGED <<attempt, prompt, turn, step>> /\ plan' = NoPlan
      BY <1>9 DEF CommitPrepared, End, turnVars
    <2> QED
      BY <2>1, <2>2, <1>m DEF Statuses, Blocking, Terminal
  <1>10. CASE CommitLaunch
    <2>1. plan.run \in Runs /\ status[plan.run] # "none"
      BY <1>10, <1>t DEF CommitLaunch, PlanNames, Addressed
    <2>2. /\ \E to \in {"starting", "failed"} : status' = [status EXCEPT ![plan.run] = to]
          /\ lane' = lane \/ lane' = Append(lane, Effect("start", plan.run, 1, 0))
          /\ UNCHANGED <<attempt, prompt, turn, step>> /\ plan' = NoPlan
      BY <1>10 DEF CommitLaunch, End, turnVars
    <2> QED
      BY <2>1, <2>2, <1>m DEF Statuses, Blocking, Terminal
  <1> QED
    BY <1>1, <1>2, <1>3, <1>4, <1>5, <1>6, <1>7, <1>8, <1>9, <1>10 DEF Commit

\* The lane after a step of the executor: as it is, or without its first effect.
LEMMA WorkerLane ==
    ASSUME TypeOK, Worker
    PROVE  /\ lane' \in Seq(Effects)
           /\ \/ From(lane', lane, 1 .. Len(lane))
              \/ lane # << >> /\ From(lane', lane, 2 .. Len(lane))
  <1>1. lane \in Seq(Effects)
    BY DEF TypeOK
  <1>2. CASE UNCHANGED lane
    BY <1>1, <1>2, FromSame DEF Same
  <1>3. CASE lane # << >> /\ Settle
    BY <1>1, <1>3, FromTail DEF Settle
  <1>4. CASE lane # << >> /\ TryAgain
    BY <1>4, FromTryAgain, TryAgainTyped
  <1>5. UNCHANGED lane \/ (lane # << >> /\ (Settle \/ TryAgain))
    <2>1. CASE StartLoads \/ RestartInterrupts \/ RestartTimesOut \/ SessionOpens
      BY <2>1 DEF StartLoads, LoadRun, RestartInterrupts, RestartTimesOut, SessionOpens, At
    <2>2. CASE SessionFails \/ TurnClears \/ TurnBegins \/ TurnRefused \/ StartFails
      BY <2>2 DEF SessionFails, TurnClears, TurnBegins, TurnRefused, StartFails, At
    <2>3. CASE Steer \/ Interrupt \/ CaptureCommits
      BY <2>3 DEF Steer, Interrupt, CaptureCommits, At
    <2>4. CASE FollowUp \/ CaptureLoads \/ CaptureFails
      BY <2>4 DEF FollowUp, Reads, laneVars, CaptureLoads, CaptureFails, At
    <2> QED
      BY <2>1, <2>2, <2>3, <2>4 DEF Worker
  <1> QED
    BY <1>2, <1>3, <1>4, <1>5

LEMMA WorkerAddressed ==
    ASSUME TypeInv, HInv, Addressed, Worker
    PROVE  Addressed'
  <1>t. TypeOK /\ Types /\ StepHolds /\ SteersCarry
    BY DEF TypeInv, HInv, Addressed
  <1>l. /\ lane \in Seq(Effects) /\ status \in [Runs -> Statuses] /\ attempt \in [Runs -> Attempts]
        /\ step.run \in Runs /\ step.att \in Attempts
    BY <1>t DEF TypeOK, Steps
  <1>s. SteersCarry'
    BY <1>t, WorkerLane, SteersCarryOn
  \* A step that leaves the runs alone but for the status of one that has started.
  <1>k. ASSUME UNCHANGED <<prompt, attempt, turn, plan>>,
               status' = status \/ \E to \in Statuses \ {"none"} :
                                      status' = [status EXCEPT ![step.run] = to],
               status' # status => status[step.run] # "none",
               \/ step' = Idle
               \/ step'.at \in {"awaiting", "followup"}
               \/ step' = step
               \/ step'.run = step.run /\ step'.att = step.att /\ step.at \in {"opening", "opened"}
               \/ status[step'.run] # "none" /\ step'.run \in Runs /\ step'.att = attempt[step'.run]
        PROVE  Addressed'
    <2>1. \A r \in Runs : status'[r] = "none" <=> status[r] = "none"
      BY <1>k, <1>l
    <2> QED
      BY <1>k, <1>s, <2>1, AddressedStays
  <1>1. CASE StartLoads
    <2>1. UNCHANGED <<prompt, attempt, turn, plan, status>>
      BY <1>1 DEF StartLoads, runVars, turnVars
    <2>2. Head(lane).run \in Runs
      BY <1>1, <1>t, FirstTyped DEF StartLoads, At
    <2>3. \/ step' = Idle
          \/ status[step'.run] # "none" /\ step'.run \in Runs /\ step'.att = attempt[step'.run]
      BY <1>1, <2>2 DEF StartLoads, LoadRun, Settle
    <2> QED
      BY <2>1, <2>3, <1>k
  <1>2. CASE RestartInterrupts
    <2>1. UNCHANGED <<prompt, attempt, turn, plan, status>> /\ step'.at = "awaiting"
      BY <1>2 DEF RestartInterrupts, runVars, Idle
    <2> QED
      BY <2>1, <1>k
  <1>3. CASE RestartTimesOut \/ StartFails \/ CaptureFails
    <2>1. UNCHANGED <<prompt, attempt, turn, plan, status>> /\ step' = Idle
      BY <1>3, <1>t, TryAgainTyped DEF RestartTimesOut, StartFails, CaptureFails, runVars, turnVars,
         At
    <2> QED
      BY <2>1, <1>k
  <1>4. CASE SessionOpens
    <2>1. UNCHANGED <<prompt, attempt, turn, plan>> /\ step.at = "opening"
      BY <1>4 DEF SessionOpens, turnVars, At
    <2>2. \/ status' = status
          \/ status[step.run] = "starting" /\ status' = [status EXCEPT ![step.run] = "running"]
      BY <1>4 DEF SessionOpens, IsCurrent
    <2>3. step' = Idle \/ (step'.run = step.run /\ step'.att = step.att)
      BY <1>4, <1>t DEF SessionOpens, Settle, TypeOK, Steps
    <2> QED
      BY <2>1, <2>2, <2>3, <1>k DEF Statuses, Blocking
  <1>5. CASE SessionFails
    <2>1. UNCHANGED <<prompt, attempt, turn, plan>> /\ step' = Idle
      BY <1>5, <1>t, TryAgainTyped DEF SessionFails, turnVars, At
    <2>2. \/ status' = status
          \/ status[step.run] = "starting" /\ status' = [status EXCEPT ![step.run] = "failed"]
      BY <1>5 DEF SessionFails, IsCurrent, End
    <2> QED
      BY <2>1, <2>2, <1>k DEF Statuses, Terminal
  <1>6. CASE TurnClears
    <2>1. UNCHANGED <<prompt, attempt, turn, plan, status>> /\ step.at = "opened"
      BY <1>6 DEF TurnClears, turnVars, runVars, At
    <2>2. step' = Idle \/ (step'.run = step.run /\ step'.att = step.att)
      BY <1>6, <1>t DEF TurnClears, Settle, TypeOK, Steps
    <2> QED
      BY <2>1, <2>2, <1>k
  <1>7. CASE TurnBegins
    <2>1. /\ UNCHANGED <<prompt, attempt, plan, status>> /\ step.at = "cleared" /\ step' = Idle
          /\ turn' = [turn EXCEPT ![<<step.run, step.att>>] = "begun"]
      BY <1>7 DEF TurnBegins, runVars, At, Settle
    <2>2. \A x \in Attempted : turn'[x] # "none" => (turn[x] # "none" \/ prompt[x] # 0)
      BY <1>t, <2>1 DEF TypeOK, Attempted, Addressed
    <2> QED
      BY <1>s, <2>1, <2>2, AddressedStays
  <1>8. CASE TurnRefused
    <2>1. UNCHANGED <<prompt, attempt, turn, plan>> /\ step' = Idle
      BY <1>8 DEF TurnRefused, turnVars, Settle
    <2>2. \/ status' = status
          \/ status[step.run] = "running" /\ status' = [status EXCEPT ![step.run] = "failed"]
      BY <1>8 DEF TurnRefused, IsCurrent, End
    <2> QED
      BY <2>1, <2>2, <1>k DEF Statuses, Terminal
  <1>9. CASE Steer
    <2>1. UNCHANGED <<prompt, attempt, turn, plan, status>>
      BY <1>9 DEF Steer, turnVars, runVars
    <2>2. step' = Idle \/ step'.at = "followup"
      BY <1>9, <1>t, TryAgainTyped DEF Steer, At, Settle, Idle
    <2> QED
      BY <2>1, <2>2, <1>k
  <1>10. CASE FollowUp
    BY <1>10, CommandAddressed
  <1>11. CASE Interrupt
    <2>1. UNCHANGED <<prompt, attempt, turn, plan, status>> /\ step' = Idle
      BY <1>11 DEF Interrupt, runVars, Settle
    <2> QED
      BY <2>1, <1>k
  <1>12. CASE CaptureLoads
    <2>1. UNCHANGED <<prompt, attempt, turn, plan, status>>
      BY <1>12 DEF CaptureLoads, runVars, turnVars
    <2>2. Head(lane).run \in Runs
      BY <1>12, <1>t, FirstTyped DEF CaptureLoads, At
    <2>3. \/ step' = Idle
          \/ status[step'.run] # "none" /\ step'.run \in Runs /\ step'.att = attempt[step'.run]
      BY <1>12, <1>t, <2>2, TryAgainTyped DEF CaptureLoads, At, Settle
    <2> QED
      BY <2>1, <2>3, <1>k
  <1>13. CASE CaptureCommits
    <2>1. /\ UNCHANGED <<prompt, turn, plan>> /\ step.at = "capturing" /\ step' = Idle
          /\ attempt' = [attempt EXCEPT ![step.run] = step.att]
          /\ status' = [status EXCEPT ![step.run] =
                          IF step.was = "waiting" THEN "completed" ELSE step.was]
      BY <1>13 DEF CaptureCommits, turnVars, At, Settle
    <2>2. /\ status[step.run] # "none" /\ step.was \in {"waiting", "interrupted", "cancelled"}
          /\ prompt[<<step.run, step.att>>] # 0
      BY <1>t, <1>l, <2>1 DEF StepHolds, Started, Addressed
    <2>3. \A r \in Runs : status'[r] = "none" <=> status[r] = "none"
      BY <1>l, <2>1, <2>2
    <2>4. \A r \in Runs : \/ attempt'[r] = attempt[r]
                          \/ status[r] # "none" /\ prompt[<<r, attempt'[r]>>] # 0
      BY <1>l, <2>1, <2>2
    <2> QED
      BY <1>s, <2>1, <2>3, <2>4, AddressedStays
  <1> QED
    BY <1>1, <1>2, <1>3, <1>4, <1>5, <1>6, <1>7, <1>8, <1>9, <1>10, <1>11, <1>12, <1>13 DEF Worker

LEMMA IngestionAddressed ==
    ASSUME TypeInv, HInv, Addressed, NEW x \in Attempted, Ingestion(x)
    PROVE  Addressed'
  <1>t. TypeOK /\ TurnHolds /\ SteersCarry
    BY DEF TypeInv, HInv, Addressed
  <1>x. x[1] \in Runs /\ x[2] \in Attempts /\ x = <<x[1], x[2]>>
    BY DEF Attempted
  <1>l. /\ lane \in Seq(Effects) /\ status \in [Runs -> Statuses] /\ attempt \in [Runs -> Attempts]
        /\ turn \in [Attempted -> TurnStages]
    BY <1>t DEF TypeOK, Attempted
  <1>1. /\ UNCHANGED <<prompt, step, plan>> /\ turn[x] # "none"
        /\ \E to \in TurnStages : turn' = [turn EXCEPT ![x] = to]
    BY DEF Ingestion, TurnProjected, TurnEnds, Decide, Finalize, TurnStages, runVars, laneVars
  <1>2. \A y \in Attempted : turn'[y] # "none" => (turn[y] # "none" \/ prompt[y] # 0)
    BY <1>1, <1>l
  <1>3. SteersCarry'
    <2>1. Effect("capture", x[1], x[2], 0) \in Effects
          /\ Effect("capture", x[1], x[2], 0).kind = "capture"
      BY <1>x, EffectTyped DEF Others, Effect
    <2>2. lane' = lane \/ lane' = Append(lane, Effect("capture", x[1], x[2], 0))
      BY DEF Ingestion, TurnProjected, TurnEnds, Decide, Finalize, laneVars
    <2>3. From(lane, lane, 1 .. Len(lane))
      BY <1>l, FromSame DEF Same
    <2> QED
      BY <1>t, <1>l, <2>1, <2>2, <2>3, SteersCarryOn
  <1>4. \/ UNCHANGED <<status, attempt>>
        \/ /\ attempt' = [attempt EXCEPT ![x[1]] = x[2]]
           /\ \E to \in {"waiting", "interrupted", "failed"} : status' = [status EXCEPT ![x[1]] = to]
    BY DEF Ingestion, TurnProjected, TurnEnds, Decide, Finalize, runVars, End
  <1>5. status[x[1]] # "none" /\ prompt[<<x[1], x[2]>>] # 0
    BY <1>t, <1>x, <1>1 DEF TurnHolds, Started, Addressed
  <1>6. \A r \in Runs : status'[r] = "none" <=> status[r] = "none"
    BY <1>l, <1>4, <1>5, <1>x
  <1>7. \A r \in Runs : \/ attempt'[r] = attempt[r]
                        \/ status[r] # "none" /\ prompt[<<r, attempt'[r]>>] # 0
    BY <1>l, <1>4, <1>5, <1>x
  <1> QED
    BY <1>1, <1>2, <1>3, <1>6, <1>7, AddressedStays

LEMMA RestartAddressed ==
    ASSUME TypeInv, HInv, Addressed, ServerRestarts
    PROVE  Addressed'
  <1>t. TypeOK
    BY DEF TypeInv
  <1>1. SteersCarry'
    <2>1. lane' = Only(lane, EffectsOf({"capture"})) /\ lane \in Seq(Effects)
      BY <1>t DEF ServerRestarts, TypeOK
    <2>2. lane' \in Seq(Effects)
          /\ From(lane', lane, {i \in 1 .. Len(lane) : lane[i] \in EffectsOf({"capture"})})
      BY <2>1, OnlyShape, FromOnly
    <2> QED
      BY <2>2, SteersCarryOn DEF Addressed
  <1>2. \A r \in Runs : status'[r] = "none" <=> status[r] = "none"
    BY DEF ServerRestarts, BlockingRuns, Blocking
  <1>3. UNCHANGED <<attempt, prompt>> /\ step' = Idle /\ plan' = NoPlan
    BY DEF ServerRestarts
  <1>4. \A x \in Attempted : turn'[x] # "none" => turn[x] # "none"
    BY DEF ServerRestarts, Attempted
  <1> QED
    BY <1>1, <1>2, <1>3, <1>4, AddressedStays DEF NoPlan, MessagePlans

LEMMA LoseAddressed ==
    ASSUME TypeInv, Addressed, Lose
    PROVE  TypeInv' /\ Addressed'
  <1>t. TypeOK
    BY DEF TypeInv
  <1>1. UNCHANGED <<runVars, queueVars, turnVars, laneVars, messageVars>>
    BY DEF Lose
  <1>2. notices' \in Seq(Runs)
    <2>1. notices \in Seq(Runs)
      BY <1>t DEF TypeOK
    <2>2. notices' = notices \/ \E i \in 1 .. Len(notices) : notices' = RemoveAt(notices, i)
      BY DEF Lose
    <2> QED
      BY <2>1, <2>2, RemovedStays
  <1>3. plan' \in Plans /\ (plan' = plan \/ plan'.kind = "none")
    <2>1. plan' = plan \/ plan' = NoPlan
      BY DEF Lose
    <2>2. NoPlan.kind = "none"
      BY DEF NoPlan
    <2> QED
      BY <1>t, <2>1, <2>2, NoPlanTyped DEF TypeOK
  <1>4. TypeOK'
    BY <1>t, <1>1, <1>2, <1>3, SpentTyped
       DEF Lose, Counts, TypeOK, runVars, queueVars, turnVars, laneVars,
       messageVars
  <1>5. StepHasEffect' /\ PlanNames'
    BY <1>1, <1>3 DEF TypeInv, StepHasEffect, PlanNames, laneVars, runVars, NextAttempt
  <1>6. Addressed'
    BY <1>1, <1>3 DEF Addressed, SteersCarry, runVars, turnVars, laneVars, Current, MessagePlans
  <1> QED
    BY <1>4, <1>5, <1>6 DEF TypeInv

LEMMA ListenAddressed ==
    ASSUME TypeInv, Addressed, Listen
    PROVE  TypeInv' /\ Addressed'
  <1>t. TypeOK
    BY DEF TypeInv
  <1>1. UNCHANGED <<runVars, queueVars, turnVars, laneVars, messageVars, spent, missed>>
    BY DEF Listen
  <1>2. /\ plan' \in Plans /\ plan'.kind = "advance"
        /\ notices' \in Seq(Runs)
    <2>1. notices \in Seq(Runs) /\ notices # << >>
      BY <1>t DEF Listen, TypeOK
    <2>2. Head(notices) \in Runs /\ Tail(notices) \in Seq(Runs)
      BY <2>1
    <2>3. plan' \in Plans /\ plan'.kind = "advance"
      BY <2>2 DEF Listen, NoPlan, Plans
    <2> QED
      BY <2>2, <2>3 DEF Listen
  <1>3. TypeOK'
    BY <1>t, <1>1, <1>2 DEF TypeOK, runVars, queueVars, turnVars, laneVars, messageVars
  <1>4. StepHasEffect' /\ PlanNames'
    BY <1>1, <1>2 DEF TypeInv, StepHasEffect, PlanNames, laneVars
  <1>5. Addressed'
    BY <1>1, <1>2 DEF Addressed, SteersCarry, runVars, turnVars, laneVars, Current, MessagePlans
  <1> QED
    BY <1>3, <1>4, <1>5 DEF TypeInv

AInv == TypeInv /\ HInv /\ Addressed

LEMMA AInvStarts == Init => AInv
  <1> SUFFICES ASSUME Init PROVE AInv
    OBVIOUS
  <1>1. TypeOK
    <2>1. status \in [Runs -> Statuses] /\ attempt \in [Runs -> Attempts]
      BY Smallest DEF Init, Statuses
    <2>2. /\ prompt \in [Runs \X Attempts -> Messages \cup {0}] /\ class \in [Runs -> Classes]
          /\ last \in Runs \cup {0} /\ overtaken \in SUBSET Runs /\ held \in SUBSET Runs
          /\ line \in Seq(Runs)
      BY DEF Init, Classes
    <2>3. /\ turn \in [Runs \X Attempts -> TurnStages] /\ ending \in [Runs \X Attempts -> Endings]
          /\ asked \in SUBSET (Runs \X Attempts) /\ lane \in Seq(Effects) /\ step \in Steps
          /\ captured \in SUBSET Runs /\ notices \in Seq(Runs)
      BY IdleTyped DEF Init, TurnStages, Endings
    <2>4. /\ missed \in BOOLEAN /\ plan \in Plans /\ owner \in [Messages -> Runs \cup {0}]
          /\ given \in [Messages -> Nat] /\ forfeit \in SUBSET Messages
          /\ spent \in [stops : Nat, edits : Nat, restarts : Nat, losses : Nat]
      BY NoPlanTyped DEF Init
    <2> QED
      BY <2>1, <2>2, <2>3, <2>4 DEF TypeOK
  <1>2. PlanNames /\ StepHasEffect
    BY DEF Init, PlanNames, NoPlan, StepHasEffect, Idle
  <1>3. Addressed
    BY DEF Init, Addressed, SteersCarry, NoPlan, Idle, MessagePlans, Attempted
  <1> QED
    BY <1>1, <1>2, <1>3, HInvStarts DEF AInv, TypeInv

LEMMA AInvStays == AInv /\ [Next]_vars => AInv'
  <1> SUFFICES ASSUME AInv, [Next]_vars PROVE AInv'
    OBVIOUS
  <1>1. HInv'
    BY HInvStays DEF AInv
  <1>2. CASE SendFresh \/ SendJoining \/ Stop \/ Edit \/ Prepared \/ FollowUp
    BY <1>1, <1>2, CommandTyped, CommandAddressed DEF AInv
  <1>3. CASE Commit
    BY <1>1, <1>3, CommitTypes, CommitAddressed DEF AInv
  <1>4. CASE Worker
    BY <1>1, <1>4, WorkerTypes, WorkerAddressed DEF AInv, Addressed
  <1>5. ASSUME NEW x \in Attempted, Ingestion(x) PROVE AInv'
    BY <1>1, <1>5, IngestionTypes, IngestionAddressed DEF AInv
  <1>6. CASE ServerRestarts
    BY <1>1, <1>6, RestartTypes, RestartAddressed DEF AInv, Addressed
  <1>7. CASE Listen
    BY <1>1, <1>7, ListenAddressed DEF AInv
  <1>8. CASE UNCHANGED vars
    <2>1. TypeInv'
      BY <1>8 DEF AInv, TypeInv, TypeOK, PlanNames, StepHasEffect, NextAttempt, vars, runVars,
         queueVars, turnVars, laneVars, endVars, messageVars
    <2>2. Addressed'
      BY <1>8 DEF AInv, Addressed, SteersCarry, Current, vars, runVars, turnVars, laneVars
    <2> QED
      BY <1>1, <2>1, <2>2 DEF AInv
  <1>9. CASE Lose
    BY <1>1, <1>9, LoseAddressed DEF AInv
  <1> QED
    BY <1>2, <1>3, <1>4, <1>5, <1>6, <1>7, <1>8, <1>9 DEF Next

\* Every variable keeps its type, whatever commands, executors, ingestion
\* fibers and restarts of the server do: a message of the thread is named by
\* every effect that steers and by every attempt that starts.
THEOREM RunsAreTyped == Spec => []TypeOK
  <1>1. AInv => TypeOK
    BY DEF AInv, TypeInv
  <1> QED
    BY <1>1, AInvStarts, AInvStays, PTL DEF Spec

-----------------------------------------------------------------------------
(* Which turns may still begin.                                            *)

\* Attempts of a run that have a message.
Used(r) == {a \in Attempts : prompt[<<r, a>>] # 0}

\* No attempt of the run was ever started.
NotBegun(r) == status[r] \in {"none", "queued", "preparing"} \/ class[r] = "workspace"

\* A start of the run is on its way to the provider.
Executing(r) == step.at \in {"opening", "opened", "cleared"} /\ step.run = r

\* Attempts are made one after the other.
AttemptsInOrder ==
    \A r \in Runs : /\ \E k \in 0 .. MaxAttempts : Used(r) = 1 .. k
                    /\ status[r] = "none" => Used(r) = {}

\* A run that has not begun has no turn and nobody works for it; a run that
\* starts, and an executor that starts one, is about an attempt without a turn.
RunFits(r) ==
    /\ class[r] = "workspace" => status[r] = "failed"
    /\ NotBegun(r) => attempt[r] = 1 /\ \A a \in Attempts : turn[<<r, a>>] = "none"
    /\ status[r] = "starting" => turn[<<r, attempt[r]>>] = "none"
    /\ Executing(r) =>
          /\ turn[<<r, step.att>>] = "none"
          /\ step.at # "opening" /\ step.att = attempt[r] => status[r] # "starting"
    /\ (Executing(r) \/ (step.at = "capturing" /\ step.run = r)) => ~NotBegun(r)

\* Neither does the plan of a command bring such a run back.
PlanFits(r) ==
    /\ (plan.run = r /\ plan.kind \in {"cancel", "launch"}) => status[r] = "queued"
    /\ (plan.run = r /\ plan.kind \in {"release", "fail"}) => status[r] = "preparing"
    /\ (plan.run = r /\ plan.kind = "retry") => class[r] = "workspace"
    /\ (plan.run = r /\ plan.kind \in {"steer", "restart"}) => ~NotBegun(r)
    /\ (plan.from = r /\ plan.kind \in {"steer", "restart"}) => status[r] = "queued"

\* The effects of the lane are about runs that have begun.
ForBegun(e) == e.kind \in Starts \cup {"capture"}

LaneFits == \A i \in 1 .. Len(lane) : ForBegun(lane[i]) => ~NotBegun(lane[i].run)

\* What is executed is the first effect of the lane.
StepOnHead ==
    /\ step.at = "followup" => lane[1].kind = "steer"
    /\ step.at \in {"opening", "opened", "cleared"} =>
          lane[1].kind \in Starts /\ lane[1].run = step.run

UInv ==
    /\ AttemptsInOrder
    /\ \A r \in Runs : RunFits(r) /\ PlanFits(r)
    /\ LaneFits
    /\ StepOnHead

\* A step may leave a run as it is, ...
SameRun(r) == status'[r] = status[r] /\ class'[r] = class[r] /\ attempt'[r] = attempt[r]

\* ... move it on, or end it, with the turns it has, ...
LeavesRun(r) ==
    /\ status'[r] \notin {"none", "queued", "preparing", "starting"}
    /\ class'[r] = "workspace" =>
          status'[r] = "failed" /\ NotBegun(r) /\ attempt'[r] = attempt[r]

\* ... move it on before its first turn, ...
MovesRun(r) ==
    /\ NotBegun(r)
    /\ status'[r] \in {"queued", "preparing", "starting"} /\ class'[r] # "workspace"
    /\ attempt'[r] = attempt[r]

\* ... or start an attempt that had no turn.
RestartsRun(r) ==
    /\ ~NotBegun(r)
    /\ status'[r] = "starting" /\ class'[r] # "workspace"
    /\ turn[<<r, attempt'[r]>>] = "none"
    /\ Executing(r) => step.att # attempt'[r]

\* No turn begins but the one that an executor has cleared.
TurnsGo(r) ==
    \/ \A a \in Attempts : turn'[<<r, a>>] = "none" <=> turn[<<r, a>>] = "none"
    \/ /\ step.at = "cleared" /\ step.run = r /\ ~Executing(r)'
       /\ \A a \in Attempts :
             turn'[<<r, a>>] = "none" <=> turn[<<r, a>>] = "none" /\ a # step.att

StepGoes == step' = step \/ step'.at \in {"idle", "awaiting", "followup"}

PlanIsOver ==
    plan'.kind \notin {"queue", "begin", "prepare", "steer", "restart", "cancel", "launch",
                       "release", "fail", "retry"}

LEMMA BegunStays ==
    ASSUME NEW r \in Runs, SameRun(r) \/ LeavesRun(r) \/ RestartsRun(r), ~NotBegun(r)
    PROVE  ~NotBegun(r)'
  BY DEF SameRun, LeavesRun, RestartsRun, NotBegun

LEMMA RunGoesOn ==
    ASSUME NEW r \in Runs, RunFits(r), attempt[r] \in Attempts, attempt'[r] \in Attempts,
           step.att \in Attempts,
           SameRun(r) \/ LeavesRun(r) \/ MovesRun(r) \/ RestartsRun(r), TurnsGo(r), StepGoes
    PROVE  RunFits(r)'
  \* A turn begins only where it is cleared.
  <1>1. ASSUME NEW a \in Attempts, turn[<<r, a>>] = "none",
               ~(step.at = "cleared" /\ step.run = r /\ a = step.att)
        PROVE  turn'[<<r, a>>] = "none"
    BY <1>1 DEF TurnsGo
  <1>2. Executing(r)' => Executing(r) /\ step' = step /\ turn'[<<r, step.att>>] = "none"
    <2>1. SUFFICES ASSUME Executing(r)'
                   PROVE  Executing(r) /\ step' = step /\ turn'[<<r, step.att>>] = "none"
      OBVIOUS
    <2>2. step' = step /\ Executing(r)
      BY <2>1 DEF Executing, StepGoes
    <2>3. turn[<<r, step.att>>] = "none"
      BY <2>2 DEF RunFits
    <2> QED
      BY <2>1, <2>2, <2>3 DEF TurnsGo, Executing
  <1>3. (step'.at = "capturing" /\ step'.run = r) => step' = step
    BY DEF StepGoes
  <1>4. step.at = "cleared" /\ step.run = r => Executing(r)
    BY DEF Executing
  \* Parts of the invariant, one by one.
  <1>c. class'[r] = "workspace" => status'[r] = "failed"
    BY DEF RunFits, SameRun, LeavesRun, MovesRun, RestartsRun
  <1>b. NotBegun(r)' => NotBegun(r) /\ attempt'[r] = attempt[r]
    <2>1. CASE SameRun(r)
      BY <2>1 DEF SameRun, NotBegun
    <2>2. CASE LeavesRun(r)
      BY <2>2 DEF LeavesRun, NotBegun
    <2>3. CASE MovesRun(r)
      BY <2>3 DEF MovesRun
    <2>4. CASE RestartsRun(r)
      BY <2>4 DEF RestartsRun, NotBegun
    <2> QED
      BY <2>1, <2>2, <2>3, <2>4
  <1>n. NotBegun(r)' => attempt'[r] = 1 /\ \A a \in Attempts : turn'[<<r, a>>] = "none"
    <2>1. SUFFICES ASSUME NotBegun(r)'
                   PROVE  attempt'[r] = 1 /\ \A a \in Attempts : turn'[<<r, a>>] = "none"
      OBVIOUS
    <2>2. NotBegun(r) /\ ~Executing(r) /\ attempt[r] = 1
          /\ \A a \in Attempts : turn[<<r, a>>] = "none"
      BY <1>b, <2>1 DEF RunFits
    <2> QED
      BY <1>1, <1>4, <1>b, <2>1, <2>2
  <1>s. status'[r] = "starting" => turn'[<<r, attempt'[r]>>] = "none"
    <2>1. CASE SameRun(r)
      BY <1>1, <1>4, <2>1 DEF RunFits, SameRun
    <2>2. CASE LeavesRun(r)
      BY <2>2 DEF LeavesRun
    <2>3. CASE MovesRun(r)
      BY <1>1, <1>4, <2>3 DEF RunFits, MovesRun
    <2>4. CASE RestartsRun(r)
      BY <1>1, <1>4, <2>4 DEF RestartsRun
    <2> QED
      BY <2>1, <2>2, <2>3, <2>4
  <1>e. Executing(r)' =>
          /\ turn'[<<r, step'.att>>] = "none"
          /\ step'.at # "opening" /\ step'.att = attempt'[r] => status'[r] # "starting"
    <2>1. CASE SameRun(r)
      BY <1>2, <2>1 DEF RunFits, SameRun
    <2>2. CASE LeavesRun(r)
      BY <1>2, <2>2 DEF LeavesRun
    <2>3. CASE MovesRun(r)
      BY <1>2, <2>3 DEF RunFits, MovesRun
    <2>4. CASE RestartsRun(r)
      BY <1>2, <2>4 DEF RestartsRun
    <2> QED
      BY <2>1, <2>2, <2>3, <2>4
  <1>x. Executing(r)' \/ (step'.at = "capturing" /\ step'.run = r) => ~NotBegun(r)'
    BY <1>2, <1>3, <1>b DEF RunFits
  <1> QED
    BY <1>c, <1>n, <1>s, <1>e, <1>x DEF RunFits

\* Who holds no lock changes runs that have begun.
LEMMA PlanGoesOn ==
    ASSUME NEW r \in Runs, PlanFits(r),
           \/ PlanIsOver
           \/ plan' = plan /\ (SameRun(r) \/ (LeavesRun(r) /\ ~NotBegun(r)))
    PROVE  PlanFits(r)'
  <1>1. CASE PlanIsOver
    BY <1>1 DEF PlanFits, PlanIsOver
  <1>2. CASE plan' = plan /\ SameRun(r)
    BY <1>2 DEF PlanFits, SameRun, NotBegun
  <1>3. CASE plan' = plan /\ LeavesRun(r) /\ ~NotBegun(r)
    BY <1>3 DEF PlanFits, LeavesRun, NotBegun
  <1> QED
    BY <1>1, <1>2, <1>3

\* The lane after entries left it and perhaps one came.
LEMMA LaneGoesOn ==
    ASSUME LaneFits, lane \in Seq(Effects),
           \A r \in Runs : NotBegun(r)' => NotBegun(r),
           NEW w \in Seq(Effects), NEW K \in SUBSET (1 .. Len(lane)), From(w, lane, K),
           \/ lane' = w
           \/ \E e \in Effects : lane' = Append(w, e) /\ (ForBegun(e) => ~NotBegun(e.run)')
    PROVE  LaneFits'
  <1>1. ASSUME NEW i \in 1 .. Len(w), ForBegun(w[i]) PROVE ~NotBegun(w[i].run)'
    <2>1. PICK k \in 1 .. Len(lane) : Same(w[i], lane[k])
      BY DEF From
    <2>2. lane[k].run \in Runs
      <3>1. lane[k] \in Effects
        BY <2>1
      <3> QED
        BY <3>1 DEF Effects, EffectsOf
    <2> QED
      BY <1>1, <2>1, <2>2 DEF Same, LaneFits, ForBegun
  <1>2. CASE lane' = w
    BY <1>1, <1>2 DEF LaneFits, ForBegun, NotBegun
  <1>3. ASSUME NEW e \in Effects, lane' = Append(w, e), ForBegun(e) => ~NotBegun(e.run)'
        PROVE  LaneFits'
    <2>1. /\ Len(lane') = Len(w) + 1 /\ Len(w) \in Nat
          /\ \A i \in 1 .. Len(w) : lane'[i] = w[i]
          /\ lane'[Len(w) + 1] = e
      BY <1>3, AppendEntries
    <2>2. \A i \in 1 .. Len(lane') : i \in 1 .. Len(w) \/ i = Len(w) + 1
      BY <2>1
    <2> QED
      BY <1>1, <1>3, <2>1, <2>2 DEF LaneFits, ForBegun, NotBegun
  <1> QED
    BY <1>2, <1>3

LEMMA NextIsNew ==
    ASSUME AttemptsInOrder, NEW r \in Runs
    PROVE  \E k \in 0 .. MaxAttempts : Used(r) = 1 .. k /\ NextAttempt(r) = k + 1
  <1>1. PICK k \in 0 .. MaxAttempts : Used(r) = 1 .. k
    BY DEF AttemptsInOrder
  <1>2. Cardinality(1 .. k) = k
    BY <1>1, FS_Interval
  <1>3. NextAttempt(r) = 1 + Cardinality(Used(r))
    BY DEF NextAttempt, Used
  <1> QED
    BY <1>1, <1>2, <1>3

LEMMA AttemptsKept ==
    ASSUME AttemptsInOrder, prompt' = prompt,
           \A r \in Runs : status'[r] = "none" => status[r] = "none"
    PROVE  AttemptsInOrder'
  <1>1. \A r : Used(r)' = Used(r)
    BY DEF Used
  <1> QED
    BY <1>1 DEF AttemptsInOrder

\* The next attempt of a run gets a message.
LEMMA AttemptsGrow ==
    ASSUME TypeOK, AttemptsInOrder, NEW r \in Runs, NextAttempt(r) \in Attempts, NEW m, m # 0,
           prompt' = [prompt EXCEPT ![<<r, NextAttempt(r)>>] = m],
           status'[r] # "none", \A o \in Runs : o # r /\ status'[o] = "none" => status[o] = "none"
    PROVE  AttemptsInOrder'
  <1> DEFINE n == NextAttempt(r)
  <1>1. prompt \in [Attempted -> Messages \cup {0}] /\ <<r, n>> \in Attempted
    BY DEF TypeOK, Attempted
  <1>2. PICK k \in 0 .. MaxAttempts : Used(r) = 1 .. k /\ n = k + 1
    BY NextIsNew
  <1> HIDE DEF n
  <1>3. \A a \in Attempts : <<r, a>> \in Attempted
    BY DEF Attempted
  <1>4. \A a \in Attempts : prompt'[<<r, a>>] = IF a = n THEN m ELSE prompt[<<r, a>>]
    BY <1>1, <1>3 DEF n
  <1>5. Used(r)' = Used(r) \cup {n}
    BY <1>4 DEF Used, n
  <1>6. Used(r)' = 1 .. k + 1 /\ k + 1 \in 0 .. MaxAttempts
    BY <1>2, <1>5 DEF n, Attempts
  <1>7. ASSUME NEW o \in Runs, o # r PROVE Used(o)' = Used(o)
    <2>1. \A a \in Attempts : <<o, a>> \in Attempted
      BY DEF Attempted
    <2>2. \A a \in Attempts : prompt'[<<o, a>>] = prompt[<<o, a>>]
      BY <1>1, <1>7, <2>1
    <2> QED
      BY <2>2 DEF Used
  <1> QED
    BY <1>6, <1>7 DEF AttemptsInOrder

LEMMA FirstAttempt ==
    ASSUME AttemptsInOrder, NEW r \in Runs, status[r] = "none"
    PROVE  NextAttempt(r) = 1
  <1>1. PICK k \in 0 .. MaxAttempts : Used(r) = 1 .. k /\ NextAttempt(r) = k + 1
    BY NextIsNew
  <1>2. 1 .. k = {}
    BY <1>1 DEF AttemptsInOrder
  <1>3. k = 0
    <2>1. k >= 1 => 1 \in 1 .. k
      OBVIOUS
    <2> QED
      BY <1>2, <2>1
  <1> QED
    BY <1>1, <1>3

\* The next attempt has no turn, and nobody starts it.
LEMMA NextIsFresh ==
    ASSUME AttemptsInOrder, Addressed, NEW r \in Runs, NextAttempt(r) \in Attempts
    PROVE  /\ turn[<<r, NextAttempt(r)>>] = "none"
           /\ Executing(r) => step.att # NextAttempt(r)
           /\ prompt[<<r, NextAttempt(r)>>] = 0
  <1>1. NextAttempt(r) \notin Used(r)
    BY NextIsNew
  <1>2. <<r, NextAttempt(r)>> \in Attempted
    BY DEF Attempted
  <1> QED
    BY <1>1, <1>2 DEF Used, Addressed, Executing

\* A step of a command, an executor or a fiber, seen from all sides.
LEMMA StartsGoOn ==
    ASSUME TypeOK, TypeOK', UInv, AttemptsInOrder', StepOnHead',
           \A r \in Runs : SameRun(r) \/ LeavesRun(r) \/ MovesRun(r) \/ RestartsRun(r),
           \A r \in Runs : TurnsGo(r),
           StepGoes,
           \/ PlanIsOver
           \/ plan' = plan /\ \A r \in Runs : SameRun(r) \/ (LeavesRun(r) /\ ~NotBegun(r)),
           NEW w \in Seq(Effects), NEW K \in SUBSET (1 .. Len(lane)), From(w, lane, K),
           \/ lane' = w
           \/ \E e \in Effects : lane' = Append(w, e) /\ (ForBegun(e) => ~NotBegun(e.run)')
    PROVE  UInv'
  <1>1. ASSUME NEW r \in Runs PROVE RunFits(r)' /\ PlanFits(r)'
    <2>1. attempt[r] \in Attempts /\ attempt'[r] \in Attempts /\ step.att \in Attempts
      BY DEF TypeOK, Steps
    <2>2. RunFits(r)'
      BY <2>1, RunGoesOn DEF UInv
    <2>3. PlanFits(r)'
      BY PlanGoesOn DEF UInv
    <2> QED
      BY <2>2, <2>3
  <1>2. \A r \in Runs : NotBegun(r)' => NotBegun(r)
    BY BegunStays DEF MovesRun
  <1>3. LaneFits'
    BY <1>2, LaneGoesOn DEF UInv, TypeOK
  <1> QED
    BY <1>1, <1>3 DEF UInv

\* A step that only changes what is planned.
LEMMA PlanChanges ==
    ASSUME UInv, UNCHANGED <<status, class, attempt, prompt, turn, lane, step>>,
           \A r \in Runs : PlanFits(r)'
    PROVE  UInv'
  <1>1. AttemptsInOrder'
    BY AttemptsKept DEF UInv
  <1>2. StepOnHead'
    BY DEF UInv, StepOnHead
  <1>3. ASSUME NEW r \in Runs PROVE RunFits(r)'
    BY DEF UInv, RunFits, NotBegun, Executing
  <1>4. LaneFits'
    BY DEF UInv, LaneFits, NotBegun, ForBegun
  <1> QED
    BY <1>1, <1>2, <1>3, <1>4 DEF UInv

LEMMA NoWorkspace ==
    ASSUME UInv, NEW r \in Runs, status[r] # "failed" \/ ~NotBegun(r)
    PROVE  class[r] # "workspace"
  BY DEF UInv, RunFits, NotBegun

LEMMA CommandStarts ==
    ASSUME UInv,
           SendFresh \/ SendJoining \/ Stop \/ Edit \/ Prepared \/ FollowUp \/ Listen \/ Lose
    PROVE  UInv'
  <1>0. 0 \notin Runs
    BY Smallest
  <1>1. UNCHANGED <<status, class, attempt, prompt, turn, lane, step>>
    BY DEF SendFresh, SendJoining, Stop, Edit, Prepared, FollowUp, Listen, Lose, Reads, runVars,
       turnVars, laneVars
  \* Commands that name a run as it is, or none.
  <1>2. ASSUME \/ plan'.kind \notin {"steer", "restart", "cancel", "launch", "release", "fail", "retry"}
               \/ plan'.kind \in {"cancel", "launch"} /\ status[plan'.run] = "queued"
               \/ plan'.kind \in {"release", "fail"} /\ status[plan'.run] = "preparing"
               \/ plan'.kind = "retry" /\ class[plan'.run] = "workspace"
        PROVE  UInv'
    <2>1. \A r \in Runs : PlanFits(r)'
      BY <1>1, <1>2 DEF PlanFits
    <2> QED
      BY <1>1, <2>1, PlanChanges
  <1>3. CASE SendFresh \/ FollowUp
    <2>1. plan'.kind \in {"queue", "begin", "prepare"}
      BY <1>3 DEF SendFresh, FollowUp, FreshPlan, NoPlan
    <2> QED
      BY <2>1, <1>2
  <1>4. CASE SendJoining
    <2>1. PICK r \in Runs :
            /\ Steerable(r)
            /\ \/ \E mode \in Modes[NextMessage] \cap {"steer", "restart"} :
                      plan' = JoinPlan(r, NextMessage, mode = "restart", 0)
               \/ \E q \in Queued : plan' = JoinPlan(r, prompt[Current(q)], FALSE, q)
      BY <1>4 DEF SendJoining
    <2>2. /\ plan'.kind \in {"steer", "restart"} /\ plan'.run = r
          /\ plan'.from # 0 => plan'.from \in Queued
      BY <2>1 DEF JoinPlan, NoPlan
    <2>3. ~NotBegun(r)
      <3>1. status[r] = "running"
        BY <2>1 DEF Steerable
      <3> QED
        BY <3>1, NoWorkspace DEF NotBegun
    <2>4. \A o \in Runs : PlanFits(o)'
      BY <1>0, <1>1, <2>2, <2>3 DEF PlanFits, Queued, NotBegun
    <2> QED
      BY <1>1, <2>4, PlanChanges
  <1>5. CASE Stop
    <2>1. plan'.kind \in {"stop", "interrupt"}
      BY <1>5 DEF Stop, NoPlan
    <2> QED
      BY <2>1, <1>2
  <1>6. CASE Edit
    <2>1. \/ plan'.kind \in {"resume", "reorder"}
          \/ plan'.kind = "cancel" /\ status[plan'.run] = "queued"
          \/ plan'.kind = "retry" /\ class[plan'.run] = "workspace"
      BY <1>6 DEF Edit, NoPlan, Queued
    <2> QED
      BY <2>1, <1>2
  <1>7. CASE Prepared
    <2>1. plan'.kind \in {"release", "fail"} /\ status[plan'.run] = "preparing"
      BY <1>7 DEF Prepared, NoPlan
    <2> QED
      BY <2>1, <1>2
  <1>8. CASE Listen
    <2>1. plan'.kind = "advance"
      BY <1>8 DEF Listen, NoPlan
    <2> QED
      BY <2>1, <1>2
  <1>9. CASE Lose
    <2>1. plan' = plan \/ plan'.kind = "none"
      BY <1>9 DEF Lose, NoPlan
    <2>2. CASE plan' = plan
      BY <1>1, <2>2, PlanChanges DEF UInv, PlanFits, NotBegun
    <2> QED
      BY <2>1, <2>2, <1>2
  <1> QED
    BY <1>3, <1>4, <1>5, <1>6, <1>7, <1>8, <1>9

LEMMA NoPlanIsOver ==
    ASSUME plan' = NoPlan
    PROVE  PlanIsOver
  BY DEF NoPlan, PlanIsOver

\* The lane of a commit that only appends.
LEMMA StillOnHead ==
    ASSUME TypeInv, StepOnHead, step' \in {step, Idle},
           lane' = lane \/ \E e \in Effects : lane' = Append(lane, e)
    PROVE  StepOnHead'
  <1>1. CASE step' = Idle
    BY <1>1 DEF StepOnHead, Idle
  <1>2. CASE step' = step
    <2>1. CASE step.at = "idle"
      BY <1>2, <2>1 DEF StepOnHead
    <2>2. CASE step.at # "idle"
      <3>1. lane \in Seq(Effects) /\ lane # << >>
        BY <2>2 DEF TypeInv, TypeOK, StepHasEffect
      <3>2. lane'[1] = lane[1]
        <4>1. ASSUME NEW e \in Effects, lane' = Append(lane, e) PROVE lane'[1] = lane[1]
          BY <3>1, <4>1
        <4> QED
          BY <4>1
      <3> QED
        BY <1>2, <3>2 DEF StepOnHead
    <2> QED
      BY <2>1, <2>2
  <1> QED
    BY <1>1, <1>2

\* How a commit moves the run of its plan.
LEMMA CommitMovesRun ==
    ASSUME TypeOK, NEW r \in Runs, NotBegun(r),
           NEW to \in {"queued", "preparing", "starting"}, status' = [status EXCEPT ![r] = to],
           \/ class' = class /\ class[r] # "workspace"
           \/ class' = [class EXCEPT ![r] = "none"],
           UNCHANGED attempt
    PROVE  MovesRun(r) /\ \A o \in Runs : SameRun(o) \/ MovesRun(o)
  <1>1. status \in [Runs -> Statuses] /\ class \in [Runs -> Classes]
    BY DEF TypeOK
  <1>2. MovesRun(r)
    BY <1>1 DEF MovesRun
  <1>3. \A o \in Runs : o # r => SameRun(o)
    BY <1>1 DEF SameRun
  <1> QED
    BY <1>2, <1>3

LEMMA CommitEndsRun ==
    ASSUME TypeOK, NEW r \in Runs,
           NEW to \in Statuses \ {"none", "queued", "preparing", "starting"},
           status' = [status EXCEPT ![r] = to],
           \/ class' = class /\ class[r] # "workspace"
           \/ \E c \in {"none", "provider", "validation", "limit"} : class' = [class EXCEPT ![r] = c]
           \/ /\ to = "failed" /\ NotBegun(r) /\ class' = [class EXCEPT ![r] = "workspace"]
              /\ attempt'[r] = attempt[r],
           \A o \in Runs : o # r => attempt'[o] = attempt[o]
    PROVE  LeavesRun(r) /\ \A o \in Runs : o # r => SameRun(o)
  <1>1. status \in [Runs -> Statuses] /\ class \in [Runs -> Classes]
    BY DEF TypeOK
  <1>2. status'[r] = to
    BY <1>1
  <1>3. class'[r] = "workspace" => status'[r] = "failed" /\ NotBegun(r) /\ attempt'[r] = attempt[r]
    BY <1>1, <1>2
  <1>4. LeavesRun(r)
    BY <1>2, <1>3 DEF LeavesRun
  <1>5. \A o \in Runs : o # r => SameRun(o)
    BY <1>1 DEF SameRun
  <1> QED
    BY <1>4, <1>5

LEMMA SomeCommitsStart ==
    ASSUME AInv, AInv', UInv,
           \/ ReadQueue \/ CommitQueue \/ CommitBegin \/ CommitInterrupt \/ CommitResume
           \/ CommitCancel \/ CommitReorder \/ CommitPrepared \/ CommitHold \/ CommitLaunch
    PROVE  UInv'
  <1> USE DEF Committing
  <1>t. TypeOK /\ TypeOK' /\ TypeInv /\ PlanNames /\ PlanHolds /\ Addressed
    BY DEF AInv, TypeInv, HInv
  <1>l. /\ lane \in Seq(Effects) /\ status \in [Runs -> Statuses] /\ class \in [Runs -> Classes]
        /\ attempt \in [Runs -> Attempts] /\ From(lane, lane, 1 .. Len(lane))
    BY <1>t, FromSame DEF TypeOK, Same
  <1>f. StepOnHead /\ AttemptsInOrder /\ \A r \in Runs : RunFits(r) /\ PlanFits(r)
    BY DEF UInv
  \* A commit that keeps the lane or appends to it.
  <1>k. ASSUME UNCHANGED <<prompt, turn, step>>, plan' = NoPlan,
               \A r \in Runs : SameRun(r) \/ LeavesRun(r) \/ MovesRun(r),
               \/ lane' = lane
               \/ \E e \in Effects :
                     /\ lane' = Append(lane, e)
                     /\ \/ ~ForBegun(e)
                        \/ MovesRun(e.run) /\ status'[e.run] = "starting"
        PROVE  UInv'
    <2>1. PlanIsOver /\ StepGoes /\ \A r \in Runs : TurnsGo(r)
      BY <1>k, NoPlanIsOver DEF StepGoes, TurnsGo
    <2>2. AttemptsInOrder'
      BY <1>k, <1>f, AttemptsKept DEF SameRun, LeavesRun, MovesRun
    <2>3. StepOnHead'
      BY <1>k, <1>f, <1>t, StillOnHead
    <2>4. \A e : MovesRun(e.run) /\ status'[e.run] = "starting" => ~NotBegun(e.run)'
      BY DEF MovesRun, NotBegun
    <2> QED
      BY <1>k, <1>l, <1>t, <2>1, <2>2, <2>3, <2>4, StartsGoOn
  <1>s. ASSUME NEW r \in Runs
        PROVE  Effect("start", r, 1, 0) \in Effects /\ Effect("start", r, 1, 0).run = r
    BY Smallest, EffectTyped DEF Starts, Effect
  <1>1. CASE ReadQueue
    <2>1. UNCHANGED <<status, class, attempt, prompt, turn, lane, step>>
      BY <1>1 DEF ReadQueue, runVars, turnVars, laneVars
    <2>2. \/ plan' = NoPlan
          \/ plan' = [NoPlan EXCEPT !.kind = "hold"]
          \/ \E q \in Runs : status[q] = "queued" /\ plan' = [NoPlan EXCEPT !.kind = "launch", !.run = q]
      BY <1>1 DEF ReadQueue, Queued
    <2>3. \/ plan'.kind \in {"none", "hold"}
          \/ plan'.kind = "launch" /\ status[plan'.run] = "queued"
      <3>1. ASSUME NEW q \in Runs, status[q] = "queued",
                   plan' = [NoPlan EXCEPT !.kind = "launch", !.run = q]
            PROVE  plan'.kind = "launch" /\ status[plan'.run] = "queued"
        BY <3>1 DEF NoPlan
      <3>2. plan' = NoPlan => plan'.kind = "none"
        BY DEF NoPlan
      <3>3. plan' = [NoPlan EXCEPT !.kind = "hold"] => plan'.kind = "hold"
        BY DEF NoPlan
      <3> QED
        BY <2>2, <3>1, <3>2, <3>3
    <2>4. \A o \in Runs : PlanFits(o)'
      BY <2>1, <2>3 DEF PlanFits
    <2> QED
      BY <2>1, <2>4, PlanChanges
  \* The message of the plan is the first of a run.
  <1>q. ASSUME CommitQueue \/ CommitBegin
        PROVE  /\ plan.run \in Runs
               /\ \A r \in Runs : SameRun(r) \/ MovesRun(r)
               /\ AttemptsInOrder' /\ StepOnHead' /\ StepGoes /\ PlanIsOver
               /\ \A r \in Runs : TurnsGo(r)
    <2>1. plan.run \in Runs /\ status[plan.run] = "none" /\ plan.msg \in Messages
      BY <1>q, <1>t DEF CommitQueue, CommitBegin, PlanHolds, Fresh, Addressed, MessagePlans
    <2>2. PICK to \in {"queued", "preparing", "starting"} : status' = [status EXCEPT ![plan.run] = to]
      BY <1>q DEF CommitQueue, CommitBegin
    <2>3. /\ UNCHANGED <<attempt, turn, class>> /\ plan' = NoPlan
          /\ prompt' = [prompt EXCEPT ![<<plan.run, 1>>] = plan.msg]
          /\ step' = SettleFollowUp.step
      BY <1>q DEF CommitQueue, CommitBegin, turnVars
    <2>4. class[plan.run] # "workspace" /\ NotBegun(plan.run)
      BY <2>1, NoWorkspace DEF NotBegun
    <2>5. MovesRun(plan.run) /\ \A o \in Runs : SameRun(o) \/ MovesRun(o)
      BY <1>t, <2>1, <2>2, <2>3, <2>4, CommitMovesRun
    <2>6. AttemptsInOrder'
      <3>1. NextAttempt(plan.run) = 1 /\ 1 \in Attempts /\ plan.msg # 0
        BY <1>f, <2>1, FirstAttempt, Smallest
      <3>2. status'[plan.run] # "none"
        BY <2>5 DEF MovesRun
      <3>3. \A o \in Runs : o # plan.run /\ status'[o] = "none" => status[o] = "none"
        BY <2>5 DEF SameRun, MovesRun
      <3> QED
        BY <1>f, <1>t, <2>1, <2>3, <3>1, <3>2, <3>3, AttemptsGrow
    <2>7. step' = Idle \/ (step' = step /\ SettleFollowUp.lane = lane)
      BY <2>3 DEF SettleFollowUp
    <2>8. StepGoes /\ PlanIsOver /\ \A r \in Runs : TurnsGo(r)
      BY <2>3, <2>7, NoPlanIsOver DEF StepGoes, Idle, TurnsGo
    <2>9. StepOnHead'
      <3>1. CASE step' = Idle
        BY <3>1 DEF StepOnHead, Idle
      <3>2. CASE step' = step /\ SettleFollowUp.lane = lane
        <4>1. lane' = lane \/ \E e \in Effects : lane' = Append(lane, e)
          <5>1. CASE CommitQueue
            BY <3>2, <5>1 DEF CommitQueue
          <5>2. CASE CommitBegin
            BY <1>t, <1>s, <2>1, <3>2, <5>2, BeginLane
          <5> QED
            BY <1>q, <5>1, <5>2
        <4> QED
          BY <1>f, <1>t, <3>2, <4>1, StillOnHead
      <3> QED
        BY <2>7, <3>1, <3>2
    <2> QED
      BY <2>1, <2>5, <2>6, <2>8, <2>9
  <1>2. CASE CommitQueue
    <2>1. lane' = SettleFollowUp.lane
      BY <1>2 DEF CommitQueue
    <2> QED
      BY <1>2, <1>q, <1>t, <2>1, FollowUpFrom, StartsGoOn
  <1>3. CASE CommitBegin
    <2>1. \/ lane' = SettleFollowUp.lane
          \/ /\ lane' = Append(SettleFollowUp.lane, Effect("start", plan.run, 1, 0))
             /\ status'[plan.run] = "starting" /\ class'[plan.run] = class[plan.run]
      <3>1. plan.kind = "begin" => status'[plan.run] = "starting"
        BY <1>3, <1>q, <1>l DEF CommitBegin
      <3>2. class' = class
        BY <1>3 DEF CommitBegin
      <3> QED
        BY <1>3, <1>t, <3>1, <3>2, BeginLane
    <2>2. class[plan.run] # "workspace"
      <3>1. status[plan.run] = "none"
        BY <1>3, <1>t DEF CommitBegin, PlanHolds, Fresh
      <3> QED
        BY <1>3, <1>q, <3>1, NoWorkspace
    <2>3. \/ lane' = SettleFollowUp.lane
          \/ \E e \in Effects : lane' = Append(SettleFollowUp.lane, e) /\ ~NotBegun(e.run)'
      BY <1>3, <1>q, <1>s, <2>1, <2>2 DEF NotBegun
    <2>4. PICK K \in SUBSET (1 .. Len(lane)) : From(SettleFollowUp.lane, lane, K)
      BY <1>t, FollowUpFrom
    <2>5. SettleFollowUp.lane \in Seq(Effects)
      BY <1>t, FollowUpFrom
    <2> DEFINE w == SettleFollowUp.lane
    <2> HIDE DEF w
    <2>6. /\ w \in Seq(Effects) /\ From(w, lane, K)
          /\ \/ lane' = w
             \/ \E e \in Effects : lane' = Append(w, e) /\ (ForBegun(e) => ~NotBegun(e.run)')
      BY <2>3, <2>4, <2>5 DEF w
    <2> QED
      BY <1>3, <1>q, <1>t, <2>6, StartsGoOn
  <1>4. CASE CommitInterrupt
    <2>1. Effect("interrupt", plan.run, plan.att, 0) \in Effects
          /\ ~ForBegun(Effect("interrupt", plan.run, plan.att, 0))
      BY <1>4, <1>t, EffectTyped DEF CommitInterrupt, PlanNames, Others, Starts, Effect, ForBegun
    <2>2. /\ lane' = Append(lane, Effect("interrupt", plan.run, plan.att, 0))
          /\ UNCHANGED <<status, class, attempt, prompt, turn, step>> /\ plan' = NoPlan
      BY <1>4 DEF CommitInterrupt, runVars, turnVars
    <2> QED
      BY <2>1, <2>2, <1>k DEF SameRun
  <1>5. CASE CommitResume \/ CommitReorder \/ CommitHold
    <2>1. /\ UNCHANGED <<status, class, attempt, prompt, turn, step, lane>>
          /\ plan'.kind \in {"none", "advance"}
      BY <1>5 DEF CommitResume, CommitReorder, CommitHold, runVars, turnVars, laneVars, NoPlan
    <2>2. \A o \in Runs : PlanFits(o)'
      BY <2>1 DEF PlanFits
    <2> QED
      BY <2>1, <2>2, PlanChanges
  \* The run of the plan is not with the provider yet.
  <1>e. ASSUME plan.run \in Runs, status[plan.run] \in {"queued", "preparing"}
        PROVE  NotBegun(plan.run) /\ class[plan.run] # "workspace"
    BY <1>e, NoWorkspace DEF NotBegun
  <1>6. CASE CommitCancel
    <2>1. plan.run \in Runs /\ status[plan.run] = "queued"
      BY <1>6, <1>t, <1>f DEF CommitCancel, PlanNames, PlanFits
    <2>2. /\ status' = [status EXCEPT ![plan.run] = "cancelled"]
          /\ UNCHANGED <<class, attempt, prompt, turn, step, lane>> /\ plan' = NoPlan
      BY <1>6 DEF CommitCancel, turnVars, laneVars
    <2> QED
      BY <1>t, <2>1, <2>2, <1>e, <1>k, CommitEndsRun DEF Terminal, Statuses
  <1>7. CASE CommitPrepared
    <2>1. plan.run \in Runs /\ UNCHANGED <<attempt, prompt, turn, step>> /\ plan' = NoPlan
      BY <1>7, <1>t DEF CommitPrepared, PlanNames, turnVars
    <2>2. CASE plan.kind = "release"
      <3>1. /\ status' = [status EXCEPT ![plan.run] = "starting"] /\ class' = class
            /\ lane' = Append(lane, Effect("start", plan.run, 1, 0))
        BY <1>7, <2>2 DEF CommitPrepared
      <3>2. status[plan.run] = "preparing"
        BY <2>1, <2>2, <1>f DEF PlanFits
      <3>3. status'[plan.run] = "starting"
        BY <1>l, <2>1, <3>1
      <3>4. MovesRun(plan.run) /\ \A o \in Runs : SameRun(o) \/ MovesRun(o)
        BY <1>t, <1>e, <2>1, <3>1, <3>2, CommitMovesRun
      <3> QED
        BY <1>k, <1>s, <2>1, <3>1, <3>3, <3>4
    <2>3. CASE plan.kind = "fail"
      <3>1. /\ status' = [status EXCEPT ![plan.run] = "failed"]
            /\ class' = [class EXCEPT ![plan.run] = "workspace"] /\ lane' = lane
        BY <1>7, <2>3 DEF CommitPrepared, End
      <3>2. status[plan.run] = "preparing"
        BY <2>1, <2>3, <1>f DEF PlanFits
      <3>3. "failed" \in Statuses \ {"none", "queued", "preparing", "starting"}
        BY DEF Statuses, Terminal
      <3> QED
        BY <1>t, <1>e, <1>k, <2>1, <3>1, <3>2, <3>3, CommitEndsRun
    <2>4. CASE plan.kind = "retry"
      <3>1. /\ status' = [status EXCEPT ![plan.run] = "preparing"]
            /\ class' = [class EXCEPT ![plan.run] = "none"] /\ lane' = lane
        BY <1>7, <2>4 DEF CommitPrepared
      <3>2. NotBegun(plan.run)
        BY <2>1, <2>4, <1>f DEF PlanFits, NotBegun
      <3>3. MovesRun(plan.run) /\ \A o \in Runs : SameRun(o) \/ MovesRun(o)
        BY <1>t, <2>1, <3>1, <3>2, CommitMovesRun
      <3> QED
        BY <1>k, <2>1, <3>1, <3>3
    <2> QED
      BY <1>7, <2>2, <2>3, <2>4 DEF CommitPrepared
  <1>8. CASE CommitLaunch
    <2>1. plan.run \in Runs /\ status[plan.run] = "queued"
      BY <1>8, <1>t, <1>f DEF CommitLaunch, PlanNames, PlanFits
    <2>2. UNCHANGED <<attempt, prompt, turn, step>> /\ plan' = NoPlan
      BY <1>8 DEF CommitLaunch, turnVars
    <2>3. CASE /\ status' = [status EXCEPT ![plan.run] = "starting"] /\ class' = class
               /\ lane' = Append(lane, Effect("start", plan.run, 1, 0))
      <3>1. status'[plan.run] = "starting"
        BY <1>l, <2>1, <2>3
      <3>2. MovesRun(plan.run) /\ \A o \in Runs : SameRun(o) \/ MovesRun(o)
        BY <1>t, <1>e, <2>1, <2>2, <2>3, CommitMovesRun
      <3> QED
        BY <1>k, <1>s, <2>1, <2>2, <2>3, <3>1, <3>2
    <2>4. CASE /\ status' = [status EXCEPT ![plan.run] = "failed"] /\ lane' = lane
               /\ \E c \in {"provider", "validation"} : class' = [class EXCEPT ![plan.run] = c]
      <3>3. "failed" \in Statuses \ {"none", "queued", "preparing", "starting"}
        BY DEF Statuses, Terminal
      <3>1. LeavesRun(plan.run) /\ \A o \in Runs : o # plan.run => SameRun(o)
        BY <1>t, <2>1, <2>2, <2>4, <3>3, CommitEndsRun
      <3> QED
        BY <1>k, <2>2, <2>4, <3>1
    <2>5. \/ /\ status' = [status EXCEPT ![plan.run] = "starting"] /\ class' = class
             /\ lane' = Append(lane, Effect("start", plan.run, 1, 0))
          \/ /\ status' = [status EXCEPT ![plan.run] = "failed"] /\ lane' = lane
             /\ \E c \in {"provider", "validation"} : class' = [class EXCEPT ![plan.run] = c]
      BY <1>8 DEF CommitLaunch, End
    <2> QED
      BY <2>3, <2>4, <2>5
  <1> QED
    BY <1>1, <1>2, <1>3, <1>4, <1>5, <1>6, <1>7, <1>8

\* A message joins a run: it steers the turn, or the run is started again.
LEMMA JoinStarts ==
    ASSUME AInv, AInv', UInv, CommitJoin
    PROVE  UInv'
  <1>t. TypeOK /\ TypeOK' /\ TypeInv /\ Addressed /\ plan.kind \in {"steer", "restart"}
    BY DEF AInv, TypeInv, CommitJoin, Committing
  <1> DEFINE r == plan.run
             q == plan.from
             n == NextAttempt(r)
  <1>l. /\ lane \in Seq(Effects) /\ status \in [Runs -> Statuses] /\ class \in [Runs -> Classes]
        /\ attempt \in [Runs -> Attempts] /\ From(lane, lane, 1 .. Len(lane))
    BY <1>t, FromSame DEF TypeOK, Same
  <1>f. StepOnHead /\ AttemptsInOrder /\ \A o \in Runs : RunFits(o) /\ PlanFits(o)
    BY DEF UInv
  <1>1. /\ r \in Runs /\ plan.att \in Attempts /\ n \in Attempts /\ plan.msg \in Messages
        /\ q \in Runs \cup {0}
    BY <1>t DEF TypeInv, PlanNames, Addressed, MessagePlans
  <1>2. ~NotBegun(r) /\ class[r] # "workspace"
    BY <1>1, <1>f, <1>t, NoWorkspace DEF PlanFits
  <1>3. q # 0 => status[q] = "queued" /\ class[q] # "workspace" /\ q # r
    BY <1>1, <1>2, <1>f, <1>t, NoWorkspace DEF PlanFits, NotBegun
  <1>4. \A o \in Runs : LeaveQueue(status, q)[o] = IF o = q /\ q # 0 THEN "cancelled" ELSE status[o]
    BY <1>l DEF LeaveQueue
  <1>5. LeaveQueue(status, q) \in [Runs -> Statuses]
    BY <1>l DEF LeaveQueue, Statuses, Terminal
  <1>6. /\ UNCHANGED <<class, turn, step>> /\ plan' = NoPlan
    BY DEF CommitJoin, turnVars
  <1>7. StepGoes /\ PlanIsOver /\ \A o \in Runs : TurnsGo(o)
    BY <1>6, NoPlanIsOver DEF StepGoes, TurnsGo
  <1>8. CASE plan.kind = "steer"
    <2>1. /\ status' = LeaveQueue(status, q) /\ UNCHANGED <<attempt, prompt>>
          /\ lane' = Append(lane, Effect("steer", r, plan.att, plan.msg))
      BY <1>8 DEF CommitJoin
    <2>2. Effect("steer", r, plan.att, plan.msg) \in Effects
          /\ ~ForBegun(Effect("steer", r, plan.att, plan.msg))
      BY <1>1, EffectTyped DEF Others, Starts, Effect, ForBegun
    <2>3. ASSUME NEW o \in Runs PROVE SameRun(o) \/ LeavesRun(o)
      BY <1>3, <1>4, <1>6, <2>1 DEF SameRun, LeavesRun
    <2>4. AttemptsInOrder'
      BY <1>f, <1>4, <2>1, AttemptsKept
    <2>5. StepOnHead'
      BY <1>f, <1>t, <1>6, <2>1, <2>2, StillOnHead
    <2> QED
      BY <1>l, <1>t, <1>7, <2>1, <2>2, <2>3, <2>4, <2>5, StartsGoOn
  <1>9. CASE plan.kind = "restart"
    <2>1. /\ status' = [LeaveQueue(status, q) EXCEPT ![r] = "starting"]
          /\ attempt' = [attempt EXCEPT ![r] = n]
          /\ prompt' = [prompt EXCEPT ![<<r, n>>] = plan.msg]
          /\ lane' = Append(lane, Effect("restart", r, plan.att, 0))
      BY <1>9 DEF CommitJoin
    <2> HIDE DEF n
    <2>2. Effect("restart", r, plan.att, 0) \in Effects /\ Effect("restart", r, plan.att, 0).run = r
      BY <1>1, EffectTyped DEF Starts, Effect
    <2>3. /\ turn[<<r, n>>] = "none"
          /\ Executing(r) => step.att # n
      BY <1>1, <1>f, <1>t, NextIsFresh DEF n
    <2>4. RestartsRun(r)
      <3>1. status'[r] = "starting" /\ attempt'[r] = n /\ class'[r] = class[r]
        BY <1>1, <1>5, <1>6, <1>l, <2>1
      <3> QED
        BY <1>2, <2>3, <3>1 DEF RestartsRun
    <2>5. ASSUME NEW o \in Runs, o # r PROVE SameRun(o) \/ LeavesRun(o)
      <3>1. status'[o] = LeaveQueue(status, q)[o] /\ attempt'[o] = attempt[o] /\ class'[o] = class[o]
        BY <1>1, <1>5, <1>6, <1>l, <2>1, <2>5
      <3> QED
        BY <1>3, <1>4, <2>5, <3>1 DEF SameRun, LeavesRun
    <2>6. AttemptsInOrder'
      <3>1. status'[r] # "none"
        BY <2>4 DEF RestartsRun
      <3>2. \A o \in Runs : o # r /\ status'[o] = "none" => status[o] = "none"
        BY <2>5 DEF SameRun, LeavesRun
      <3>3. plan.msg # 0
        BY <1>1, Smallest
      <3>4. /\ NextAttempt(r) \in Attempts
            /\ prompt' = [prompt EXCEPT ![<<r, NextAttempt(r)>>] = plan.msg]
        BY <1>1, <2>1 DEF n
      <3> QED
        BY <1>f, <1>t, <1>1, <3>1, <3>2, <3>3, <3>4, AttemptsGrow
    <2>7. StepOnHead'
      BY <1>f, <1>t, <1>6, <2>1, <2>2, StillOnHead
    <2>8. \E e \in Effects : lane' = Append(lane, e) /\ ~NotBegun(e.run)'
      <3>1. status'[r] = "starting" /\ class'[r] # "workspace"
        BY <2>4 DEF RestartsRun
      <3>2. PICK e \in Effects : lane' = Append(lane, e) /\ e.run = r
        BY <2>1, <2>2
      <3> QED
        BY <3>1, <3>2 DEF NotBegun
    <2> HIDE DEF r
    <2>9. \A o \in Runs : SameRun(o) \/ LeavesRun(o) \/ RestartsRun(o)
      BY <2>4, <2>5
    <2> QED
      BY <1>l, <1>t, <1>7, <2>6, <2>7, <2>8, <2>9, StartsGoOn
  <1> QED
    BY <1>t, <1>8, <1>9

\* Stop takes the starts out of the lane; the turn that the executor had asked
\* for by then begins all the same.
LEMMA StopStarts ==
    ASSUME AInv, AInv', UInv, CommitStop
    PROVE  UInv'
  <1>t. TypeOK /\ TypeOK' /\ TypeInv
    BY DEF AInv, TypeInv
  <1>l. /\ lane \in Seq(Effects) /\ status \in [Runs -> Statuses]
        /\ turn \in [Attempted -> TurnStages] /\ step.run \in Runs /\ step.att \in Attempts
    BY <1>t DEF TypeOK, Attempted, Steps
  <1>f. StepOnHead /\ AttemptsInOrder
    BY DEF UInv
  <1> DEFINE r == plan.run
             busy == lane # << >> /\ step.at # "idle" /\ Head(lane).kind \in Starts
  <1>1. r \in Runs
    BY <1>t DEF CommitStop, Committing, TypeInv, PlanNames
  <1>2. /\ status' = [status EXCEPT ![r] = "interrupted"] /\ class' = [class EXCEPT ![r] = "none"]
        /\ UNCHANGED <<attempt, prompt>> /\ plan' = NoPlan
        /\ lane' = Only(lane, EffectsOf(Others))
        /\ step' = IF busy THEN Idle ELSE step
        /\ \/ turn' = turn
           \/ /\ busy /\ step.at = "cleared"
              /\ turn' = [turn EXCEPT ![<<step.run, step.att>>] = "begun"]
    BY DEF CommitStop, End
  <1>3. LeavesRun(r) /\ \A o \in Runs : o # r => SameRun(o)
    BY <1>t, <1>1, <1>2, CommitEndsRun DEF Terminal, Statuses
  <1>4. ASSUME NEW o \in Runs PROVE TurnsGo(o)
    <2>1. CASE turn' = turn
      BY <2>1 DEF TurnsGo
    <2>2. CASE busy /\ step.at = "cleared" /\ turn' = [turn EXCEPT ![<<step.run, step.att>>] = "begun"]
      <3>1. \A a \in Attempts : <<o, a>> \in Attempted
        BY DEF Attempted
      <3>2. \A a \in Attempts : turn'[<<o, a>>] = IF <<o, a>> = <<step.run, step.att>> THEN "begun"
                                                  ELSE turn[<<o, a>>]
        BY <1>l, <2>2, <3>1
      <3>3. ~Executing(o)'
        BY <1>2, <2>2 DEF Executing, Idle
      <3> QED
        BY <2>2, <3>2, <3>3 DEF TurnsGo
    <2> QED
      BY <1>2, <2>1, <2>2
  <1>5. StepGoes /\ PlanIsOver
    BY <1>2, NoPlanIsOver DEF StepGoes, Idle
  <1>6. AttemptsInOrder'
    BY <1>f, <1>2, <1>3, AttemptsKept DEF SameRun, LeavesRun
  <1>7. lane' \in Seq(Effects)
        /\ From(lane', lane, {i \in 1 .. Len(lane) : lane[i] \in EffectsOf(Others)})
    BY <1>l, <1>2, OnlyShape, FromOnly
  <1>8. StepOnHead'
    <2>1. CASE step' = Idle
      BY <2>1 DEF StepOnHead, Idle
    <2>2. CASE step' = step /\ ~busy
      <3>1. step.at \notin {"opening", "opened", "cleared"}
        <4>1. step.at # "idle" => lane # << >> /\ Head(lane) = lane[1]
          BY <1>l, <1>t DEF TypeInv, StepHasEffect
        <4> QED
          BY <1>f, <2>2, <4>1 DEF StepOnHead
      <3>2. step.at = "followup" => lane'[1].kind = "steer"
        <4>1. SUFFICES ASSUME step.at = "followup" PROVE lane'[1].kind = "steer"
          OBVIOUS
        <4>2. lane # << >> /\ lane[1].kind = "steer"
          BY <1>f, <1>t, <4>1 DEF StepOnHead, TypeInv, StepHasEffect
        <4>3. lane[1] \in EffectsOf(Others)
          <5>1. lane[1] \in Effects
            BY <1>l, <4>2
          <5> QED
            BY <4>2, <5>1 DEF Effects, EffectsOf, Others
        <4>4. lane'[1] = lane[1]
          BY <1>l, <1>2, <4>2, <4>3, OnlyKeepsFirst
        <4> QED
          BY <4>2, <4>4
      <3> QED
        BY <2>2, <3>1, <3>2 DEF StepOnHead
    <2> QED
      BY <1>2, <2>1, <2>2
  <1> HIDE DEF r
  <1>9. \A o \in Runs : SameRun(o) \/ LeavesRun(o)
    BY <1>3
  <1> QED
    BY <1>t, <1>4, <1>5, <1>6, <1>7, <1>8, <1>9, StartsGoOn

LEMMA WorkerStarts ==
    ASSUME AInv, AInv', UInv, Worker
    PROVE  UInv'
  <1>t. TypeOK /\ TypeOK' /\ TypeInv
    BY DEF AInv, TypeInv
  <1>h. StepHolds
    BY DEF AInv, HInv
  <1>l. /\ lane \in Seq(Effects) /\ status \in [Runs -> Statuses] /\ class \in [Runs -> Classes]
        /\ attempt \in [Runs -> Attempts] /\ turn \in [Attempted -> TurnStages]
        /\ step.run \in Runs /\ step.att \in Attempts
    BY <1>t DEF TypeOK, Attempted, Steps
  <1>f. StepOnHead /\ AttemptsInOrder /\ LaneFits /\ \A r \in Runs : RunFits(r) /\ PlanFits(r)
    BY DEF UInv
  <1>w. \E K \in SUBSET (1 .. Len(lane)) : lane' \in Seq(Effects) /\ From(lane', lane, K)
    BY <1>t, WorkerLane
  <1>e. Idle.at = "idle"
    BY DEF Idle
  \* The executor stops, and may have moved its run on.
  <1>k. ASSUME UNCHANGED <<prompt, plan, turn>>,
               step' \in {step, Idle} \/ step'.at \in {"awaiting", "followup"},
               StepOnHead',
               \/ UNCHANGED <<status, class, attempt>>
               \/ /\ ~NotBegun(step.run) /\ LeavesRun(step.run)
                  /\ \A r \in Runs : r # step.run => SameRun(r)
        PROVE  UInv'
    <2>1. \A r \in Runs : SameRun(r) \/ (LeavesRun(r) /\ ~NotBegun(r))
      BY <1>k DEF SameRun
    <2>2. StepGoes /\ \A r \in Runs : TurnsGo(r)
      BY <1>k, <1>e DEF StepGoes, TurnsGo
    <2>3. AttemptsInOrder'
      BY <1>k, <1>f, <2>1, AttemptsKept DEF SameRun, LeavesRun
    <2> QED
      BY <1>k, <1>t, <1>w, <2>1, <2>2, <2>3, StartsGoOn
  \* The executor of a start goes on.
  <1>g. ASSUME UNCHANGED <<prompt, plan, turn, attempt, class, lane>>,
               \A r \in Runs : SameRun(r) \/ (LeavesRun(r) /\ ~NotBegun(r)),
               StepOnHead',
               \A r \in Runs : RunFits(r)'
        PROVE  UInv'
    <2>1. AttemptsInOrder'
      BY <1>g, <1>f, AttemptsKept DEF SameRun, LeavesRun
    <2>2. \A r \in Runs : PlanFits(r)'
      BY <1>g, <1>f, PlanGoesOn
    <2>3. \A r \in Runs : NotBegun(r)' => NotBegun(r)
      BY <1>g, BegunStays
    <2>4. LaneFits'
      <3>1. \A i \in 1 .. Len(lane) : lane[i].run \in Runs
        <4>1. \A i \in 1 .. Len(lane) : lane[i] \in Effects
          BY <1>l
        <4> QED
          BY <4>1 DEF Effects, EffectsOf
      <3> QED
        BY <1>f, <1>g, <2>3, <3>1 DEF LaneFits, ForBegun
    <2> QED
      BY <1>g, <2>1, <2>2, <2>4 DEF UInv
  <1>i. step' = Idle => StepOnHead'
    BY <1>e DEF StepOnHead
  <1>b. step.at \in {"opening", "opened", "cleared", "capturing"} =>
          /\ ~NotBegun(step.run) /\ class[step.run] # "workspace"
    <2>1. step.at \in {"opening", "opened", "cleared", "capturing"} => ~NotBegun(step.run)
      BY <1>f, <1>l DEF RunFits, Executing
    <2> QED
      BY <1>l, <2>1, NoWorkspace
  \* A write that ends or moves on the run of the executor.
  <1>m. ASSUME step.at \in {"opening", "opened", "cleared", "capturing"},
               NEW to \in Statuses \ {"none", "queued", "preparing", "starting"},
               status' = [status EXCEPT ![step.run] = to],
               class' = class \/ class' = [class EXCEPT ![step.run] = "provider"],
               \A r \in Runs : r # step.run => attempt'[r] = attempt[r]
        PROVE  /\ ~NotBegun(step.run) /\ LeavesRun(step.run)
               /\ \A r \in Runs : r # step.run => SameRun(r)
    BY <1>m, <1>b, <1>l, <1>t, CommitEndsRun
  <1>s. ~ForBegun(lane[1]) \/ lane = << >> \/ ~NotBegun(lane[1].run)
    BY <1>f, <1>l DEF LaneFits
  <1>1. CASE StartLoads
    <2>1. /\ UNCHANGED <<status, class, attempt, prompt, plan, turn>>
          /\ lane # << >> /\ Head(lane).kind \in Starts
      BY <1>1 DEF StartLoads, At, runVars, turnVars, Starts
    <2> DEFINE r == lane[1].run
    <2>2. Head(lane) = lane[1] /\ r \in Runs
      BY <1>t, <1>l, <2>1, FirstTyped
    <2>3. CASE step' = Idle
      BY <1>i, <1>k, <2>1, <2>3
    <2>4. CASE /\ status[r] = "starting" /\ UNCHANGED lane
               /\ step' = [at |-> "opening", run |-> r, att |-> attempt[r], was |-> "starting"]
      <3>1. StepOnHead'
        BY <2>1, <2>2, <2>4 DEF StepOnHead
      <3>2. ~NotBegun(r)
        BY <1>s, <2>1, <2>2 DEF ForBegun
      <3>3. \A o \in Runs : RunFits(o)'
        BY <1>f, <2>1, <2>4, <3>2 DEF RunFits, NotBegun, Executing
      <3> QED
        BY <1>g, <2>1, <2>4, <3>1, <3>3 DEF SameRun
    <2> QED
      BY <1>1, <2>2, <2>3, <2>4 DEF StartLoads, LoadRun, Settle
  <1>2. CASE RestartInterrupts \/ RestartTimesOut \/ StartFails \/ CaptureFails \/ Interrupt
    <2>1. /\ UNCHANGED <<status, class, attempt, prompt, plan, turn>>
          /\ step'.at \in {"idle", "awaiting"} /\ (step' = Idle \/ step'.at = "awaiting")
      <3>1. CASE RestartInterrupts \/ Interrupt
        BY <3>1 DEF RestartInterrupts, Interrupt, Settle, runVars, Idle
      <3>2. CASE RestartTimesOut \/ StartFails \/ CaptureFails
        <4>1. step' = Idle
          BY <1>t, <3>2, TryAgainTyped DEF RestartTimesOut, StartFails, CaptureFails, At
        <4> QED
          BY <3>2, <4>1, <1>e DEF RestartTimesOut, StartFails, CaptureFails, runVars, turnVars
      <3> QED
        BY <1>2, <3>1, <3>2
    <2>2. StepOnHead'
      BY <2>1 DEF StepOnHead
    <2> QED
      BY <1>k, <2>1, <2>2
  <1>3. CASE SessionOpens
    <2>1. /\ UNCHANGED <<class, attempt, prompt, plan, turn>> /\ step.at = "opening"
          /\ lane # << >>
      BY <1>3 DEF SessionOpens, At, turnVars
    <2>2. CASE step' = Idle /\ status' = status
      BY <1>i, <1>k, <2>1, <2>2
    <2>3. CASE /\ IsCurrent(step.run, step.att, "starting")
               /\ status' = [status EXCEPT ![step.run] = "running"]
               /\ step' = [step EXCEPT !.at = "opened"] /\ UNCHANGED lane
      <3>1. step'.at = "opened" /\ step'.run = step.run /\ step'.att = step.att
        BY <1>t, <2>3 DEF TypeOK, Steps
      <3>2. StepOnHead'
        BY <1>f, <2>1, <2>3, <3>1 DEF StepOnHead
      <3>3. "running" \in Statuses \ {"none", "queued", "preparing", "starting"}
        BY DEF Statuses, Blocking
      <3>4. /\ ~NotBegun(step.run) /\ LeavesRun(step.run)
            /\ \A r \in Runs : r # step.run => SameRun(r)
        BY <1>m, <2>1, <2>3, <3>3
      <3>5. ASSUME NEW o \in Runs PROVE RunFits(o)'
        <4>1. CASE o = step.run
          <5>1. status'[o] = "running" /\ class'[o] # "workspace" /\ Executing(o)
            BY <1>b, <1>l, <2>1, <2>3, <4>1 DEF Executing
          <5>2. turn[<<o, step.att>>] = "none"
            BY <1>f, <5>1 DEF RunFits
          <5> QED
            BY <2>1, <3>1, <5>1, <5>2, <4>1 DEF RunFits, NotBegun, Executing
        <4>2. CASE o # step.run
          <5>1. status'[o] = status[o]
            BY <3>4, <4>2 DEF SameRun
          <5> QED
            BY <1>f, <2>1, <3>1, <4>2, <5>1 DEF RunFits, NotBegun, Executing
        <4> QED
          BY <4>1, <4>2
      <3> QED
        BY <1>g, <2>1, <2>3, <3>2, <3>4, <3>5
    <2> QED
      BY <1>3, <2>2, <2>3 DEF SessionOpens, Settle
  <1>4. CASE SessionFails
    <2>1. /\ UNCHANGED <<attempt, prompt, plan, turn>> /\ step.at = "opening" /\ step' = Idle
      BY <1>4, <1>t, TryAgainTyped DEF SessionFails, At, turnVars
    <2>2. \/ UNCHANGED <<status, class>>
          \/ /\ status' = [status EXCEPT ![step.run] = "failed"]
             /\ class' = [class EXCEPT ![step.run] = "provider"]
      BY <1>4, <1>t DEF SessionFails, End, TypeOK
    <2>3. "failed" \in Statuses \ {"none", "queued", "preparing", "starting"}
      BY DEF Statuses, Terminal
    <2> QED
      BY <1>i, <1>k, <1>m, <2>1, <2>2, <2>3
  <1>5. CASE TurnClears
    <2>1. /\ UNCHANGED <<status, class, attempt, prompt, plan, turn>> /\ step.at = "opened"
          /\ lane # << >>
      BY <1>5 DEF TurnClears, At, runVars, turnVars
    <2>2. CASE step' = Idle
      BY <1>i, <1>k, <2>1, <2>2
    <2>3. CASE /\ IsCurrent(step.run, step.att, "running")
               /\ step' = [step EXCEPT !.at = "cleared"] /\ UNCHANGED lane
      <3>1. step'.at = "cleared" /\ step'.run = step.run /\ step'.att = step.att
        BY <1>t, <2>3 DEF TypeOK, Steps
      <3>2. StepOnHead'
        BY <1>f, <2>1, <2>3, <3>1 DEF StepOnHead
      <3>3. \A o \in Runs : RunFits(o)'
        BY <1>f, <2>1, <3>1 DEF RunFits, NotBegun, Executing
      <3> QED
        BY <1>g, <2>1, <2>3, <3>2, <3>3 DEF SameRun
    <2> QED
      BY <1>5, <2>2, <2>3 DEF TurnClears, Settle
  <1>6. CASE TurnBegins
    <2>1. /\ UNCHANGED <<status, class, attempt, prompt, plan>> /\ step.at = "cleared"
          /\ step' = Idle
          /\ turn' = [turn EXCEPT ![<<step.run, step.att>>] = "begun"]
      BY <1>6 DEF TurnBegins, At, Settle, runVars
    <2>2. ASSUME NEW o \in Runs PROVE TurnsGo(o)
      <3>1. \A a \in Attempts : <<o, a>> \in Attempted
        BY DEF Attempted
      <3>2. \A a \in Attempts : turn'[<<o, a>>] = IF <<o, a>> = <<step.run, step.att>> THEN "begun"
                                                  ELSE turn[<<o, a>>]
        BY <1>l, <2>1, <3>1
      <3>3. ~Executing(o)'
        BY <2>1 DEF Executing, Idle
      <3> QED
        BY <2>1, <3>2, <3>3 DEF TurnsGo
    <2>3. StepGoes /\ \A r \in Runs : SameRun(r)
      BY <2>1, <1>e DEF StepGoes, SameRun
    <2>4. AttemptsInOrder'
      BY <1>f, <2>1, AttemptsKept
    <2> QED
      BY <1>i, <1>t, <1>w, <2>1, <2>2, <2>3, <2>4, StartsGoOn
  <1>7. CASE TurnRefused
    <2>1. /\ UNCHANGED <<attempt, prompt, plan, turn>> /\ step.at = "cleared" /\ step' = Idle
      BY <1>7 DEF TurnRefused, At, Settle, turnVars
    <2>2. \/ UNCHANGED <<status, class>>
          \/ /\ status' = [status EXCEPT ![step.run] = "failed"]
             /\ class' = [class EXCEPT ![step.run] = "provider"]
      BY <1>7 DEF TurnRefused, End
    <2>3. "failed" \in Statuses \ {"none", "queued", "preparing", "starting"}
      BY DEF Statuses, Terminal
    <2> QED
      BY <1>i, <1>k, <1>m, <2>1, <2>2, <2>3
  <1>8. CASE Steer
    <2>1. /\ UNCHANGED <<status, class, attempt, prompt, plan, turn>>
          /\ lane # << >> /\ Head(lane).kind = "steer"
      BY <1>8 DEF Steer, At, runVars, turnVars
    <2>2. step' = Idle \/ (step'.at = "followup" /\ UNCHANGED lane)
      BY <1>8, <1>t, <2>1, TryAgainTyped DEF Steer, Settle, Idle
    <2>3. StepOnHead'
      BY <1>l, <2>1, <2>2, <1>e DEF StepOnHead
    <2> QED
      BY <1>k, <2>1, <2>2, <2>3
  <1>9. CASE FollowUp
    BY <1>9, CommandStarts
  <1>10. CASE CaptureLoads
    <2>1. /\ UNCHANGED <<status, class, attempt, prompt, plan, turn>>
          /\ lane # << >> /\ Head(lane).kind = "capture"
      BY <1>10 DEF CaptureLoads, At, runVars, turnVars
    <2> DEFINE r == lane[1].run
    <2>2. Head(lane) = lane[1] /\ r \in Runs
      BY <1>t, <1>l, <2>1, FirstTyped
    <2>3. CASE step' = Idle
      BY <1>i, <1>k, <2>1, <2>3
    <2>4. CASE /\ UNCHANGED lane
               /\ step' = [at |-> "capturing", run |-> r, att |-> attempt[r], was |-> status[r]]
      <3>1. StepOnHead'
        BY <2>4 DEF StepOnHead
      <3>2. ~NotBegun(r)
        BY <1>s, <2>1, <2>2 DEF ForBegun
      <3>3. \A o \in Runs : RunFits(o)'
        BY <1>f, <2>1, <2>4, <3>2 DEF RunFits, NotBegun, Executing
      <3> QED
        BY <1>g, <2>1, <2>4, <3>1, <3>3 DEF SameRun
    <2> QED
      BY <1>10, <1>t, <2>1, <2>2, <2>3, <2>4, TryAgainTyped DEF CaptureLoads, Settle
  <1>11. CASE CaptureCommits
    <2>1. /\ UNCHANGED <<class, prompt, plan, turn>> /\ step.at = "capturing" /\ step' = Idle
          /\ attempt' = [attempt EXCEPT ![step.run] = step.att]
          /\ status' = [status EXCEPT ![step.run] =
                          IF step.was = "waiting" THEN "completed" ELSE step.was]
      BY <1>11 DEF CaptureCommits, At, Settle, turnVars
    <2>2. step.was \in {"waiting", "interrupted", "cancelled"}
      BY <1>h, <2>1 DEF StepHolds
    <2>3. PICK to \in Statuses \ {"none", "queued", "preparing", "starting"} :
            status' = [status EXCEPT ![step.run] = to]
      BY <2>1, <2>2 DEF Statuses, Terminal
    <2>4. \A r \in Runs : r # step.run => attempt'[r] = attempt[r]
      BY <1>l, <2>1
    <2> QED
      BY <1>i, <1>k, <1>m, <2>1, <2>3, <2>4
  <1> QED
    BY <1>1, <1>2, <1>3, <1>4, <1>5, <1>6, <1>7, <1>8, <1>9, <1>10, <1>11 DEF Worker

LEMMA IngestionStarts ==
    ASSUME AInv, AInv', UInv, NEW x \in Attempted, Ingestion(x)
    PROVE  UInv'
  <1>t. TypeOK /\ TypeOK' /\ TypeInv
    BY DEF AInv, TypeInv
  <1>l. /\ lane \in Seq(Effects) /\ status \in [Runs -> Statuses] /\ class \in [Runs -> Classes]
        /\ attempt \in [Runs -> Attempts] /\ turn \in [Attempted -> TurnStages]
        /\ From(lane, lane, 1 .. Len(lane))
    BY <1>t, FromSame DEF TypeOK, Attempted, Same
  <1>x. x[1] \in Runs /\ x[2] \in Attempts /\ x = <<x[1], x[2]>>
    BY DEF Attempted
  <1>f. StepOnHead /\ AttemptsInOrder /\ \A r \in Runs : RunFits(r) /\ PlanFits(r)
    BY DEF UInv
  <1>1. /\ UNCHANGED <<prompt, step, plan>> /\ turn[x] # "none"
        /\ \E to \in TurnStages \ {"none"} : turn' = [turn EXCEPT ![x] = to]
    BY DEF Ingestion, TurnProjected, TurnEnds, Decide, Finalize, TurnStages, runVars, laneVars
  <1>2. ~NotBegun(x[1]) /\ class[x[1]] # "workspace"
    <2>0. x[1] \in Runs /\ x[2] \in Attempts /\ turn[<<x[1], x[2]>>] # "none"
      BY <1>1, <1>x
    <2>1. ~NotBegun(x[1])
      BY <1>f, <2>0 DEF RunFits
    <2> QED
      BY <1>x, <2>1, NoWorkspace
  <1>3. \/ UNCHANGED <<status, class, attempt>>
        \/ LeavesRun(x[1]) /\ \A r \in Runs : r # x[1] => SameRun(r)
    <2>1. CASE Finalize(x)
      <3>1. attempt' = [attempt EXCEPT ![x[1]] = x[2]]
        BY <2>1 DEF Finalize
      <3>2. \A r \in Runs : r # x[1] => attempt'[r] = attempt[r]
        BY <1>l, <3>1
      <3>3. PICK to \in {"waiting", "interrupted", "failed"} :
               /\ status' = [status EXCEPT ![x[1]] = to]
               /\ \/ class' = class
                  \/ \E c \in {"none", "provider", "limit"} : class' = [class EXCEPT ![x[1]] = c]
        BY <2>1 DEF Finalize, End
      <3>4. to \in Statuses \ {"none", "queued", "preparing", "starting"}
        BY DEF Statuses, Blocking, Terminal
      <3> QED
        BY <1>t, <1>x, <1>2, <3>2, <3>3, <3>4, CommitEndsRun
    <2>2. CASE TurnProjected(x) \/ TurnEnds(x) \/ Decide(x)
      BY <2>2 DEF TurnProjected, TurnEnds, Decide, runVars
    <2> QED
      BY <2>1, <2>2 DEF Ingestion
  <1>4. \A r \in Runs : SameRun(r) \/ (LeavesRun(r) /\ ~NotBegun(r))
    BY <1>2, <1>3 DEF SameRun
  <1>5. ASSUME NEW r \in Runs PROVE TurnsGo(r)
    <2>1. \A a \in Attempts : <<r, a>> \in Attempted
      BY DEF Attempted
    <2> QED
      BY <1>1, <1>l, <2>1 DEF TurnsGo
  <1>6. StepGoes /\ AttemptsInOrder'
    BY <1>1, <1>4, <1>f, AttemptsKept DEF StepGoes, SameRun, LeavesRun
  <1>7. \/ lane' = lane
        \/ \E e \in Effects : lane' = Append(lane, e) /\ (ForBegun(e) => ~NotBegun(e.run)')
    <2>1. Effect("capture", x[1], x[2], 0) \in Effects /\ Effect("capture", x[1], x[2], 0).run = x[1]
      BY <1>x, EffectTyped DEF Others, Effect
    <2>2. lane' = lane \/ lane' = Append(lane, Effect("capture", x[1], x[2], 0))
      BY DEF Ingestion, TurnProjected, TurnEnds, Decide, Finalize, laneVars
    <2>3. ~NotBegun(x[1])'
      BY <1>2, <1>4, <1>x DEF SameRun, LeavesRun, NotBegun
    <2> QED
      BY <2>1, <2>2, <2>3
  <1>8. StepOnHead'
    BY <1>1, <1>7, <1>f, <1>t, StillOnHead
  <1> QED
    BY <1>1, <1>4, <1>5, <1>6, <1>7, <1>8, <1>l, <1>t, StartsGoOn

LEMMA RestartStarts ==
    ASSUME AInv, AInv', UInv, ServerRestarts
    PROVE  UInv'
  <1>t. TypeOK /\ TypeOK'
    BY DEF AInv, TypeInv
  <1>l. lane \in Seq(Effects) /\ status \in [Runs -> Statuses]
    BY <1>t DEF TypeOK
  <1>1. /\ UNCHANGED <<attempt, prompt, class>> /\ step' = Idle /\ plan' = NoPlan
        /\ lane' = Only(lane, EffectsOf({"capture"}))
        /\ \E lost \in SUBSET BlockingRuns :
              status' = [r \in Runs |-> IF r \in lost THEN "cancelled" ELSE status[r]]
        /\ turn' = [x \in Runs \X Attempts |-> IF turn[x] = "none" THEN "none" ELSE "done"]
    <2>1. \A S, T : {r \in S : r \in T} \subseteq S
      OBVIOUS
    <2> QED
      BY DEF ServerRestarts, BlockingRuns
  <1>2. ASSUME NEW r \in Runs PROVE SameRun(r) \/ LeavesRun(r)
    <2>1. status'[r] = status[r] \/ (status'[r] = "cancelled" /\ status[r] \in Blocking)
      BY <1>1 DEF BlockingRuns
    <2> QED
      BY <1>1, <2>1, NoWorkspace DEF SameRun, LeavesRun, Blocking
  <1>3. StepGoes /\ PlanIsOver /\ StepOnHead'
    BY <1>1, NoPlanIsOver DEF StepGoes, StepOnHead, Idle
  <1>4. \A r \in Runs : TurnsGo(r)
    <2>1. \A r \in Runs, a \in Attempts : turn'[<<r, a>>] = "none" <=> turn[<<r, a>>] = "none"
      BY <1>1
    <2> QED
      BY <2>1 DEF TurnsGo
  <1>5. AttemptsInOrder'
    BY <1>1, <1>2, AttemptsKept DEF UInv, SameRun, LeavesRun
  <1>6. lane' \in Seq(Effects)
        /\ From(lane', lane, {i \in 1 .. Len(lane) : lane[i] \in EffectsOf({"capture"})})
    BY <1>1, <1>l, OnlyShape, FromOnly
  <1> QED
    BY <1>2, <1>3, <1>4, <1>5, <1>6, <1>t, StartsGoOn

LEMMA UInvStarts == Init => UInv
  <1> SUFFICES ASSUME Init PROVE UInv
    OBVIOUS
  <1>1. /\ \A r \in Runs : status[r] = "none" /\ attempt[r] = 1 /\ class[r] = "none"
        /\ \A r \in Runs, a \in Attempts : prompt[<<r, a>>] = 0 /\ turn[<<r, a>>] = "none"
        /\ lane = << >> /\ step.at = "idle" /\ plan.kind = "none"
    BY DEF Init, Idle, NoPlan
  <1>2. AttemptsInOrder
    <2>1. \A r \in Runs : Used(r) = {}
      BY <1>1 DEF Used
    <2>2. 0 \in 0 .. MaxAttempts /\ 1 .. 0 = {}
      BY RunQueueAssumption
    <2> QED
      BY <2>1, <2>2 DEF AttemptsInOrder
  <1>3. \A r \in Runs : RunFits(r) /\ PlanFits(r)
    BY <1>1 DEF RunFits, PlanFits, NotBegun, Executing
  <1>4. LaneFits /\ StepOnHead
    BY <1>1 DEF LaneFits, StepOnHead
  <1> QED
    BY <1>2, <1>3, <1>4 DEF UInv

LEMMA UInvStays == AInv /\ UInv /\ [Next]_vars => UInv'
  <1> SUFFICES ASSUME AInv, UInv, [Next]_vars PROVE UInv'
    OBVIOUS
  <1>a. AInv'
    BY AInvStays
  <1>1. CASE SendFresh \/ SendJoining \/ Stop \/ Edit \/ Prepared \/ Listen \/ Lose
    BY <1>1, CommandStarts
  <1>2. CASE Commit
    BY <1>2, <1>a, SomeCommitsStart, JoinStarts, StopStarts DEF Commit
  <1>3. CASE Worker
    BY <1>3, <1>a, WorkerStarts
  <1>4. CASE \E x \in Attempted : Ingestion(x)
    BY <1>4, <1>a, IngestionStarts
  <1>5. CASE ServerRestarts
    BY <1>5, <1>a, RestartStarts
  <1>6. CASE UNCHANGED vars
    <2>1. UNCHANGED <<status, class, attempt, prompt, turn, lane, step, plan>>
      BY <1>6 DEF vars, runVars, turnVars, laneVars
    <2>2. \A r \in Runs : PlanFits(r)'
      BY <2>1 DEF UInv, PlanFits, NotBegun
    <2> QED
      BY <2>1, <2>2, PlanChanges
  <1> QED
    BY <1>1, <1>2, <1>3, <1>4, <1>5, <1>6 DEF Next

-----------------------------------------------------------------------------
(* A message is given to a provider once.                                  *)

\* The run may still start.
Ready(r) == status[r] \notin Terminal \/ class[r] = "workspace"

\* The attempt is the one the run would start, or the one an executor starts.
MayStart(x) ==
    \/ x[2] = attempt[x[1]] /\ Ready(x[1])
    \/ Executing(x[1]) /\ step.att = x[2]

\* The attempts that will give the message to a provider.
Waiters(m) == {x \in Attempted : prompt[x] = m /\ turn[x] = "none" /\ MayStart(x)}

\* The effect that will.
Carries(e, m) == e.kind = "steer" /\ e.msg = m

\* One of them has the message, and only before any provider does.
MessageFits(m) ==
    /\ given[m] \in {0, 1}
    /\ owner[m] = 0 => given[m] = 0
    /\ Waiters(m) # {} => given[m] = 0 /\ owner[m] # 0
    /\ \A i \in 1 .. Len(lane) : Carries(lane[i], m) => given[m] = 0 /\ owner[m] # 0
    /\ \A x, y \in Waiters(m) : x = y
    /\ \A i, j \in 1 .. Len(lane) : Carries(lane[i], m) /\ Carries(lane[j], m) => i = j
    /\ Waiters(m) # {} => \A i \in 1 .. Len(lane) : ~Carries(lane[i], m)

\* Messages are numbered as they are sent.
Sent == {m \in Messages : owner[m] # 0}
MessagesInOrder == \E k \in 0 .. MaxMessages : Sent = 1 .. k

\* The message a command brings is new, or the one of the steer effect that is
\* dispatched again, or the one of the queued run it promotes.
PlanMessage ==
    plan.kind \in MessagePlans =>
        \/ plan.from = 0 /\ plan.msg = NextMessage
        \/ /\ plan.kind \in {"queue", "begin"}
           /\ step.at = "followup" /\ lane[1].msg = plan.msg
        \/ /\ plan.kind \in {"steer", "restart"} /\ plan.from # 0
           /\ plan.msg = prompt[<<plan.from, attempt[plan.from]>>]

GInv == MessagesInOrder /\ PlanMessage /\ \A m \in Messages : MessageFits(m)

LEMMA NextMessageIsNew ==
    ASSUME MessagesInOrder
    PROVE  \E k \in 0 .. MaxMessages : Sent = 1 .. k /\ NextMessage = k + 1
  <1>1. PICK k \in 0 .. MaxMessages : Sent = 1 .. k
    BY DEF MessagesInOrder
  <1>2. Cardinality(1 .. k) = k
    BY <1>1, FS_Interval
  <1>3. NextMessage = 1 + Cardinality(Sent)
    BY DEF NextMessage, Sent
  <1> QED
    BY <1>1, <1>2, <1>3

LEMMA NewIsNotSent ==
    ASSUME MessagesInOrder, NextMessage \in Messages
    PROVE  owner[NextMessage] = 0
  <1>1. NextMessage \notin Sent
    BY NextMessageIsNew
  <1> QED
    BY <1>1 DEF Sent

\* A commit that records the message of its plan.
LEMMA MessagesGrow ==
    ASSUME TypeOK, MessagesInOrder, NEW m \in Messages, NEW r \in Runs,
           m = NextMessage \/ owner[m] # 0, owner' = [owner EXCEPT ![m] = r]
    PROVE  MessagesInOrder'
  <1>1. PICK k \in 0 .. MaxMessages : Sent = 1 .. k /\ NextMessage = k + 1
    BY NextMessageIsNew
  <1>2. Sent' = Sent \cup {m}
    BY Smallest DEF Sent, TypeOK
  <1>3. CASE m = NextMessage
    <2>1. Sent' = 1 .. k + 1 /\ k + 1 \in 0 .. MaxMessages
      BY <1>1, <1>2, <1>3 DEF Messages
    <2> QED
      BY <2>1 DEF MessagesInOrder
  <1>4. CASE owner[m] # 0
    <2>1. Sent' = Sent
      BY <1>2, <1>4 DEF Sent
    <2> QED
      BY <2>1 DEF MessagesInOrder
  <1> QED
    BY <1>3, <1>4

\* What carries a message in a lane that lost entries and got one without it.
LEMMA StillCarries ==
    ASSUME NEW m, NEW w \in Seq(Effects), NEW K \in SUBSET (1 .. Len(lane)), From(w, lane, K),
           \/ lane' = w
           \/ \E e \in Effects : lane' = Append(w, e) /\ ~Carries(e, m)
    PROVE  /\ \A i \in 1 .. Len(lane') :
                 Carries(lane'[i], m) => \E k \in K : Carries(lane[k], m)
           /\ (\A i, j \in K : Carries(lane[i], m) /\ Carries(lane[j], m) => i = j) =>
                 \A i, j \in 1 .. Len(lane') : Carries(lane'[i], m) /\ Carries(lane'[j], m) => i = j
  <1>1. PICK f \in [1 .. Len(w) -> K] :
          /\ \A i \in 1 .. Len(w) : Same(w[i], lane[f[i]])
          /\ \A i, j \in 1 .. Len(w) : f[i] = f[j] => i = j
    BY DEF From
  <1>2. /\ \A i \in 1 .. Len(lane') : Carries(lane'[i], m) => i \in 1 .. Len(w)
        /\ \A i \in 1 .. Len(w) : i \in 1 .. Len(lane') => lane'[i] = w[i]
    <2>1. CASE lane' = w
      BY <2>1
    <2>2. ASSUME NEW e \in Effects, lane' = Append(w, e), ~Carries(e, m)
          PROVE  /\ \A i \in 1 .. Len(lane') : Carries(lane'[i], m) => i \in 1 .. Len(w)
                 /\ \A i \in 1 .. Len(w) : i \in 1 .. Len(lane') => lane'[i] = w[i]
      <3>1. /\ Len(lane') = Len(w) + 1 /\ Len(w) \in Nat
            /\ \A i \in 1 .. Len(w) : lane'[i] = w[i]
            /\ lane'[Len(w) + 1] = e
        BY <2>2, AppendEntries
      <3> QED
        BY <2>2, <3>1
    <2> QED
      BY <2>1, <2>2
  <1>3. \A i \in 1 .. Len(w) : Carries(w[i], m) => Carries(lane[f[i]], m)
    BY <1>1 DEF Same, Carries
  <1> QED
    BY <1>1, <1>2, <1>3

\* A step that does not hand the message on.
LEMMA MessageKept ==
    ASSUME NEW m \in Messages, MessageFits(m), given'[m] = given[m], owner'[m] = owner[m],
           Waiters(m)' \subseteq Waiters(m),
           NEW w \in Seq(Effects), NEW K \in SUBSET (1 .. Len(lane)), From(w, lane, K),
           \/ lane' = w
           \/ \E e \in Effects : lane' = Append(w, e) /\ ~Carries(e, m)
    PROVE  MessageFits(m)'
  <1>1. /\ \A i \in 1 .. Len(lane') :
              Carries(lane'[i], m) => \E k \in 1 .. Len(lane) : Carries(lane[k], m)
        /\ \A i, j \in 1 .. Len(lane') : Carries(lane'[i], m) /\ Carries(lane'[j], m) => i = j
    <2>1. \A i, j \in K : Carries(lane[i], m) /\ Carries(lane[j], m) => i = j
      BY DEF MessageFits
    <2> QED
      BY <2>1, StillCarries
  <1>2. \A i \in 1 .. Len(lane') : Carries(lane'[i], m) => given[m] = 0 /\ owner[m] # 0
    BY <1>1 DEF MessageFits
  <1>3. Waiters(m)' # {} => Waiters(m) # {} /\ \A i \in 1 .. Len(lane') : ~Carries(lane'[i], m)
    BY <1>1 DEF MessageFits
  <1>4. \A x, y \in Waiters(m)' : x = y
    BY DEF MessageFits
  <1> QED
    BY <1>1, <1>2, <1>3, <1>4 DEF MessageFits, Carries

\* A step that hands it on: nobody has it but the one who gets it, if anybody
\* does.
LEMMA MessageMoves ==
    ASSUME NEW m \in Messages, owner'[m] # 0,
           NEW w \in Seq(Effects), NEW K \in SUBSET (1 .. Len(lane)), From(w, lane, K),
           \A i \in K : ~Carries(lane[i], m),
           \/ /\ given'[m] = 0
              /\ \E n : Waiters(m)' \subseteq {n}
              /\ \/ lane' = w
                 \/ \E e \in Effects : lane' = Append(w, e) /\ ~Carries(e, m)
           \/ /\ given'[m] = 0
              /\ Waiters(m)' = {}
              /\ \E e \in Effects : lane' = Append(w, e)
           \/ /\ given'[m] = 1
              /\ Waiters(m)' = {}
              /\ lane' = w
    PROVE  MessageFits(m)'
  <1>1. CASE \/ lane' = w
             \/ \E e \in Effects : lane' = Append(w, e) /\ ~Carries(e, m)
    <2>1. \A i \in 1 .. Len(lane') : ~Carries(lane'[i], m)
      BY <1>1, StillCarries
    <2>2. given'[m] \in {0, 1} /\ (given'[m] = 0 \/ Waiters(m)' = {})
      OBVIOUS
    <2>3. \A x, y \in Waiters(m)' : x = y
      OBVIOUS
    <2> QED
      BY <2>1, <2>2, <2>3 DEF MessageFits, Carries
  <1>2. ASSUME NEW e \in Effects, lane' = Append(w, e), given'[m] = 0, Waiters(m)' = {}
        PROVE  MessageFits(m)'
    <2>1. /\ Len(lane') = Len(w) + 1 /\ Len(w) \in Nat
          /\ \A i \in 1 .. Len(w) : lane'[i] = w[i]
      BY <1>2, AppendEntries
    <2>2. \A i \in 1 .. Len(w) : ~Carries(w[i], m)
      <3>1. PICK f \in [1 .. Len(w) -> K] : \A i \in 1 .. Len(w) : Same(w[i], lane[f[i]])
        BY DEF From
      <3> QED
        BY <3>1 DEF Same, Carries
    <2>3. \A i \in 1 .. Len(lane') : Carries(lane'[i], m) => i = Len(w) + 1
      BY <2>1, <2>2
    <2>4. \A i, j \in 1 .. Len(lane') : Carries(lane'[i], m) /\ Carries(lane'[j], m) => i = j
      BY <2>3
    <2> QED
      BY <1>2, <2>4 DEF MessageFits, Carries
  <1> QED
    BY <1>1, <1>2

\* A step after which no attempt waits that did not.
NobodyComes ==
    \A x \in Attempted : turn'[x] = "none" /\ MayStart(x)' => turn[x] = "none" /\ MayStart(x)

LEMMA WaitersKept ==
    ASSUME NobodyComes, prompt' = prompt
    PROVE  \A m : Waiters(m)' \subseteq Waiters(m)
  BY DEF NobodyComes, Waiters

\* It moves no run to another attempt, or one that is over, and no executor.
LEMMA WaitersStay ==
    ASSUME \A x \in Attempted : turn'[x] = "none" => turn[x] = "none",
           \A r \in Runs : \/ ~Ready(r)'
                           \/ attempt'[r] = attempt[r] /\ (Ready(r)' => Ready(r)),
           step' = step \/ step'.at \in {"idle", "awaiting", "followup"}
    PROVE  NobodyComes
  <1>1. ASSUME NEW x \in Attempted, MayStart(x)' PROVE MayStart(x)
    <2>1. x[1] \in Runs
      BY DEF Attempted
    <2> QED
      BY <1>1, <2>1 DEF MayStart, Executing
  <1> QED
    BY <1>1 DEF NobodyComes

LEMMA NothingGiven ==
    ASSUME GInv, UNCHANGED <<prompt, owner, given>>, PlanMessage', NobodyComes,
           NEW w \in Seq(Effects), NEW K \in SUBSET (1 .. Len(lane)), From(w, lane, K),
           \/ lane' = w
           \/ \E e \in Effects : lane' = Append(w, e) /\ e.kind # "steer"
    PROVE  GInv'
  <1>1. ASSUME NEW m \in Messages PROVE MessageFits(m)'
    <2>1. Waiters(m)' \subseteq Waiters(m)
      BY WaitersKept
    <2>2. \/ lane' = w
          \/ \E e \in Effects : lane' = Append(w, e) /\ ~Carries(e, m)
      BY DEF Carries
    <2>3. MessageFits(m)
      BY DEF GInv
    <2> QED
      BY <2>1, <2>2, <2>3, MessageKept
  <1>2. MessagesInOrder'
    BY DEF GInv, MessagesInOrder, Sent
  <1> QED
    BY <1>1, <1>2 DEF GInv

\* The plan of a command stays about the same message.
LEMMA PlanMessageKept ==
    ASSUME PlanMessage, UNCHANGED <<plan, prompt, owner>>,
           step.at = "followup" => step' = step /\ lane'[1].msg = lane[1].msg,
           plan.kind \in {"steer", "restart"} /\ plan.from # 0 =>
               attempt'[plan.from] = attempt[plan.from]
    PROVE  PlanMessage'
  BY DEF PlanMessage, NextMessage

LEMMA CommandGives ==
    ASSUME AInv, GInv,
           SendFresh \/ SendJoining \/ Stop \/ Edit \/ Prepared \/ FollowUp \/ Listen \/ Lose
    PROVE  GInv'
  <1>1. UNCHANGED <<status, class, attempt, prompt, turn, lane, step, owner, given>>
    BY DEF SendFresh, SendJoining, Stop, Edit, Prepared, FollowUp, Listen, Lose, Reads, runVars,
       turnVars, laneVars, messageVars
  <1>2. lane \in Seq(Effects) /\ From(lane, lane, 1 .. Len(lane))
    BY FromSame DEF AInv, TypeInv, TypeOK, Same
  <1>3. NobodyComes
    BY <1>1, WaitersStay DEF Ready
  <1>4. PlanMessage'
    <2>1. NextMessage' = NextMessage
      BY <1>1 DEF NextMessage
    <2>2. CASE SendFresh
      <3>1. plan'.from = 0 /\ plan'.msg = NextMessage
        BY <2>2 DEF SendFresh, FreshPlan, NoPlan
      <3> QED
        BY <2>1, <3>1 DEF PlanMessage
    <2>3. CASE SendJoining
      <3>1. PICK r \in Runs :
              \/ \E mode \in Modes[NextMessage] \cap {"steer", "restart"} :
                      plan' = JoinPlan(r, NextMessage, mode = "restart", 0)
              \/ \E q \in Queued : plan' = JoinPlan(r, prompt[Current(q)], FALSE, q)
        BY <2>3 DEF SendJoining
      <3>2. CASE \E mode \in Modes[NextMessage] \cap {"steer", "restart"} :
                      plan' = JoinPlan(r, NextMessage, mode = "restart", 0)
        <4>1. plan'.from = 0 /\ plan'.msg = NextMessage
          BY <3>2 DEF JoinPlan, NoPlan
        <4> QED
          BY <2>1, <4>1 DEF PlanMessage
      <3>3. CASE \E q \in Queued : plan' = JoinPlan(r, prompt[Current(q)], FALSE, q)
        <4>1. PICK q \in Queued : plan' = JoinPlan(r, prompt[Current(q)], FALSE, q)
          BY <3>3
        <4>2. /\ plan'.from = q /\ plan'.msg = prompt[Current(q)] /\ q # 0
              /\ plan'.kind \in {"steer", "restart"}
          BY <4>1, Smallest DEF JoinPlan, NoPlan, Queued
        <4> QED
          BY <1>1, <4>2 DEF PlanMessage, Current
      <3> QED
        BY <3>1, <3>2, <3>3
    <2>4. CASE Stop
      <3>1. plan'.kind \in {"stop", "interrupt"}
        BY <2>4 DEF Stop, NoPlan
      <3> QED
        BY <3>1 DEF PlanMessage, MessagePlans
    <2>5. CASE Edit
      <3>1. plan'.kind \in {"resume", "cancel", "reorder", "retry"}
        BY <2>5 DEF Edit, NoPlan
      <3> QED
        BY <3>1 DEF PlanMessage, MessagePlans
    <2>6. CASE Prepared
      <3>1. plan'.kind \in {"release", "fail"}
        BY <2>6 DEF Prepared, NoPlan
      <3> QED
        BY <3>1 DEF PlanMessage, MessagePlans
    <2>7. CASE Listen
      <3>1. plan'.kind = "advance"
        BY <2>7 DEF Listen, NoPlan
      <3> QED
        BY <3>1 DEF PlanMessage, MessagePlans
    <2>8. CASE FollowUp
      <3>1. step.at = "followup" /\ lane # << >> /\ plan' = FreshPlan(Head(lane).msg, "begin")
        BY <2>8 DEF FollowUp, At
      <3>2. plan'.kind \in {"queue", "begin"} /\ plan'.msg = lane[1].msg
        BY <1>2, <3>1 DEF FreshPlan, NoPlan
      <3> QED
        BY <1>1, <3>1, <3>2 DEF PlanMessage
    <2>9. CASE Lose
      <3>1. plan' = plan \/ plan'.kind = "none"
        BY <2>9 DEF Lose, NoPlan
      <3>2. plan' = plan => PlanMessage'
        BY <1>1, PlanMessageKept DEF GInv
      <3> QED
        BY <3>1, <3>2 DEF PlanMessage, MessagePlans
    <2> QED
      BY <2>2, <2>3, <2>4, <2>5, <2>6, <2>7, <2>8, <2>9
  <1> QED
    BY <1>1, <1>2, <1>3, <1>4, NothingGiven

\* Commits without a message leave every message where it is.
LEMMA SomeCommitsGive ==
    ASSUME AInv, UInv, GInv,
           \/ ReadQueue \/ CommitInterrupt \/ CommitResume \/ CommitCancel \/ CommitReorder
           \/ CommitPrepared \/ CommitHold \/ CommitLaunch
    PROVE  GInv'
  <1>t. TypeOK /\ PlanNames
    BY DEF AInv, TypeInv
  <1>l. lane \in Seq(Effects) /\ From(lane, lane, 1 .. Len(lane)) /\ status \in [Runs -> Statuses]
        /\ class \in [Runs -> Classes]
    BY <1>t, FromSame DEF TypeOK, Same
  <1>p. PlanMessage'
    <2>1. CASE ReadQueue
      <3>1. \/ plan' = NoPlan
            \/ plan' = [NoPlan EXCEPT !.kind = "hold"]
            \/ \E q \in Queued : plan' = [NoPlan EXCEPT !.kind = "launch", !.run = q]
        BY <2>1 DEF ReadQueue
      <3>2. ASSUME NEW q PROVE [NoPlan EXCEPT !.kind = "launch", !.run = q].kind = "launch"
        BY DEF NoPlan
      <3>3. NoPlan.kind = "none" /\ [NoPlan EXCEPT !.kind = "hold"].kind = "hold"
        BY DEF NoPlan
      <3>4. plan'.kind \in {"none", "hold", "launch"}
        BY <3>1, <3>2, <3>3
      <3> QED
        BY <3>4 DEF PlanMessage, MessagePlans
    <2>2. CASE CommitInterrupt \/ CommitResume \/ CommitCancel \/ CommitReorder \/ CommitPrepared
               \/ CommitHold \/ CommitLaunch
      <3>1. plan'.kind \in {"none", "advance"}
        BY <2>2 DEF CommitInterrupt, CommitResume, CommitCancel, CommitReorder,
           CommitPrepared, CommitHold, CommitLaunch, NoPlan
      <3> QED
        BY <3>1 DEF PlanMessage, MessagePlans
    <2> QED
      BY <2>1, <2>2
  <1>u. UNCHANGED <<prompt, owner, given, attempt, turn, step>>
    BY DEF ReadQueue, CommitInterrupt, CommitResume, CommitCancel, CommitReorder,
           CommitPrepared, CommitHold, CommitLaunch, runVars, turnVars, laneVars, messageVars
  <1>1. CASE ReadQueue \/ CommitResume \/ CommitReorder \/ CommitHold \/ CommitInterrupt
    <2>1. UNCHANGED <<status, class>>
      BY <1>1 DEF ReadQueue, CommitResume, CommitReorder, CommitHold, CommitInterrupt, runVars
    <2>2. NobodyComes
      BY <1>u, <2>1, WaitersStay DEF Ready
    <2>3. \/ lane' = lane
          \/ \E e \in Effects : lane' = Append(lane, e) /\ e.kind # "steer"
      <3>1. CASE CommitInterrupt
        <4>1. lane' = Append(lane, Effect("interrupt", plan.run, plan.att, 0))
          BY <3>1 DEF CommitInterrupt
        <4>2. Effect("interrupt", plan.run, plan.att, 0) \in Effects
          BY <3>1, <1>t, EffectTyped DEF CommitInterrupt, Committing, PlanNames, Others
        <4>3. Effect("interrupt", plan.run, plan.att, 0).kind # "steer"
          BY DEF Effect
        <4> QED
          BY <4>1, <4>2, <4>3
      <3>2. CASE ReadQueue \/ CommitResume \/ CommitReorder \/ CommitHold
        BY <3>2 DEF ReadQueue, CommitResume, CommitReorder, CommitHold, laneVars
      <3> QED
        BY <1>1, <3>1, <3>2
    <2> QED
      BY <1>l, <1>p, <1>u, <2>2, <2>3, NothingGiven
  <1>2. CASE CommitCancel
    <2>1. lane' = lane /\ class' = class /\ status' = [status EXCEPT ![plan.run] = "cancelled"]
          /\ plan.run \in Runs /\ plan.kind = "cancel"
      BY <1>2, <1>t DEF CommitCancel, Committing, PlanNames, laneVars
    <2>2. status[plan.run] = "queued"
      BY <2>1 DEF UInv, PlanFits
    <2>3. NobodyComes
      BY <1>u, <1>l, <2>1, <2>2, WaitersStay DEF Ready, Terminal
    <2> QED
      BY <1>l, <1>p, <1>u, <2>1, <2>3, NothingGiven
  <1>3. CASE CommitPrepared \/ CommitLaunch
    <2>1. plan.run \in Runs
      BY <1>3, <1>t DEF CommitPrepared, CommitLaunch, Committing, PlanNames
    <2>2. Ready(plan.run)
      <3>1. PlanFits(plan.run)
        BY <2>1 DEF UInv
      <3> QED
        BY <1>3, <2>1, <3>1 DEF CommitPrepared, CommitLaunch, Committing, PlanFits, Terminal, Ready
    <2>3. /\ \A r \in Runs : r # plan.run => status'[r] = status[r] /\ class'[r] = class[r]
      BY <1>3, <1>l DEF CommitPrepared, CommitLaunch, End
    <2>4. NobodyComes
      <3>1. \A r \in Runs : Ready(r)' => Ready(r)
        BY <2>2, <2>3 DEF Ready
      <3> QED
        BY <1>u, <3>1, WaitersStay
    <2>5. \/ lane' = lane
          \/ \E e \in Effects : lane' = Append(lane, e) /\ e.kind # "steer"
      <3>1. Effect("start", plan.run, 1, 0) \in Effects
        BY <2>1, EffectTyped, Smallest DEF Starts
      <3>2. Effect("start", plan.run, 1, 0).kind # "steer"
        BY DEF Effect
      <3>3. lane' = lane \/ lane' = Append(lane, Effect("start", plan.run, 1, 0))
        BY <1>3 DEF CommitPrepared, CommitLaunch
      <3> QED
        BY <3>1, <3>2, <3>3
    <2> QED
      BY <1>l, <1>p, <1>u, <2>4, <2>5, NothingGiven
  <1> QED
    BY <1>1, <1>2, <1>3

\* A queued run waits with the message it was queued with, and for nothing else.
LEMMA QueuedWaits ==
    ASSUME UInv, NEW q \in Runs, attempt[q] \in Attempts, status[q] = "queued"
    PROVE  /\ class[q] # "workspace" /\ ~Executing(q)
           /\ Current(q) \in Waiters(prompt[Current(q)])
  <1>1. RunFits(q) /\ Current(q) \in Attempted
    BY DEF UInv, Current, Attempted
  <1>2. turn[Current(q)] = "none" /\ class[q] # "workspace" /\ ~Executing(q)
    BY <1>1 DEF RunFits, NotBegun, Current
  <1> QED
    BY <1>1, <1>2 DEF Waiters, MayStart, Ready, Terminal, Current

\* A commit that starts or queues a run hands it a message nobody else has; the
\* steer effect that had it leaves the lane.
LEMMA FreshGives ==
    ASSUME AInv, UInv, GInv, CommitQueue \/ CommitBegin
    PROVE  GInv'
  <1> DEFINE w == SettleFollowUp.lane
  <1>t. TypeOK /\ PlanNames
    BY DEF AInv, TypeInv
  <1>l. /\ lane \in Seq(Effects) /\ status \in [Runs -> Statuses] /\ attempt \in [Runs -> Attempts]
        /\ prompt \in [Attempted -> Messages \cup {0}] /\ owner \in [Messages -> Runs \cup {0}]
        /\ TypeInv
    BY <1>t DEF TypeOK, Attempted, AInv
  <1>k. plan.kind \in {"queue", "begin", "prepare"}
    BY DEF CommitQueue, CommitBegin, Committing
  <1>p. plan.run \in Runs /\ plan.msg \in Messages
    BY <1>t, <1>k DEF PlanNames, AInv, Addressed, MessagePlans
  <1>c. PICK n \in Runs, m \in Messages : n = plan.run /\ m = plan.msg
    BY <1>p
  <1>n. n \in Runs /\ m \in Messages /\ status[n] = "none" /\ attempt[n] = 1 /\ n # 0
    <2>1. n \in Runs
      OBVIOUS
    <2>2. m \in Messages
      OBVIOUS
    <2>3. status[n] = "none"
      BY <1>c, <1>k, <2>1 DEF AInv, HInv, PlanHolds, Fresh
    <2> QED
      BY <2>1, <2>2, <2>3, Smallest DEF AInv, Addressed
  <1>1. /\ UNCHANGED <<attempt, class, turn, given>> /\ plan' = NoPlan
        /\ \E s \in {"queued", "starting", "preparing"} : status' = [status EXCEPT ![n] = s]
        /\ prompt' = [prompt EXCEPT ![<<n, 1>>] = m]
        /\ owner' = [owner EXCEPT ![m] = n]
        /\ step' = SettleFollowUp.step
    BY <1>c DEF CommitQueue, CommitBegin, turnVars
  <1>2. \/ lane' = w
        \/ \E e \in Effects : lane' = Append(w, e) /\ e.kind # "steer"
    <2>1. Effect("start", n, 1, 0) \in Effects /\ Effect("start", n, 1, 0).kind # "steer"
      BY <1>n, EffectTyped, Smallest DEF Starts, Effect
    <2>2. lane' = w \/ lane' = Append(w, Effect("start", n, 1, 0))
      BY <1>c, <1>l, BeginLane DEF CommitQueue
    <2> QED
      BY <2>1, <2>2
  \* The message is new, or it is the one of the first effect.
  <1>3. PICK K \in SUBSET (1 .. Len(lane)) :
          /\ From(w, lane, K)
          /\ \A i \in K : ~Carries(lane[i], m)
    <2>1. MessageFits(m)
      BY <1>n DEF GInv
    <2>2. CASE m = NextMessage
      <3>1. owner[m] = 0
        BY <1>n, <2>2, NewIsNotSent DEF GInv
      <3>2. \A i \in 1 .. Len(lane) : ~Carries(lane[i], m)
        BY <2>1, <3>1 DEF MessageFits
      <3>3. 2 .. Len(lane) \subseteq 1 .. Len(lane)
        OBVIOUS
      <3>4. From(w, lane, 1 .. Len(lane)) \/ From(w, lane, 2 .. Len(lane))
        BY <1>l, FollowUpFrom
      <3> QED
        BY <3>2, <3>3, <3>4
    <2>3. CASE step.at = "followup" /\ lane[1].msg = m
      <3>1. lane # << >>
        BY <1>l, <2>3 DEF TypeInv, StepHasEffect
      <3>2. w = Tail(lane)
        BY <1>c, <1>l, <2>3, <3>1 DEF SettleFollowUp
      <3>3. From(w, lane, 2 .. Len(lane))
        BY <1>l, <3>1, <3>2, FromTail
      <3>4. 1 \in 1 .. Len(lane) /\ 2 .. Len(lane) \subseteq 1 .. Len(lane) /\ 1 \notin 2 .. Len(lane)
        BY <1>l, <3>1
      <3>5. Carries(lane[1], m)
        BY <2>3 DEF UInv, StepOnHead, Carries
      <3>6. \A i \in 2 .. Len(lane) : ~Carries(lane[i], m)
        BY <2>1, <3>4, <3>5 DEF MessageFits
      <3> QED
        BY <3>3, <3>4, <3>6
    <2> QED
      BY <1>c, <1>k, <2>2, <2>3 DEF GInv, PlanMessage, MessagePlans
  <1>4. given[m] = 0 /\ Waiters(m) = {} /\ (m = NextMessage \/ owner[m] # 0)
    <2>1. MessageFits(m)
      BY <1>n DEF GInv
    <2>2. CASE m = NextMessage
      <3>1. owner[m] = 0
        BY <1>n, <2>2, NewIsNotSent DEF GInv
      <3> QED
        BY <2>1, <2>2, <3>1 DEF MessageFits
    <2>3. CASE step.at = "followup" /\ lane[1].msg = m
      <3>1. lane # << >>
        BY <1>l, <2>3 DEF TypeInv, StepHasEffect
      <3>2. 1 \in 1 .. Len(lane)
        BY <1>l, <3>1
      <3>3. Carries(lane[1], m)
        BY <2>3 DEF UInv, StepOnHead, Carries
      <3> QED
        BY <2>1, <3>2, <3>3 DEF MessageFits
    <2> QED
      BY <1>c, <1>k, <2>2, <2>3 DEF GInv, PlanMessage, MessagePlans
  <1>s. step' = step \/ step'.at = "idle"
    BY <1>1 DEF SettleFollowUp, Idle
  <1>5. ASSUME NEW x \in Attempted, x # <<n, 1>>
        PROVE  prompt'[x] = prompt[x] /\ (MayStart(x)' => MayStart(x))
    <2>1. x[1] \in Runs /\ x = <<x[1], x[2]>>
      BY DEF Attempted
    <2>2. prompt'[x] = prompt[x]
      BY <1>1, <1>l, <1>5
    <2>3. Executing(x[1])' => Executing(x[1]) /\ step' = step
      BY <1>s DEF Executing
    <2>4. CASE x[1] = n
      <3>1. x[2] # attempt[x[1]]
        BY <1>5, <1>n, <2>1, <2>4
      <3> QED
        BY <1>1, <2>2, <2>3, <3>1 DEF MayStart
    <2>5. CASE x[1] # n
      <3>1. status'[x[1]] = status[x[1]]
        BY <1>1, <1>l, <2>1, <2>5
      <3> QED
        BY <1>1, <2>2, <2>3, <3>1 DEF MayStart, Ready
    <2> QED
      BY <2>4, <2>5
  <1>6. prompt'[<<n, 1>>] = m
    BY <1>1, <1>n, <1>l, Smallest DEF Attempted
  <1>w. w \in Seq(Effects)
    BY <1>l, FollowUpTyped
  <1> HIDE DEF w
  <1>7. ASSUME NEW x \in Messages PROVE MessageFits(x)'
    <2>1. CASE x = m
      <3>1. Waiters(m)' \subseteq {<<n, 1>>}
        BY <1>1, <1>4, <1>5 DEF Waiters
      <3>2. given'[m] = 0 /\ owner'[m] # 0
        BY <1>1, <1>4, <1>n, <1>l
      <3>3. \/ lane' = w
            \/ \E e \in Effects : lane' = Append(w, e) /\ ~Carries(e, m)
        BY <1>2 DEF Carries
      <3> QED
        BY <1>3, <1>n, <1>w, <2>1, <3>1, <3>2, <3>3, MessageMoves
    <2>2. CASE x # m
      <3>1. Waiters(x)' \subseteq Waiters(x)
        BY <1>1, <1>5, <1>6, <2>2 DEF Waiters
      <3>2. given'[x] = given[x] /\ owner'[x] = owner[x]
        BY <1>1, <1>l, <2>2
      <3>3. \/ lane' = w
            \/ \E e \in Effects : lane' = Append(w, e) /\ ~Carries(e, x)
        BY <1>2 DEF Carries
      <3>4. MessageFits(x)
        BY DEF GInv
      <3> QED
        BY <1>3, <1>w, <3>1, <3>2, <3>3, <3>4, MessageKept
    <2> QED
      BY <2>1, <2>2
  <1>8. MessagesInOrder'
    BY <1>1, <1>4, <1>n, <1>t, MessagesGrow DEF GInv
  <1>9. PlanMessage'
    BY <1>1 DEF PlanMessage, NoPlan, MessagePlans
  <1> QED
    BY <1>7, <1>8, <1>9 DEF GInv

\* A commit that joins a running turn, or restarts it, takes the message it
\* promotes from the queue.
LEMMA JoinGives ==
    ASSUME AInv, UInv, GInv, CommitJoin
    PROVE  GInv'
  <1>t. TypeOK /\ PlanNames
    BY DEF AInv, TypeInv
  <1>l. /\ lane \in Seq(Effects) /\ status \in [Runs -> Statuses] /\ attempt \in [Runs -> Attempts]
        /\ prompt \in [Attempted -> Messages \cup {0}] /\ owner \in [Messages -> Runs \cup {0}]
    BY <1>t DEF TypeOK, Attempted
  <1>k. plan.kind \in {"steer", "restart"}
    BY DEF CommitJoin, Committing
  <1>p. plan.run \in Runs /\ plan.msg \in Messages /\ NextAttempt(plan.run) \in Attempts
    BY <1>t, <1>k DEF PlanNames, AInv, Addressed, MessagePlans
  <1>c. PICK n \in Runs, m \in Messages, k \in Attempts, q \in {plan.from} :
          n = plan.run /\ m = plan.msg /\ k = NextAttempt(plan.run) /\ q = plan.from
    BY <1>p
  <1>n. /\ n \in Runs /\ m \in Messages /\ n # 0 /\ k \in Attempts
        /\ Effect("steer", n, plan.att, m) \in Effects /\ Effect("restart", n, plan.att, 0) \in Effects
    <2>1. n \in Runs /\ plan.att \in Attempts /\ k \in Attempts
      BY <1>t, <1>k DEF PlanNames
    <2>2. m \in Messages
      OBVIOUS
    <2> QED
      BY <2>1, <2>2, EffectTyped, Smallest DEF Starts, Others
  <1>q. q # 0 => /\ q \in Runs /\ q # n /\ status[q] = "queued" /\ class[q] # "workspace"
                 /\ ~Executing(q) /\ Current(q) \in Waiters(prompt[Current(q)])
    <2>1. SUFFICES ASSUME q # 0 PROVE
            /\ q \in Runs /\ q # n /\ status[q] = "queued" /\ class[q] # "workspace"
            /\ ~Executing(q) /\ Current(q) \in Waiters(prompt[Current(q)])
      OBVIOUS
    <2>2. q \in Runs
      BY <1>c, <1>k, <2>1 DEF AInv, Addressed
    <2>3. PlanFits(q) /\ PlanFits(n)
      BY <1>n, <2>2 DEF UInv
    <2>4. status[q] = "queued" /\ status[n] # "queued"
      BY <1>c, <1>k, <2>3 DEF PlanFits, NotBegun
    <2> QED
      BY <1>l, <2>2, <2>4, QueuedWaits
  <1>1. /\ UNCHANGED <<class, turn, given, step>> /\ plan' = NoPlan
        /\ owner' = [owner EXCEPT ![m] = n]
    BY <1>c DEF CommitJoin, turnVars
  \* Nobody but the queued run has the message.
  <1>2. /\ given[m] = 0 /\ (m = NextMessage \/ owner[m] # 0)
        /\ \A x \in Waiters(m) : q # 0 /\ x = Current(q)
        /\ \A i \in 1 .. Len(lane) : ~Carries(lane[i], m)
    <2>1. MessageFits(m)
      BY <1>n DEF GInv
    <2>2. CASE m = NextMessage
      <3>1. owner[m] = 0
        BY <1>n, <2>2, NewIsNotSent DEF GInv
      <3> QED
        BY <2>1, <2>2, <3>1 DEF MessageFits
    <2>3. CASE q # 0 /\ m = prompt[Current(q)]
      <3>1. Current(q) \in Waiters(m) /\ q \in Runs
        BY <1>q, <2>3
      <3> QED
        BY <2>1, <2>3, <3>1 DEF MessageFits
    <2> QED
      BY <1>c, <1>k, <2>2, <2>3 DEF GInv, PlanMessage, MessagePlans, Current
  <1>3. From(lane, lane, 1 .. Len(lane))
    BY <1>l, FromSame DEF Same
  <1>x. \A r : Executing(r)' <=> Executing(r)
    BY <1>1 DEF Executing
  <1>4. ASSUME NEW x \in Attempted, q # 0, x[1] = q, status'[q] = "cancelled" PROVE ~MayStart(x)'
    BY <1>1, <1>4, <1>q, <1>x DEF MayStart, Ready, Terminal
  \* An attempt of another run goes on waiting, or does not.
  <1>y. ASSUME NEW x \in Attempted, x[1] # n,
               \A r \in Runs : r # n => attempt'[r] = attempt[r]
                                        /\ status'[r] = LeaveQueue(status, q)[r]
        PROVE  /\ MayStart(x)' => MayStart(x) /\ (q = 0 \/ x[1] # q)
    <2>1. x[1] \in Runs
      BY DEF Attempted
    <2>2. CASE q # 0 /\ x[1] = q
      <3>1. status'[q] = "cancelled"
        BY <1>l, <1>q, <1>y, <2>2 DEF LeaveQueue
      <3> QED
        BY <1>4, <2>2, <3>1
    <2>3. CASE q = 0 \/ x[1] # q
      <3>1. status'[x[1]] = status[x[1]]
        BY <1>l, <1>q, <1>y, <2>1, <2>3 DEF LeaveQueue
      <3> QED
        BY <1>1, <1>x, <1>y, <2>1, <2>3, <3>1 DEF MayStart, Ready
    <2> QED
      BY <2>2, <2>3
  <1>6. ASSUME plan.kind = "steer", NEW x \in Messages PROVE MessageFits(x)'
    <2> DEFINE s == Effect("steer", n, plan.att, m)
    <2>1. /\ UNCHANGED <<attempt, prompt>> /\ status' = LeaveQueue(status, q)
          /\ lane' = Append(lane, s)
      BY <1>6, <1>c DEF CommitJoin
    <2>2. s \in Effects /\ \A y : Carries(s, y) => y = m
      BY <1>n DEF Effect, Carries
    <2> HIDE DEF s
    <2>3. ASSUME NEW y \in Attempted, MayStart(y)' PROVE MayStart(y) /\ (q = 0 \/ y[1] # q)
      <3>1. CASE y[1] = n
        <4>1. status'[n] = status[n] /\ (q = 0 \/ y[1] # q)
          BY <1>l, <1>q, <2>1, <3>1 DEF LeaveQueue
        <4> QED
          BY <1>1, <1>x, <2>1, <2>3, <3>1, <4>1 DEF MayStart, Ready
      <3>2. CASE y[1] # n
        BY <1>y, <2>1, <2>3, <3>2
      <3> QED
        BY <3>1, <3>2
    <2>4. \A y \in Waiters(x)' : y \in Waiters(x) /\ (q = 0 \/ y[1] # q)
      BY <1>1, <2>1, <2>3 DEF Waiters
    <2>5. CASE x = m
      <3>1. given'[m] = 0 /\ owner'[m] # 0
        BY <1>1, <1>2, <1>n, <1>l
      <3>2. Waiters(m)' = {}
        BY <1>2, <2>4, <2>5 DEF Current
      <3> QED
        BY <1>2, <1>3, <1>l, <1>n, <2>1, <2>2, <2>5, <3>1, <3>2, MessageMoves
    <2>6. CASE x # m
      <3>1. given'[x] = given[x] /\ owner'[x] = owner[x]
        BY <1>1, <1>l, <1>6, <2>6
      <3>2. \E e \in Effects : lane' = Append(lane, e) /\ ~Carries(e, x)
        BY <2>1, <2>2, <2>6
      <3>3. MessageFits(x)
        BY <1>6 DEF GInv
      <3>4. Waiters(x)' \subseteq Waiters(x)
        BY <2>4
      <3> QED
        BY <1>3, <1>6, <1>l, <3>1, <3>2, <3>3, <3>4, MessageKept
    <2> QED
      BY <2>5, <2>6
  <1>7. ASSUME plan.kind = "restart", NEW x \in Messages PROVE MessageFits(x)'
    <2> DEFINE s == Effect("restart", n, plan.att, 0)
    <2>1. /\ attempt' = [attempt EXCEPT ![n] = k] /\ prompt' = [prompt EXCEPT ![<<n, k>>] = m]
          /\ status' = [LeaveQueue(status, q) EXCEPT ![n] = "starting"]
          /\ lane' = Append(lane, s)
      BY <1>7, <1>c DEF CommitJoin
    <2>2. s \in Effects /\ \A y : ~Carries(s, y)
      BY <1>n DEF Effect, Carries
    <2> HIDE DEF s
    <2>3. ASSUME NEW y \in Attempted, y # <<n, k>>, MayStart(y)'
          PROVE  MayStart(y) /\ (q = 0 \/ y[1] # q)
      <3>1. CASE y[1] = n
        <4>1. y[2] # k
          BY <2>3, <3>1 DEF Attempted
        <4>2. attempt'[n] = k
          BY <1>l, <1>n, <2>1
        <4>3. q = 0 \/ y[1] # q
          BY <1>q, <3>1
        <4> QED
          BY <1>1, <1>x, <2>3, <3>1, <4>1, <4>2, <4>3 DEF MayStart
      <3>2. CASE y[1] # n
        <4>1. \A r \in Runs : r # n => attempt'[r] = attempt[r]
                                       /\ status'[r] = LeaveQueue(status, q)[r]
          <5>1. LeaveQueue(status, q) \in [Runs -> Statuses]
            BY <1>l DEF LeaveQueue, Statuses, Terminal
          <5> QED
            BY <1>l, <2>1, <5>1
        <4> QED
          BY <1>y, <2>3, <3>2, <4>1
      <3> QED
        BY <3>1, <3>2
    <2>4. \A y \in Attempted : prompt'[y] = IF y = <<n, k>> THEN m ELSE prompt[y]
      BY <1>l, <2>1
    <2>5. \A y \in Waiters(x)' :
             \/ y = <<n, k>> /\ x = m
             \/ y \in Waiters(x) /\ (q = 0 \/ y[1] # q)
      BY <1>1, <2>3, <2>4 DEF Waiters
    <2>6. CASE x = m
      <3>1. given'[m] = 0 /\ owner'[m] # 0
        BY <1>1, <1>2, <1>n, <1>l
      <3>2. Waiters(m)' \subseteq {<<n, k>>}
        BY <1>2, <2>5, <2>6 DEF Current
      <3> QED
        BY <1>2, <1>3, <1>l, <1>n, <2>1, <2>2, <2>6, <3>1, <3>2, MessageMoves
    <2>7. CASE x # m
      <3>1. given'[x] = given[x] /\ owner'[x] = owner[x]
        BY <1>1, <1>l, <1>7, <2>7
      <3>2. \E e \in Effects : lane' = Append(lane, e) /\ ~Carries(e, x)
        BY <2>1, <2>2
      <3>3. MessageFits(x)
        BY <1>7 DEF GInv
      <3>4. Waiters(x)' \subseteq Waiters(x)
        BY <2>5, <2>7
      <3> QED
        BY <1>3, <1>7, <1>l, <3>1, <3>2, <3>3, <3>4, MessageKept
    <2> QED
      BY <2>6, <2>7
  <1>8. MessagesInOrder'
    BY <1>1, <1>2, <1>n, <1>t, MessagesGrow DEF GInv
  <1>9. PlanMessage'
    BY <1>1 DEF PlanMessage, NoPlan, MessagePlans
  <1> QED
    BY <1>6, <1>7, <1>8, <1>9, <1>k DEF GInv

\* A step in which a provider accepts a message that waited for it.
LEMMA OneIsGiven ==
    ASSUME TypeOK, GInv, NEW m \in Messages, given' = [given EXCEPT ![m] = given[m] + 1],
           UNCHANGED <<prompt, owner>>, PlanMessage', NobodyComes,
           lane' \in Seq(Effects), NEW K \in SUBSET (1 .. Len(lane)), From(lane', lane, K),
           \/ \E x \in Waiters(m) : turn'[x] # "none"
           \/ \E i \in 1 .. Len(lane) : Carries(lane[i], m) /\ i \notin K
    PROVE  GInv'
  <1>1. \A x : Waiters(x)' \subseteq Waiters(x)
    BY WaitersKept
  <1>2. MessageFits(m)
    BY DEF GInv
  <1>3. given[m] = 0 /\ owner[m] # 0
    BY <1>2 DEF MessageFits
  <1>4. Waiters(m)' = {}
    <2>1. CASE \E x \in Waiters(m) : turn'[x] # "none"
      <3>1. PICK x \in Waiters(m) : turn'[x] # "none"
        BY <2>1
      <3>2. Waiters(m)' \subseteq {x}
        BY <1>1, <1>2 DEF MessageFits
      <3>3. x \notin Waiters(m)'
        BY <3>1 DEF Waiters
      <3> QED
        BY <3>2, <3>3
    <2>2. CASE \E i \in 1 .. Len(lane) : Carries(lane[i], m)
      <3>1. Waiters(m) = {}
        BY <1>2, <2>2 DEF MessageFits
      <3> QED
        BY <1>1, <3>1
    <2> QED
      BY <2>1, <2>2
  <1>5. \A i \in K : ~Carries(lane[i], m)
    BY <1>2 DEF MessageFits
  <1>6. given'[m] = 1 /\ owner'[m] # 0
    BY <1>3 DEF TypeOK
  <1>7. MessageFits(m)'
    BY <1>4, <1>5, <1>6, MessageMoves
  <1>8. ASSUME NEW x \in Messages, x # m PROVE MessageFits(x)'
    <2>1. given'[x] = given[x] /\ owner'[x] = owner[x] /\ MessageFits(x)
      BY <1>8 DEF TypeOK, GInv
    <2> QED
      BY <1>1, <2>1, MessageKept
  <1>9. MessagesInOrder'
    BY DEF GInv, MessagesInOrder, Sent
  <1> QED
    BY <1>7, <1>8, <1>9 DEF GInv

\* The attempt whose turn is about to begin waits with its message.
LEMMA ClearedWaits ==
    ASSUME AInv, UInv, step.at = "cleared"
    PROVE  \E x \in Attempted, m \in Messages :
              x = <<step.run, step.att>> /\ m = prompt[x] /\ x \in Waiters(m)
  <1>1. step.run \in Runs /\ step.att \in Attempts
    BY DEF AInv, TypeInv, TypeOK, Steps
  <1>2. PICK x \in Attempted : x = <<step.run, step.att>> /\ x[1] = step.run /\ x[2] = step.att
    <2>1. <<step.run, step.att>> \in Attempted
      BY <1>1 DEF Attempted
    <2>2. <<step.run, step.att>>[1] = step.run /\ <<step.run, step.att>>[2] = step.att
      OBVIOUS
    <2> QED
      BY <2>1, <2>2
  <1>3. turn[x] = "none"
    BY <1>1, <1>2 DEF UInv, RunFits, Executing
  <1>4. prompt[x] \in Messages
    <2>1. prompt[x] # 0
      BY <1>2 DEF AInv, Addressed
    <2>2. prompt[x] \in Messages \cup {0}
      BY DEF AInv, TypeInv, TypeOK, Attempted
    <2> QED
      BY <2>1, <2>2
  <1>5. x \in Waiters(prompt[x])
    BY <1>2, <1>3 DEF Waiters, MayStart, Executing
  <1> QED
    BY <1>2, <1>4, <1>5

\* Stop ends a run and its starts; the provider may have taken the message of the
\* turn that was to begin, and nobody else gives it then.
LEMMA StopGives ==
    ASSUME AInv, UInv, GInv, CommitStop
    PROVE  GInv'
  <1>t. TypeOK /\ PlanNames
    BY DEF AInv, TypeInv
  <1>l. /\ lane \in Seq(Effects) /\ status \in [Runs -> Statuses] /\ class \in [Runs -> Classes]
        /\ turn \in [Attempted -> TurnStages]
    BY <1>t DEF TypeOK, Attempted
  <1> DEFINE K == {i \in 1 .. Len(lane) : lane[i] \in EffectsOf(Others)}
  <1>1. /\ UNCHANGED <<attempt, prompt, owner>> /\ plan' = NoPlan
        /\ status' = [status EXCEPT ![plan.run] = "interrupted"]
        /\ class' = [class EXCEPT ![plan.run] = "none"]
        /\ lane' = Only(lane, EffectsOf(Others))
        /\ step' \in {step, Idle}
    BY DEF CommitStop, End
  <1>2. lane' \in Seq(Effects) /\ K \in SUBSET (1 .. Len(lane)) /\ From(lane', lane, K)
    BY <1>l, <1>1, OnlyShape, FromOnly
  <1>3. PlanMessage'
    BY <1>1 DEF PlanMessage, NoPlan, MessagePlans
  <1> HIDE DEF K
  <1>r. \A r \in Runs : ~Ready(r)' \/ (attempt'[r] = attempt[r] /\ (Ready(r)' => Ready(r)))
    <2>1. ASSUME NEW r \in Runs, r = plan.run PROVE ~Ready(r)'
      BY <1>1, <1>l, <2>1 DEF Ready, Terminal
    <2>2. ASSUME NEW r \in Runs, r # plan.run PROVE Ready(r)' => Ready(r)
      BY <1>1, <1>l, <2>2 DEF Ready
    <2> QED
      BY <1>1, <2>1, <2>2
  <1>s. step' = step \/ step'.at = "idle"
    BY <1>1 DEF Idle
  <1>4. CASE UNCHANGED <<turn, given>>
    <2>1. NobodyComes
      BY <1>r, <1>s, <1>4, WaitersStay
    <2> QED
      BY <1>1, <1>2, <1>3, <1>4, <2>1, NothingGiven
  <1>5. CASE /\ step.at = "cleared"
             /\ turn' = [turn EXCEPT ![<<step.run, step.att>>] = "begun"]
             /\ given' = [given EXCEPT ![prompt[<<step.run, step.att>>]] = @ + 1]
    <2>1. PICK x \in Attempted, m \in Messages :
            x = <<step.run, step.att>> /\ m = prompt[x] /\ x \in Waiters(m)
      BY <1>5, ClearedWaits
    <2>2. turn' = [turn EXCEPT ![x] = "begun"] /\ given' = [given EXCEPT ![m] = given[m] + 1]
      BY <1>5, <2>1
    <2>3. turn'[x] = "begun" /\ \A y \in Attempted : turn'[y] = "none" => turn[y] = "none"
      BY <1>l, <2>2
    <2>4. NobodyComes
      BY <1>r, <1>s, <2>3, WaitersStay
    <2> QED
      BY <1>1, <1>2, <1>3, <1>t, <2>1, <2>2, <2>3, <2>4, OneIsGiven
  <1> QED
    BY <1>4, <1>5 DEF CommitStop

LEMMA WorkerGives ==
    ASSUME AInv, UInv, GInv, Worker
    PROVE  GInv'
  <1>t. TypeOK
    BY DEF AInv, TypeInv
  <1>l. /\ lane \in Seq(Effects) /\ status \in [Runs -> Statuses] /\ class \in [Runs -> Classes]
        /\ turn \in [Attempted -> TurnStages] /\ attempt \in [Runs -> Attempts]
        /\ step \in Steps
    BY <1>t DEF TypeOK, Attempted
  <1>k. PICK K \in SUBSET (1 .. Len(lane)) : From(lane', lane, K)
    <2>1. 1 .. Len(lane) \subseteq 1 .. Len(lane) /\ 2 .. Len(lane) \subseteq 1 .. Len(lane)
      OBVIOUS
    <2>2. From(lane', lane, 1 .. Len(lane)) \/ From(lane', lane, 2 .. Len(lane))
      BY <1>t, WorkerLane
    <2> QED
      BY <2>1, <2>2
  <1>w. lane' \in Seq(Effects)
    BY <1>t, WorkerLane
  <1>i. Idle.at = "idle"
    BY DEF Idle
  <1>1. CASE FollowUp
    BY <1>1, CommandGives
  \* An executor that gives no message.
  <1>q. ASSUME UNCHANGED <<prompt, owner, given, plan>>, step.at # "followup", NobodyComes,
               plan.kind \in {"steer", "restart"} /\ plan.from # 0 =>
                  attempt'[plan.from] = attempt[plan.from]
        PROVE  GInv'
    <2>1. PlanMessage'
      BY <1>q, PlanMessageKept DEF GInv
    <2> QED
      BY <1>k, <1>q, <1>w, <2>1, NothingGiven
  \* It starts no run.
  <1>s. ASSUME UNCHANGED <<turn, attempt>>,
               step' = Idle \/ step'.at \in {"awaiting", "followup", "capturing"},
               \/ UNCHANGED <<status, class>>
               \/ \E s \in Terminal, c \in {"provider"} :
                     /\ status' = [status EXCEPT ![step.run] = s]
                     /\ class' = [class EXCEPT ![step.run] = c]
        PROVE  NobodyComes
    <2>1. ASSUME NEW r \in Runs PROVE ~Ready(r)' \/ (Ready(r)' => Ready(r))
      BY <1>l, <1>s, <2>1 DEF Ready
    <2>2. ASSUME NEW x \in Attempted, MayStart(x)' PROVE MayStart(x)
      <3>1. x[1] \in Runs /\ ~Executing(x[1])'
        BY <1>s, <1>i DEF Executing, Attempted
      <3> QED
        BY <1>s, <2>1, <2>2, <3>1 DEF MayStart
    <2> QED
      BY <1>s, <2>2 DEF NobodyComes
  \* It goes on with a run.
  <1>g. ASSUME UNCHANGED <<turn, attempt, class>>, step'.at \in {"opening", "opened", "cleared"},
               \/ step'.run = step.run /\ step'.att = step.att /\ Executing(step.run)
               \/ step'.att = attempt[step'.run] /\ Ready(step'.run),
               \/ status' = status
               \/ status' = [status EXCEPT ![step.run] = "running"] /\ status[step.run] = "starting"
        PROVE  NobodyComes
    <2>1. \A r \in Runs : Ready(r)' => Ready(r)
      BY <1>l, <1>g DEF Ready, Terminal
    <2>2. ASSUME NEW x \in Attempted, MayStart(x)' PROVE MayStart(x)
      <3>1. x[1] \in Runs
        BY DEF Attempted
      <3> QED
        BY <1>g, <2>1, <2>2, <3>1 DEF MayStart, Executing
    <2> QED
      BY <1>g, <2>2 DEF NobodyComes
  <1>2. CASE RestartInterrupts \/ RestartTimesOut \/ StartFails \/ CaptureFails \/ Interrupt
             \/ CaptureLoads \/ (Steer /\ UNCHANGED given)
    <2>1. step.at # "followup" /\ UNCHANGED <<status, class, attempt, prompt, turn, owner, given, plan>>
      BY <1>2 DEF RestartInterrupts, RestartTimesOut, StartFails, CaptureFails, Interrupt,
         CaptureLoads, Steer, At, runVars, turnVars, messageVars
    <2>2. step' = Idle \/ step'.at \in {"awaiting", "followup", "capturing"}
      <3>1. CASE RestartInterrupts \/ Interrupt
        BY <3>1 DEF RestartInterrupts, Interrupt, Settle, Idle
      <3>2. CASE RestartTimesOut \/ StartFails \/ CaptureFails
        BY <1>t, <3>2, TryAgainTyped DEF RestartTimesOut, StartFails, CaptureFails, At
      <3>3. CASE CaptureLoads
        BY <1>t, <3>3, TryAgainTyped DEF CaptureLoads, Settle, At
      <3>4. CASE Steer
        BY <1>t, <3>4, TryAgainTyped DEF Steer, Settle, At, Idle
      <3> QED
        BY <1>2, <3>1, <3>2, <3>3, <3>4
    <2> QED
      BY <1>q, <1>s, <2>1, <2>2
  <1>3. CASE StartLoads
    <2>1. /\ step.at # "followup" /\ lane # << >>
          /\ UNCHANGED <<status, class, attempt, prompt, turn, owner, given, plan>>
      BY <1>3 DEF StartLoads, At, runVars, turnVars, messageVars
    <2>2. Head(lane).run \in Runs
      BY <1>t, <2>1, FirstTyped
    <2>3. \/ step' = Idle
          \/ /\ status[Head(lane).run] = "starting" /\ step'.at = "opening"
             /\ step'.run = Head(lane).run /\ step'.att = attempt[Head(lane).run]
      BY <1>3 DEF StartLoads, LoadRun, Settle
    <2>4. NobodyComes
      BY <1>s, <1>g, <2>1, <2>3 DEF Ready, Terminal
    <2> QED
      BY <1>q, <2>1, <2>4
  <1>4. CASE SessionOpens \/ TurnClears
    <2>1. /\ step.at \in {"opening", "opened"} /\ UNCHANGED <<class, attempt, prompt, turn, owner, given, plan>>
          /\ \/ status' = status
             \/ status' = [status EXCEPT ![step.run] = "running"] /\ status[step.run] = "starting"
          /\ \/ step' = Idle /\ status' = status
             \/ \E at \in {"opened", "cleared"} : step' = [step EXCEPT !.at = at]
      BY <1>4 DEF SessionOpens, TurnClears, IsCurrent, At, Settle, runVars, turnVars, messageVars
    <2>2. CASE step' = Idle /\ status' = status
      BY <1>q, <1>s, <2>1, <2>2
    <2>3. CASE \E at \in {"opened", "cleared"} : step' = [step EXCEPT !.at = at]
      <3>1. step'.at \in {"opened", "cleared"} /\ step'.run = step.run /\ step'.att = step.att
        BY <1>l, <2>3 DEF Steps
      <3>2. Executing(step.run)
        BY <2>1 DEF Executing
      <3> QED
        BY <1>q, <1>g, <2>1, <3>1, <3>2
    <2> QED
      BY <2>1, <2>2, <2>3
  <1>5. CASE SessionFails \/ TurnRefused
    <2>1. /\ step.at # "followup" /\ UNCHANGED <<attempt, prompt, turn, owner, given, plan>>
          /\ \/ UNCHANGED <<status, class>>
             \/ /\ status' = [status EXCEPT ![step.run] = "failed"]
                /\ class' = [class EXCEPT ![step.run] = "provider"]
      BY <1>5 DEF SessionFails, TurnRefused, End, At, turnVars, messageVars
    <2>2. step' = Idle
      BY <1>5, <1>t, TryAgainTyped DEF SessionFails, TurnRefused, Settle, At
    <2>3. "failed" \in Terminal
      BY DEF Terminal
    <2> QED
      BY <1>q, <1>s, <2>1, <2>2, <2>3
  <1>6. CASE TurnBegins
    <2>1. /\ step.at = "cleared" /\ UNCHANGED <<status, class, attempt, prompt, owner, plan>>
          /\ turn' = [turn EXCEPT ![<<step.run, step.att>>] = "begun"]
          /\ given' = [given EXCEPT ![prompt[<<step.run, step.att>>]] = @ + 1]
          /\ step' = Idle
      BY <1>6 DEF TurnBegins, At, Settle, runVars
    <2>2. PICK x \in Attempted, m \in Messages :
            x = <<step.run, step.att>> /\ m = prompt[x] /\ x \in Waiters(m)
      BY <2>1, ClearedWaits
    <2>3. turn' = [turn EXCEPT ![x] = "begun"] /\ given' = [given EXCEPT ![m] = given[m] + 1]
      BY <2>1, <2>2
    <2>4. turn'[x] = "begun" /\ \A y \in Attempted : turn'[y] = "none" => turn[y] = "none"
      BY <1>l, <2>3
    <2>5. NobodyComes
      BY <1>i, <2>1, <2>4, WaitersStay DEF Ready
    <2>6. PlanMessage'
      BY <2>1, PlanMessageKept DEF GInv
    <2> QED
      BY <1>k, <1>w, <1>t, <2>1, <2>2, <2>3, <2>4, <2>5, <2>6, OneIsGiven
  <1>7. CASE Steer /\ ~UNCHANGED given
    <2>1. /\ lane # << >> /\ Head(lane).kind = "steer" /\ step.at = "idle" /\ step' = Idle
          /\ given' = [given EXCEPT ![Head(lane).msg] = @ + 1] /\ lane' = Tail(lane)
          /\ UNCHANGED <<status, class, attempt, prompt, turn, owner, plan>>
      BY <1>7 DEF Steer, At, Settle, runVars, turnVars
    <2>2. Head(lane) = lane[1] /\ 1 \in 1 .. Len(lane)
      BY <1>l, <2>1
    <2>3. PICK m \in Messages : m = lane[1].msg
      BY <2>1, <2>2 DEF AInv, Addressed, SteersCarry
    <2>4. Carries(lane[1], m) /\ given' = [given EXCEPT ![m] = given[m] + 1]
      BY <2>1, <2>2, <2>3 DEF Carries
    <2>5. From(lane', lane, 2 .. Len(lane))
      BY <1>l, <2>1, FromTail
    <2>6. 2 .. Len(lane) \in SUBSET (1 .. Len(lane)) /\ 1 \notin 2 .. Len(lane)
      OBVIOUS
    <2>7. NobodyComes
      BY <1>s, <2>1
    <2>8. PlanMessage'
      BY <2>1, PlanMessageKept DEF GInv
    <2> QED
      BY <1>t, <1>w, <2>1, <2>2, <2>4, <2>5, <2>6, <2>7, <2>8, OneIsGiven
  <1>8. CASE CaptureCommits
    <2>1. /\ step.at = "capturing" /\ UNCHANGED <<prompt, class, turn, owner, given, plan>>
          /\ attempt' = [attempt EXCEPT ![step.run] = step.att] /\ step' = Idle
          /\ status' = [status EXCEPT ![step.run] =
                            IF step.was = "waiting" THEN "completed" ELSE step.was]
      BY <1>8 DEF CaptureCommits, At, Settle, turnVars, messageVars
    <2>2. /\ step.was \in {"waiting", "interrupted", "cancelled"} /\ step.run \in Runs
          /\ ~NotBegun(step.run) /\ class[step.run] # "workspace"
      <3>1. step.run \in Runs
        BY <1>l DEF Steps
      <3>2. ~NotBegun(step.run)
        BY <2>1, <3>1 DEF UInv, RunFits
      <3> QED
        BY <2>1, <3>1, <3>2, NoWorkspace DEF AInv, HInv, StepHolds
    <2>3. NobodyComes
      <3>1. ASSUME NEW r \in Runs
            PROVE  ~Ready(r)' \/ (attempt'[r] = attempt[r] /\ (Ready(r)' => Ready(r)))
        <4>1. CASE r = step.run
          BY <1>l, <2>1, <2>2, <4>1 DEF Ready, Terminal
        <4>2. CASE r # step.run
          BY <1>l, <2>1, <2>2, <4>2 DEF Ready
        <4> QED
          BY <4>1, <4>2
      <3> QED
        BY <1>i, <2>1, <3>1, WaitersStay
    <2>4. plan.kind \in {"steer", "restart"} /\ plan.from # 0 =>
             attempt'[plan.from] = attempt[plan.from]
      <3>1. SUFFICES ASSUME plan.kind \in {"steer", "restart"}, plan.from # 0
                     PROVE  attempt'[plan.from] = attempt[plan.from]
        OBVIOUS
      <3>2. plan.from \in Runs
        BY <3>1 DEF AInv, Addressed
      <3>3. PlanFits(plan.from)
        BY <3>2 DEF UInv
      <3>4. plan.from # step.run
        BY <2>2, <3>1, <3>2, <3>3 DEF PlanFits, NotBegun
      <3> QED
        BY <1>l, <2>1, <3>2, <3>4
    <2> QED
      BY <1>q, <2>1, <2>3, <2>4
  <1> QED
    BY <1>1, <1>2, <1>3, <1>4, <1>5, <1>6, <1>7, <1>8 DEF Worker

LEMMA IngestionGives ==
    ASSUME AInv, UInv, GInv, NEW x \in Attempted, Ingestion(x)
    PROVE  GInv'
  <1>t. TypeOK
    BY DEF AInv, TypeInv
  <1>l. /\ lane \in Seq(Effects) /\ status \in [Runs -> Statuses] /\ class \in [Runs -> Classes]
        /\ turn \in [Attempted -> TurnStages] /\ attempt \in [Runs -> Attempts]
        /\ From(lane, lane, 1 .. Len(lane))
    BY <1>t, FromSame DEF TypeOK, Attempted, Same
  <1>x. PICK r \in Runs, a \in Attempts : x = <<r, a>>
    BY DEF Attempted
  <1>1. /\ UNCHANGED <<prompt, owner, given, plan, step>> /\ turn[x] # "none"
        /\ \E s \in {"running", "ended", "deciding", "done"} : turn' = [turn EXCEPT ![x] = s]
    <2>1. CASE TurnProjected(x)
      BY <2>1 DEF TurnProjected, messageVars, laneVars, runVars
    <2>2. CASE TurnEnds(x)
      BY <2>2 DEF TurnEnds, messageVars, laneVars, runVars
    <2>3. CASE Decide(x)
      <3>1. turn' = [turn EXCEPT ![x] = "deciding"] \/ turn' = [turn EXCEPT ![x] = "done"]
        BY <2>3 DEF Decide
      <3> QED
        BY <2>3, <3>1 DEF Decide, messageVars, laneVars, runVars
    <2>4. CASE Finalize(x)
      BY <2>4 DEF Finalize, messageVars
    <2> QED
      BY <2>1, <2>2, <2>3, <2>4 DEF Ingestion
  <1>2. \/ UNCHANGED <<status, class, attempt>>
        \/ /\ attempt' = [attempt EXCEPT ![r] = a]
           /\ \A o \in Runs : o # r => status'[o] = status[o] /\ class'[o] = class[o]
    <2>1. CASE TurnProjected(x) \/ TurnEnds(x) \/ Decide(x)
      BY <2>1 DEF TurnProjected, TurnEnds, Decide, runVars
    <2>2. CASE Finalize(x)
      BY <1>l, <1>x, <2>2 DEF Finalize, End
    <2> QED
      BY <2>1, <2>2 DEF Ingestion
  \* The run is left with an attempt that has a turn.
  <1>3. NobodyComes
    <2>1. \A y \in Attempted : turn'[y] = "none" => turn[y] = "none" /\ y # x
      BY <1>1, <1>l
    <2>2. ASSUME NEW y \in Attempted, turn'[y] = "none", MayStart(y)' PROVE MayStart(y)
      <3>1. y[1] \in Runs /\ y = <<y[1], y[2]>> /\ (Executing(y[1])' <=> Executing(y[1]))
        BY <1>1 DEF Attempted, Executing
      <3>2. CASE UNCHANGED <<status, class, attempt>>
        BY <1>1, <2>2, <3>1, <3>2 DEF MayStart, Ready
      <3>3. CASE /\ attempt' = [attempt EXCEPT ![r] = a]
                 /\ \A o \in Runs : o # r => status'[o] = status[o] /\ class'[o] = class[o]
        <4>1. CASE y[1] = r
          <5>1. y[2] # attempt'[r]
            BY <1>l, <1>x, <2>1, <2>2, <3>1, <3>3, <4>1
          <5> QED
            BY <1>1, <2>2, <3>1, <4>1, <5>1 DEF MayStart
        <4>2. CASE y[1] # r
          <5>1. /\ attempt'[y[1]] = attempt[y[1]] /\ status'[y[1]] = status[y[1]]
                /\ class'[y[1]] = class[y[1]]
            BY <1>l, <3>1, <3>3, <4>2
          <5> QED
            BY <1>1, <2>2, <3>1, <5>1 DEF MayStart, Ready
        <4> QED
          BY <4>1, <4>2
      <3> QED
        BY <1>2, <3>2, <3>3
    <2> QED
      BY <2>1, <2>2 DEF NobodyComes
  <1>4. lane' = lane \/ \E e \in Effects : lane' = Append(lane, e) /\ e.kind # "steer"
    <2>1. Effect("capture", r, a, 0) \in Effects /\ Effect("capture", r, a, 0).kind # "steer"
      BY EffectTyped DEF Others, Effect
    <2>2. lane' = lane \/ lane' = Append(lane, Effect("capture", r, a, 0))
      BY <1>x DEF Ingestion, TurnProjected, TurnEnds, Decide, Finalize, laneVars
    <2> QED
      BY <2>1, <2>2
  <1>5. PlanMessage'
    <2>1. step.at = "followup" => lane'[1].msg = lane[1].msg
      <3>1. SUFFICES ASSUME step.at = "followup" PROVE lane'[1] = lane[1]
        OBVIOUS
      <3>2. lane # << >>
        BY <3>1 DEF AInv, TypeInv, StepHasEffect
      <3>3. 1 \in 1 .. Len(lane)
        BY <1>l, <3>2
      <3> QED
        BY <1>l, <1>4, <3>3, AppendEntries
    <2>2. plan.kind \in {"steer", "restart"} /\ plan.from # 0 =>
             attempt'[plan.from] = attempt[plan.from]
      <3>1. SUFFICES ASSUME plan.kind \in {"steer", "restart"}, plan.from # 0
                     PROVE  attempt'[plan.from] = attempt[plan.from]
        OBVIOUS
      <3>2. plan.from \in Runs
        BY <3>1 DEF AInv, Addressed
      <3>3. PlanFits(plan.from) /\ RunFits(plan.from)
        BY <3>2 DEF UInv
      <3>4. plan.from # r
        BY <1>1, <1>x, <3>1, <3>3 DEF PlanFits, RunFits, NotBegun
      <3> QED
        BY <1>2, <1>l, <3>2, <3>4
    <2> QED
      BY <1>1, <2>1, <2>2, PlanMessageKept DEF GInv
  <1> QED
    BY <1>1, <1>3, <1>4, <1>5, <1>l, NothingGiven

LEMMA RestartEnds ==
    ASSUME ServerRestarts
    PROVE  /\ \A r \in Runs :
                 \/ status'[r] = "cancelled" /\ status[r] \in Blocking
                 \/ status'[r] = status[r] /\ status[r] \notin {"preparing", "starting", "running"}
           /\ UNCHANGED <<class, attempt, prompt>> /\ step' = Idle /\ plan' = NoPlan
           /\ lane' = Only(lane, EffectsOf({"capture"}))
           /\ \A x \in Attempted : turn'[x] = IF turn[x] = "none" THEN "none" ELSE "done"
  <1>1. PICK lost \in SUBSET BlockingRuns :
          /\ \A r \in BlockingRuns \ lost : status[r] = "waiting"
          /\ status' = [r \in Runs |-> IF r \in lost THEN "cancelled" ELSE status[r]]
    <2> DEFINE captures == Only(lane, EffectsOf({"capture"}))
               replayed == {captures[i].run : i \in DOMAIN captures}
               lost == {r \in BlockingRuns : status[r] = "waiting" => r \notin replayed}
    <2>1. status' = [r \in Runs |-> IF r \in lost THEN "cancelled" ELSE status[r]]
      BY DEF ServerRestarts
    <2>2. lost \in SUBSET BlockingRuns /\ \A r \in BlockingRuns \ lost : status[r] = "waiting"
      OBVIOUS
    <2> HIDE DEF lost
    <2> QED
      BY <2>1, <2>2
  <1>2. ASSUME NEW r \in Runs PROVE
          \/ status'[r] = "cancelled" /\ status[r] \in Blocking
          \/ status'[r] = status[r] /\ status[r] \notin {"preparing", "starting", "running"}
    BY <1>1 DEF BlockingRuns, Blocking
  <1>3. /\ UNCHANGED <<class, attempt, prompt>> /\ step' = Idle /\ plan' = NoPlan
        /\ lane' = Only(lane, EffectsOf({"capture"}))
    BY DEF ServerRestarts
  <1>4. turn' = [x \in Attempted |-> IF turn[x] = "none" THEN "none" ELSE "done"]
    BY DEF ServerRestarts, Attempted
  <1> QED
    BY <1>2, <1>3, <1>4

LEMMA RestartGives ==
    ASSUME AInv, UInv, GInv, ServerRestarts
    PROVE  GInv'
  <1>l. lane \in Seq(Effects)
    BY DEF AInv, TypeInv, TypeOK
  <1>1. /\ UNCHANGED <<prompt, owner, given, attempt, class>> /\ plan' = NoPlan
        /\ lane' = Only(lane, EffectsOf({"capture"})) /\ step' = Idle
    BY RestartEnds DEF ServerRestarts
  <1>2. NobodyComes
    <2>1. ASSUME NEW r \in Runs PROVE Ready(r)' => Ready(r)
      <3>1. \/ status'[r] = "cancelled" /\ status[r] \in Blocking
            \/ status'[r] = status[r]
        BY RestartEnds
      <3> QED
        BY <1>1, <3>1 DEF Ready, Blocking, Terminal
    <2>2. \A x \in Attempted : turn'[x] = "none" => turn[x] = "none"
      BY RestartEnds
    <2>3. step'.at = "idle"
      BY <1>1 DEF Idle
    <2> QED
      BY <1>1, <2>1, <2>2, <2>3, WaitersStay
  <1> DEFINE K == {i \in 1 .. Len(lane) : lane[i] \in EffectsOf({"capture"})}
  <1>3. lane' \in Seq(Effects) /\ K \in SUBSET (1 .. Len(lane)) /\ From(lane', lane, K)
    BY <1>l, <1>1, OnlyShape, FromOnly
  <1>4. PlanMessage'
    BY <1>1 DEF PlanMessage, NoPlan, MessagePlans
  <1> HIDE DEF K
  <1> QED
    BY <1>1, <1>2, <1>3, <1>4, NothingGiven

LEMMA GInvStarts == Init => GInv
  <1> SUFFICES ASSUME Init PROVE GInv
    OBVIOUS
  <1>1. MessagesInOrder
    <2>1. Sent = {} /\ 1 .. 0 = {} /\ 0 \in 0 .. MaxMessages
      BY RunQueueAssumption DEF Init, Sent
    <2> QED
      BY <2>1 DEF MessagesInOrder
  <1>2. PlanMessage
    BY DEF Init, PlanMessage, NoPlan, MessagePlans
  <1>3. ASSUME NEW m \in Messages PROVE MessageFits(m)
    <2>1. Waiters(m) = {}
      BY Smallest DEF Init, Waiters, Attempted
    <2>2. Len(lane) = 0
      BY DEF Init
    <2> QED
      BY <2>1, <2>2 DEF Init, MessageFits
  <1> QED
    BY <1>1, <1>2, <1>3 DEF GInv

LEMMA GInvStays == AInv /\ UInv /\ GInv /\ [Next]_vars => GInv'
  <1> SUFFICES ASSUME AInv, UInv, GInv, [Next]_vars PROVE GInv'
    OBVIOUS
  <1>1. CASE SendFresh \/ SendJoining \/ Stop \/ Edit \/ Prepared \/ Listen \/ Lose
    BY <1>1, CommandGives
  <1>2. CASE Commit
    BY <1>2, SomeCommitsGive, FreshGives, JoinGives, StopGives DEF Commit
  <1>3. CASE Worker
    BY <1>3, WorkerGives
  <1>4. CASE \E x \in Attempted : Ingestion(x)
    BY <1>4, IngestionGives
  <1>5. CASE ServerRestarts
    BY <1>5, RestartGives
  <1>6. CASE UNCHANGED vars
    <2>1. UNCHANGED <<status, class, attempt, prompt, turn, lane, step, plan, owner, given>>
      BY <1>6 DEF vars, runVars, turnVars, laneVars, messageVars
    <2>2. NobodyComes
      BY <2>1, WaitersStay DEF Ready
    <2>3. PlanMessage'
      BY <2>1, PlanMessageKept DEF GInv
    <2>4. lane \in Seq(Effects) /\ From(lane, lane, 1 .. Len(lane))
      BY FromSame DEF AInv, TypeInv, TypeOK, Same
    <2> QED
      BY <2>1, <2>2, <2>3, <2>4, NothingGiven
  <1> QED
    BY <1>1, <1>2, <1>3, <1>4, <1>5, <1>6 DEF Next

\* No message reaches a provider twice, for every size of the thread, whatever is
\* retried, restarted, promoted or dispatched again as a follow-up, and although
\* executors and fibers step between the read and the commit of a command and
\* write runs as they were before: one attempt or one effect has a message, and
\* only until a provider accepts it.
THEOREM MessagesAreGivenOnce == Spec => []GivenOnce
  <1>1. GInv => GivenOnce
    BY DEF GInv, MessageFits, GivenOnce
  <1> QED
    BY <1>1, GInvStarts, GInvStays, AInvStarts, AInvStays, UInvStarts, UInvStays, PTL DEF Spec

-----------------------------------------------------------------------------
(* A message is not lost behind a run that goes on.                        *)

\* The run ended without completing.
Dropped(r) == status[r] \in {"interrupted", "failed", "cancelled"}

\* A provider has what the current attempt of a run started with when the run is
\* restarted, and when it waits for its checkpoint.
RunGives(r) ==
    /\ plan.kind = "restart" /\ plan.run = r => turn[<<r, attempt[r]>>] # "none"
    /\ status[r] \in {"waiting", "completed"} => turn[<<r, attempt[r]>>] # "none"

\* The message of a turn was given.
BegunIsGiven == \A x \in Attempted : turn[x] # "none" => given[prompt[x]] # 0

\* A message is recorded on a run that was sent; one that has not begun starts
\* with it.
Owned(m) ==
    owner[m] # 0 =>
        /\ status[owner[m]] # "none"
        /\ NotBegun(owner[m]) => prompt[<<owner[m], attempt[owner[m]]>>] = m

\* A message nobody gave and no step gave up is carried, or the current attempt of
\* its run has it, or its run ended.
NotLost(m) ==
    (owner[m] # 0 /\ owner[m] \notin overtaken /\ given[m] = 0 /\ m \notin forfeit) =>
        \/ \E i \in 1 .. Len(lane) : Carries(lane[i], m)
        \/ prompt[<<owner[m], attempt[owner[m]]>>] = m
        \/ Dropped(owner[m])

MInv ==
    /\ \A r \in Runs \ overtaken : RunGives(r)
    /\ BegunIsGiven
    /\ \A m \in Messages : Owned(m) /\ NotLost(m)

LEMMA StillCarried ==
    ASSUME NEW m, NEW w \in Seq(Effects), NEW K \in SUBSET (1 .. Len(lane)), From(w, lane, K),
           NEW k \in K, Carries(lane[k], m),
           lane' = w \/ \E e \in Effects : lane' = Append(w, e)
    PROVE  \E i \in 1 .. Len(lane') : Carries(lane'[i], m)
  <1>1. PICK f \in [1 .. Len(w) -> K] :
          /\ \A i \in 1 .. Len(w) : Same(w[i], lane[f[i]])
          /\ \A j \in K : \E i \in 1 .. Len(w) : f[i] = j
    BY DEF From
  <1>2. PICK i \in 1 .. Len(w) : f[i] = k
    BY <1>1
  <1>3. Carries(w[i], m)
    BY <1>1, <1>2 DEF Same, Carries
  <1>4. i \in 1 .. Len(lane') /\ lane'[i] = w[i]
    <2>1. ASSUME NEW e \in Effects, lane' = Append(w, e)
          PROVE  i \in 1 .. Len(lane') /\ lane'[i] = w[i]
      <3>1. /\ Len(lane') = Len(w) + 1 /\ Len(w) \in Nat
            /\ \A j \in 1 .. Len(w) : lane'[j] = w[j]
        BY <2>1, AppendEntries
      <3> QED
        BY <3>1
    <2> QED
      BY <2>1
  <1> QED
    BY <1>3, <1>4

\* A step that changes no attempt's message: no run goes back, a turn that begins
\* has its message given, and what leaves the lane is given or given up.
LEMMA NothingLost ==
    ASSUME AInv, UInv, MInv, EndedStays, overtaken \subseteq overtaken',
           UNCHANGED <<prompt, owner>>, forfeit \subseteq forfeit',
           \A m \in Messages : given[m] # 0 => given'[m] # 0,
           \A x \in Attempted :
              /\ turn[x] # "none" => turn'[x] # "none"
              /\ turn'[x] # "none" => turn[x] # "none" \/ given'[prompt[x]] # 0,
           \A r \in Runs :
              /\ status'[r] = "none" => status[r] = "none"
              /\ NotBegun(r)' => NotBegun(r) /\ attempt'[r] = attempt[r],
           \A r \in Runs \ overtaken' :
              /\ attempt'[r] = attempt[r]
              /\ status'[r] \in {"waiting", "completed"} =>
                    status[r] \in {"waiting", "completed"} \/ turn[<<r, attempt[r]>>] # "none",
           plan'.kind = "restart" =>
              plan' = plan \/ turn[<<plan'.run, attempt[plan'.run]>>] # "none",
           NEW w \in Seq(Effects), NEW K \in SUBSET (1 .. Len(lane)), From(w, lane, K),
           \A m \in Messages : \A i \in 1 .. Len(lane) :
              i \notin K /\ Carries(lane[i], m) => m \in forfeit' \/ given'[m] # 0,
           lane' = w \/ \E e \in Effects : lane' = Append(w, e)
    PROVE  MInv'
  <1>1. ASSUME NEW r \in Runs \ overtaken' PROVE RunGives(r)'
    <2>1. r \in Runs \ overtaken /\ RunGives(r) /\ attempt[r] \in Attempts
      BY DEF MInv, AInv, TypeInv, TypeOK
    <2>2. turn[<<r, attempt[r]>>] # "none" => turn'[<<r, attempt'[r]>>] # "none"
      BY <2>1 DEF Attempted
    <2> QED
      BY <2>1, <2>2 DEF RunGives
  <1>2. BegunIsGiven'
    <2>1. ASSUME NEW x \in Attempted, turn[x] # "none" PROVE given'[prompt[x]] # 0
      <3>1. prompt[x] \in Messages
        BY <2>1 DEF AInv, Addressed, TypeInv, TypeOK, Attempted
      <3>2. given[prompt[x]] # 0
        BY <2>1 DEF MInv, BegunIsGiven
      <3> QED
        BY <3>1, <3>2
    <2> QED
      BY <2>1 DEF BegunIsGiven
  <1>3. ASSUME NEW m \in Messages, owner[m] # 0 PROVE Owned(m)' /\ NotLost(m)'
    <2>1. PICK r \in Runs : r = owner[m] /\ owner'[m] = r
      BY <1>3 DEF AInv, TypeInv, TypeOK
    <2>2. Owned(m) /\ NotLost(m)
      BY DEF MInv
    <2>3. Owned(m)'
      BY <1>3, <2>1, <2>2 DEF Owned
    <2>4. ASSUME r \notin overtaken', given'[m] = 0, m \notin forfeit'
          PROVE  \/ \E i \in 1 .. Len(lane') : Carries(lane'[i], m)
                 \/ prompt[<<r, attempt'[r]>>] = m
                 \/ Dropped(r)'
      <3>1. r \notin overtaken /\ given[m] = 0 /\ m \notin forfeit /\ attempt'[r] = attempt[r]
        BY <2>4
      <3>2. CASE \E i \in 1 .. Len(lane) : Carries(lane[i], m)
        <4>1. PICK k \in K : Carries(lane[k], m)
          BY <2>4, <3>2
        <4> QED
          BY <4>1, StillCarried
      <3>3. CASE prompt[<<r, attempt[r]>>] = m
        BY <3>1, <3>3
      <3>4. CASE Dropped(r)
        <4>1. status'[r] = status[r] \/ class[r] = "workspace"
          BY <3>1, <3>4 DEF EndedStays, Dropped, Terminal
        <4>2. class[r] = "workspace" => prompt[<<r, attempt[r]>>] = m
          BY <1>3, <2>1, <2>2 DEF Owned, NotBegun
        <4> QED
          BY <3>1, <3>4, <4>1, <4>2 DEF Dropped
      <3> QED
        BY <1>3, <2>1, <2>2, <3>1, <3>2, <3>3, <3>4 DEF NotLost
    <2>5. NotLost(m)'
      BY <2>1, <2>4 DEF NotLost, Carries, Dropped
    <2> QED
      BY <2>3, <2>5
  <1>4. ASSUME NEW m \in Messages, owner[m] = 0 PROVE Owned(m)' /\ NotLost(m)'
    BY <1>4 DEF Owned, NotLost
  <1> QED
    BY <1>1, <1>2, <1>3, <1>4 DEF MInv

LEMMA OvertakenStays ==
    ASSUME [Next]_vars
    PROVE  overtaken \subseteq overtaken'
  <1>1. Overtakes => overtaken \subseteq overtaken'
    BY DEF Overtakes
  <1>2. CASE SendFresh \/ SendJoining \/ Stop \/ Edit \/ Prepared \/ Listen \/ Lose \/ FollowUp
    BY <1>2 DEF SendFresh, SendJoining, Stop, Edit, Prepared, Listen, Lose, FollowUp, Reads, runVars
  <1>3. CASE Commit
    BY <1>1, <1>3 DEF Commit, ReadQueue, CommitQueue, CommitBegin, CommitJoin, CommitStop,
       CommitInterrupt, CommitResume, CommitCancel, CommitReorder, CommitPrepared, CommitHold,
       CommitLaunch, runVars
  <1>4. CASE Worker /\ ~FollowUp
    BY <1>1, <1>4 DEF Worker, StartLoads, RestartInterrupts, RestartTimesOut, SessionOpens,
       SessionFails, TurnClears, TurnBegins, TurnRefused, StartFails, Steer, Interrupt,
       CaptureLoads, CaptureCommits, CaptureFails, runVars
  <1>5. CASE \E x \in Attempted : Ingestion(x)
    BY <1>1, <1>5 DEF Ingestion, TurnProjected, TurnEnds, Decide, Finalize, runVars
  <1>6. CASE ServerRestarts \/ UNCHANGED vars
    BY <1>1, <1>6 DEF ServerRestarts, vars, runVars
  <1> QED
    BY <1>2, <1>3, <1>4, <1>5, <1>6 DEF Next

LEMMA CommandLoses ==
    ASSUME AInv, UInv, MInv, EndedStays,
           SendFresh \/ SendJoining \/ Stop \/ Edit \/ Prepared \/ FollowUp \/ Listen \/ Lose
    PROVE  MInv'
  <1>1. UNCHANGED <<status, class, attempt, overtaken, prompt, turn, lane, owner, given, forfeit>>
    BY DEF SendFresh, SendJoining, Stop, Edit, Prepared, FollowUp, Listen, Lose, Reads, runVars,
       turnVars, laneVars, messageVars
  <1>2. lane \in Seq(Effects) /\ From(lane, lane, 1 .. Len(lane))
        /\ 1 .. Len(lane) \in SUBSET (1 .. Len(lane))
    BY FromSame DEF AInv, TypeInv, TypeOK, Same
  <1>3. plan'.kind = "restart" =>
           plan' = plan \/ turn[<<plan'.run, attempt[plan'.run]>>] # "none"
    <2>1. CASE SendJoining
      <3>1. PICK r \in Runs :
              /\ Steerable(r)
              /\ \/ \E mode \in Modes[NextMessage] \cap {"steer", "restart"} :
                        plan' = JoinPlan(r, NextMessage, mode = "restart", 0)
                 \/ \E q \in Queued : plan' = JoinPlan(r, prompt[Current(q)], FALSE, q)
        BY <2>1 DEF SendJoining
      <3>2. plan'.run = r
        BY <3>1 DEF JoinPlan, NoPlan
      <3> QED
        BY <3>1, <3>2 DEF Steerable, Current
    <2>2. CASE SendFresh \/ Stop \/ Edit \/ Prepared \/ FollowUp \/ Listen
      <3>1. plan'.kind # "restart"
        BY <2>2 DEF SendFresh, Stop, Edit, Prepared, FollowUp, Listen, FreshPlan, NoPlan
      <3> QED
        BY <3>1
    <2>3. CASE Lose
      BY <2>3 DEF Lose, NoPlan
    <2> QED
      BY <2>1, <2>2, <2>3
  <1>4. \A r \in Runs : NotBegun(r)' => NotBegun(r)
    BY <1>1 DEF NotBegun
  <1> QED
    BY <1>1, <1>2, <1>3, <1>4, NothingLost

\* Commits without a message.
LEMMA SomeCommitsLose ==
    ASSUME AInv, UInv, MInv, EndedStays, overtaken \subseteq overtaken',
           \/ ReadQueue \/ CommitInterrupt \/ CommitResume \/ CommitCancel \/ CommitReorder
           \/ CommitPrepared \/ CommitHold \/ CommitLaunch
    PROVE  MInv'
  <1>t. TypeOK /\ PlanNames
    BY DEF AInv, TypeInv
  <1>l. /\ lane \in Seq(Effects) /\ From(lane, lane, 1 .. Len(lane))
        /\ 1 .. Len(lane) \in SUBSET (1 .. Len(lane))
        /\ status \in [Runs -> Statuses] /\ class \in [Runs -> Classes]
    BY <1>t, FromSame DEF TypeOK, Same
  <1>u. UNCHANGED <<prompt, owner, given, forfeit, attempt, turn>>
    BY DEF ReadQueue, CommitInterrupt, CommitResume, CommitCancel, CommitReorder,
           CommitPrepared, CommitHold, CommitLaunch, runVars, turnVars, messageVars
  <1>p. plan'.kind # "restart"
    <2>1. CASE ReadQueue
      <3>1. \/ plan' = NoPlan
            \/ plan' = [NoPlan EXCEPT !.kind = "hold"]
            \/ \E q \in Queued : plan' = [NoPlan EXCEPT !.kind = "launch", !.run = q]
        BY <2>1 DEF ReadQueue
      <3>2. ASSUME NEW q PROVE [NoPlan EXCEPT !.kind = "launch", !.run = q].kind = "launch"
        BY DEF NoPlan
      <3>3. NoPlan.kind = "none" /\ [NoPlan EXCEPT !.kind = "hold"].kind = "hold"
        BY DEF NoPlan
      <3> QED
        BY <3>1, <3>2, <3>3
    <2>2. CASE CommitInterrupt \/ CommitResume \/ CommitCancel \/ CommitReorder \/ CommitPrepared
               \/ CommitHold \/ CommitLaunch
      BY <2>2 DEF CommitInterrupt, CommitResume, CommitCancel, CommitReorder, CommitPrepared,
         CommitHold, CommitLaunch, NoPlan
    <2> QED
      BY <2>1, <2>2
  <1>e. lane' = lane \/ \E e \in Effects : lane' = Append(lane, e)
    <2>1. CASE CommitInterrupt
      <3>1. lane' = Append(lane, Effect("interrupt", plan.run, plan.att, 0))
        BY <2>1 DEF CommitInterrupt
      <3>2. Effect("interrupt", plan.run, plan.att, 0) \in Effects
        BY <2>1, <1>t, EffectTyped DEF CommitInterrupt, Committing, PlanNames, Others
      <3> QED
        BY <3>1, <3>2
    <2>2. CASE CommitPrepared \/ CommitLaunch
      <3>1. plan.run \in Runs
        BY <2>2, <1>t DEF CommitPrepared, CommitLaunch, Committing, PlanNames
      <3>2. Effect("start", plan.run, 1, 0) \in Effects
        BY <3>1, EffectTyped, Smallest DEF Starts
      <3>3. lane' = lane \/ lane' = Append(lane, Effect("start", plan.run, 1, 0))
        BY <2>2 DEF CommitPrepared, CommitLaunch
      <3> QED
        BY <3>2, <3>3
    <2>3. CASE ReadQueue \/ CommitResume \/ CommitCancel \/ CommitReorder \/ CommitHold
      BY <2>3 DEF ReadQueue, CommitResume, CommitCancel, CommitReorder, CommitHold, laneVars
    <2> QED
      BY <2>1, <2>2, <2>3
  \* The run of the plan had not begun, and does not complete.
  <1>r. ASSUME NEW r \in Runs
        PROVE  \/ status'[r] = status[r] /\ class'[r] = class[r]
               \/ NotBegun(r) /\ status'[r] \notin {"none", "waiting", "completed"}
    <2>1. CASE UNCHANGED <<status, class>>
      BY <2>1
    <2>2. CASE CommitCancel \/ CommitPrepared \/ CommitLaunch
      <3>1. CASE r = plan.run
        <4>1. NotBegun(r)
          BY <2>2, <3>1 DEF UInv, PlanFits, CommitCancel, CommitPrepared, CommitLaunch, Committing,
             NotBegun
        <4>2. status'[r] \in {"cancelled", "starting", "failed", "preparing"}
          BY <1>l, <2>2, <3>1 DEF CommitCancel, CommitPrepared, CommitLaunch, End
        <4> QED
          BY <4>1, <4>2
      <3>2. CASE r # plan.run
        BY <1>l, <2>2, <3>2 DEF CommitCancel, CommitPrepared, CommitLaunch, End
      <3> QED
        BY <3>1, <3>2
    <2>3. CASE ReadQueue \/ CommitInterrupt \/ CommitResume \/ CommitReorder \/ CommitHold
      BY <2>1, <2>3 DEF ReadQueue, CommitInterrupt, CommitResume, CommitReorder, CommitHold, runVars
    <2> QED
      BY <2>2, <2>3
  <1>n. \A r \in Runs : NotBegun(r)' => NotBegun(r)
    BY <1>r DEF NotBegun
  <1> QED
    BY <1>l, <1>u, <1>p, <1>e, <1>r, <1>n, NothingLost

\* Stop keeps the steer effects of the lane.
LEMMA StopLoses ==
    ASSUME AInv, UInv, GInv, MInv, EndedStays, overtaken \subseteq overtaken', CommitStop
    PROVE  MInv'
  <1>t. TypeOK /\ PlanNames
    BY DEF AInv, TypeInv
  <1>l. /\ lane \in Seq(Effects) /\ status \in [Runs -> Statuses] /\ class \in [Runs -> Classes]
        /\ turn \in [Attempted -> TurnStages] /\ given \in [Messages -> Nat]
    BY <1>t DEF TypeOK, Attempted
  <1> DEFINE K == {i \in 1 .. Len(lane) : lane[i] \in EffectsOf(Others)}
  <1>1. /\ UNCHANGED <<attempt, prompt, owner, forfeit>> /\ plan' = NoPlan
        /\ status' = [status EXCEPT ![plan.run] = "interrupted"]
        /\ class' = [class EXCEPT ![plan.run] = "none"]
        /\ lane' = Only(lane, EffectsOf(Others))
    BY DEF CommitStop, End
  <1>2. lane' \in Seq(Effects) /\ K \in SUBSET (1 .. Len(lane)) /\ From(lane', lane, K)
    BY <1>l, <1>1, OnlyShape, FromOnly
  <1>3. ASSUME NEW i \in 1 .. Len(lane), i \notin K, NEW m PROVE ~Carries(lane[i], m)
    <2>1. lane[i] \in Effects
      BY <1>l
    <2> QED
      BY <1>3, <2>1 DEF Effects, EffectsOf, Others, Carries
  <1> HIDE DEF K
  <1>4. ASSUME NEW r \in Runs
        PROVE  \/ status'[r] = status[r] /\ class'[r] = class[r]
               \/ status'[r] = "interrupted" /\ class'[r] = "none"
    BY <1>1, <1>l
  <1>n. \A r \in Runs : NotBegun(r)' => NotBegun(r)
    BY <1>4 DEF NotBegun
  <1>5. /\ \A m \in Messages : given[m] # 0 => given'[m] # 0
        /\ \A x \in Attempted :
              /\ turn[x] # "none" => turn'[x] # "none"
              /\ turn'[x] # "none" => turn[x] # "none" \/ given'[prompt[x]] # 0
    <2>1. CASE UNCHANGED <<turn, given>>
      BY <2>1
    <2>2. CASE /\ step.at = "cleared"
               /\ turn' = [turn EXCEPT ![<<step.run, step.att>>] = "begun"]
               /\ given' = [given EXCEPT ![prompt[<<step.run, step.att>>]] = @ + 1]
      <3>1. PICK x \in Attempted, m \in Messages : x = <<step.run, step.att>> /\ m = prompt[x]
        BY <2>2, ClearedWaits
      <3>2. turn' = [turn EXCEPT ![x] = "begun"] /\ given' = [given EXCEPT ![m] = given[m] + 1]
        BY <2>2, <3>1
      <3>3. given'[m] # 0 /\ \A n \in Messages : given[n] # 0 => given'[n] # 0
        BY <1>l, <3>2
      <3>4. \A y \in Attempted : y = x \/ turn'[y] = turn[y]
        BY <1>l, <3>2
      <3>5. turn'[x] = "begun"
        BY <1>l, <3>2
      <3> QED
        BY <3>1, <3>3, <3>4, <3>5
    <2> QED
      BY <2>1, <2>2 DEF CommitStop
  <1>6. plan'.kind # "restart"
    BY <1>1 DEF NoPlan
  <1> QED
    BY <1>1, <1>2, <1>3, <1>4, <1>5, <1>6, <1>n, NothingLost

\* What an executor settles is no steer effect, but for the one of a steer effect.
LEMMA WorkerDrops ==
    ASSUME TypeOK, Worker, ~Steer
    PROVE  \E K \in SUBSET (1 .. Len(lane)) :
              /\ From(lane', lane, K)
              /\ \A i \in 1 .. Len(lane) : i \notin K => lane[i].kind # "steer"
  <1>1. lane \in Seq(Effects)
    BY DEF TypeOK
  <1>2. CASE UNCHANGED lane
    <2>1. From(lane', lane, 1 .. Len(lane))
      BY <1>1, <1>2, FromSame DEF Same
    <2> QED
      BY <2>1
  <1>3. CASE lane # << >> /\ Head(lane).kind # "steer"
    <2>1. 2 .. Len(lane) \in SUBSET (1 .. Len(lane)) /\ Head(lane) = lane[1]
          /\ \A i \in 1 .. Len(lane) : i = 1 \/ i \in 2 .. Len(lane)
      BY <1>1, <1>3
    <2>2. From(lane', lane, 1 .. Len(lane)) \/ From(lane', lane, 2 .. Len(lane))
      BY WorkerLane
    <2>3. CASE From(lane', lane, 1 .. Len(lane))
      BY <2>3
    <2>4. CASE From(lane', lane, 2 .. Len(lane))
      BY <1>3, <2>1, <2>4
    <2> QED
      BY <2>2, <2>3, <2>4
  <1>4. UNCHANGED lane \/ (lane # << >> /\ Head(lane).kind # "steer")
    BY DEF Worker, StartLoads, RestartInterrupts, RestartTimesOut, SessionOpens, SessionFails,
       TurnClears, TurnBegins, TurnRefused, StartFails, FollowUp, Interrupt, CaptureLoads,
       CaptureCommits, CaptureFails, At, Starts, Reads, laneVars
  <1> QED
    BY <1>2, <1>3, <1>4

LEMMA WorkerLoses ==
    ASSUME AInv, UInv, EInv, MInv, EndedStays, overtaken \subseteq overtaken', Worker, ~Steer, ~FollowUp
    PROVE  MInv'
  <1>t. TypeOK
    BY DEF AInv, TypeInv
  <1>l. /\ status \in [Runs -> Statuses] /\ class \in [Runs -> Classes]
        /\ turn \in [Attempted -> TurnStages] /\ attempt \in [Runs -> Attempts]
        /\ given \in [Messages -> Nat] /\ step \in Steps
    BY <1>t DEF TypeOK, Attempted
  <1>k. PICK K \in SUBSET (1 .. Len(lane)) :
          /\ From(lane', lane, K)
          /\ \A i \in 1 .. Len(lane) : i \notin K => lane[i].kind # "steer"
    BY <1>t, WorkerDrops
  <1>w. lane' \in Seq(Effects) /\ \A i \in 1 .. Len(lane), m \in Messages : i \notin K => ~Carries(lane[i], m)
    BY <1>t, <1>k, WorkerLane DEF Carries
  \* The messages and the turns stay, and the runs go on.
  <1>q. ASSUME UNCHANGED <<prompt, owner, forfeit, plan>>,
               \/ UNCHANGED <<turn, given>>
               \/ \E x \in Attempted : /\ turn' = [turn EXCEPT ![x] = "begun"]
                                       /\ given' = [given EXCEPT ![prompt[x]] = @ + 1]
                                       /\ prompt[x] \in Messages,
               \A r \in Runs :
                  \/ status'[r] = status[r] /\ class'[r] = class[r] /\ attempt'[r] = attempt[r]
                  \/ status'[r] \in {"running", "failed"} /\ class'[r] \in {class[r], "provider"}
                     /\ attempt'[r] = attempt[r]
                  \/ /\ ~NotBegun(r) /\ ~NotBegun(r)' /\ status'[r] # "none"
                     /\ r \notin overtaken =>
                           /\ attempt'[r] = attempt[r]
                           /\ status'[r] = "completed" => status[r] = "waiting"
                           /\ status'[r] # "waiting"
        PROVE  MInv'
    <2>1. \A r \in Runs : /\ status'[r] = "none" => status[r] = "none"
                          /\ NotBegun(r)' => NotBegun(r) /\ attempt'[r] = attempt[r]
      BY <1>q DEF NotBegun
    <2>2. \A r \in Runs \ overtaken' :
            /\ attempt'[r] = attempt[r]
            /\ status'[r] \in {"waiting", "completed"} => status[r] \in {"waiting", "completed"}
      BY <1>q
    <2>3. /\ \A m \in Messages : given[m] # 0 => given'[m] # 0
          /\ \A x \in Attempted :
                /\ turn[x] # "none" => turn'[x] # "none"
                /\ turn'[x] # "none" => turn[x] # "none" \/ given'[prompt[x]] # 0
      <3>1. CASE UNCHANGED <<turn, given>>
        BY <3>1
      <3>2. ASSUME NEW x \in Attempted, turn' = [turn EXCEPT ![x] = "begun"],
                   given' = [given EXCEPT ![prompt[x]] = @ + 1], prompt[x] \in Messages
            PROVE  /\ \A m \in Messages : given[m] # 0 => given'[m] # 0
                   /\ \A y \in Attempted :
                         /\ turn[y] # "none" => turn'[y] # "none"
                         /\ turn'[y] # "none" => turn[y] # "none" \/ given'[prompt[y]] # 0
        <4>1. PICK m \in Messages : m = prompt[x]
          BY <3>2
        <4>2. given' = [given EXCEPT ![m] = given[m] + 1]
          BY <3>2, <4>1
        <4>3. given'[m] # 0 /\ \A n \in Messages : given[n] # 0 => given'[n] # 0
          BY <1>l, <4>2
        <4>4. turn'[x] = "begun" /\ \A y \in Attempted : y = x \/ turn'[y] = turn[y]
          BY <1>l, <3>2
        <4> QED
          BY <4>1, <4>3, <4>4
      <3> QED
        BY <1>q, <3>1, <3>2
    <2> QED
      BY <1>k, <1>w, <1>q, <2>1, <2>2, <2>3, NothingLost
  <1>1. CASE \/ StartLoads \/ RestartInterrupts \/ RestartTimesOut \/ TurnClears \/ StartFails
             \/ Interrupt \/ CaptureLoads \/ CaptureFails
    <2>1. UNCHANGED <<status, class, attempt, prompt, turn, owner, given, forfeit, plan>>
      BY <1>1 DEF StartLoads, RestartInterrupts, RestartTimesOut, TurnClears, StartFails, Interrupt,
         CaptureLoads, CaptureFails, runVars, turnVars, messageVars
    <2> QED
      BY <1>q, <2>1
  <1>2. CASE SessionOpens \/ SessionFails \/ TurnRefused
    <2>1. /\ UNCHANGED <<attempt, prompt, turn, owner, given, forfeit, plan>>
          /\ \/ UNCHANGED <<status, class>>
             \/ class' = class /\ status' = [status EXCEPT ![step.run] = "running"]
             \/ /\ status' = [status EXCEPT ![step.run] = "failed"]
                /\ class' = [class EXCEPT ![step.run] = "provider"]
      BY <1>2 DEF SessionOpens, SessionFails, TurnRefused, End, turnVars, messageVars
    <2>2. ASSUME NEW r \in Runs
          PROVE  \/ status'[r] = status[r] /\ class'[r] = class[r]
                 \/ status'[r] \in {"running", "failed"} /\ class'[r] \in {class[r], "provider"}
      BY <1>l, <2>1
    <2> QED
      BY <1>q, <2>1, <2>2
  <1>3. CASE TurnBegins
    <2>1. /\ step.at = "cleared"
          /\ UNCHANGED <<status, class, attempt, prompt, owner, forfeit, plan>>
          /\ turn' = [turn EXCEPT ![<<step.run, step.att>>] = "begun"]
          /\ given' = [given EXCEPT ![prompt[<<step.run, step.att>>]] = @ + 1]
      BY <1>3 DEF TurnBegins, At, runVars
    <2>2. PICK x \in Attempted, m \in Messages : x = <<step.run, step.att>> /\ m = prompt[x]
      BY <2>1, ClearedWaits
    <2>3. /\ turn' = [turn EXCEPT ![x] = "begun"] /\ prompt[x] \in Messages
          /\ given' = [given EXCEPT ![prompt[x]] = @ + 1]
      BY <2>1, <2>2
    <2> QED
      BY <1>q, <2>1, <2>3
  <1>4. CASE CaptureCommits
    <2>1. /\ step.at = "capturing" /\ UNCHANGED <<prompt, class, turn, owner, given, forfeit, plan>>
          /\ attempt' = [attempt EXCEPT ![step.run] = step.att]
          /\ status' = [status EXCEPT ![step.run] =
                            IF step.was = "waiting" THEN "completed" ELSE step.was]
      BY <1>4 DEF CaptureCommits, At, turnVars, messageVars
    <2>2. /\ step.was \in {"waiting", "interrupted", "cancelled"} /\ step.run \in Runs
          /\ ~NotBegun(step.run) /\ class[step.run] # "workspace"
      <3>1. step.run \in Runs
        BY <1>l DEF Steps
      <3>2. ~NotBegun(step.run)
        BY <2>1, <3>1 DEF UInv, RunFits
      <3> QED
        BY <2>1, <3>1, <3>2, NoWorkspace DEF AInv, HInv, StepHolds
    <2>3. step.run \notin overtaken =>
             status[step.run] = step.was /\ attempt[step.run] = step.att
      BY <2>1, <2>2 DEF EInv, Misled
    <2>4. ASSUME NEW r \in Runs, r = step.run
          PROVE  /\ ~NotBegun(r) /\ ~NotBegun(r)' /\ status'[r] # "none"
                 /\ r \notin overtaken =>
                       /\ attempt'[r] = attempt[r]
                       /\ status'[r] = "completed" => status[r] = "waiting"
                       /\ status'[r] # "waiting"
      <3>1. status'[r] = (IF step.was = "waiting" THEN "completed" ELSE step.was)
            /\ attempt'[r] = step.att /\ class'[r] # "workspace"
        BY <1>l, <2>1, <2>2, <2>4
      <3>2. ~NotBegun(r)'
        BY <2>2, <3>1 DEF NotBegun
      <3> QED
        BY <2>2, <2>3, <2>4, <3>1, <3>2
    <2>5. ASSUME NEW r \in Runs, r # step.run
          PROVE  status'[r] = status[r] /\ class'[r] = class[r] /\ attempt'[r] = attempt[r]
      BY <1>l, <2>1, <2>5
    <2> QED
      BY <1>q, <2>1, <2>4, <2>5
  <1> QED
    BY <1>1, <1>2, <1>3, <1>4 DEF Worker

\* A steer effect leaves the lane when its message is given, or given up.
LEMMA SteerLoses ==
    ASSUME AInv, UInv, MInv, EndedStays, overtaken \subseteq overtaken', Steer
    PROVE  MInv'
  <1>t. TypeOK
    BY DEF AInv, TypeInv
  <1>l. lane \in Seq(Effects) /\ given \in [Messages -> Nat] /\ forfeit \in SUBSET Messages
    BY <1>t DEF TypeOK
  <1>1. /\ lane # << >> /\ Head(lane).kind = "steer"
        /\ UNCHANGED <<status, class, attempt, prompt, turn, owner, plan>>
    BY DEF Steer, At, runVars, turnVars
  <1>2. Head(lane) = lane[1] /\ 1 \in 1 .. Len(lane)
        /\ \A i \in 1 .. Len(lane) : i = 1 \/ i \in 2 .. Len(lane)
    BY <1>l, <1>1
  <1>3. PICK m \in Messages : m = Head(lane).msg
    BY <1>1, <1>2 DEF AInv, Addressed, SteersCarry
  <1>4. \A n : Carries(lane[1], n) => n = m
    BY <1>2, <1>3 DEF Carries
  <1>5. PICK K \in SUBSET (1 .. Len(lane)) :
          /\ From(lane', lane, K)
          /\ 1 \notin K => m \in forfeit' \/ given'[m] # 0
          /\ \A i \in 1 .. Len(lane) : i \notin K => i = 1
    <2>1. 2 .. Len(lane) \in SUBSET (1 .. Len(lane))
      OBVIOUS
    <2>2. CASE Settle /\ given' = [given EXCEPT ![m] = @ + 1]
      <3>1. From(lane', lane, 2 .. Len(lane))
        BY <1>l, <1>1, <2>2, FromTail DEF Settle
      <3>2. given'[m] # 0
        BY <1>l, <2>2
      <3> QED
        BY <1>2, <2>1, <3>1, <3>2
    <2>3. CASE TryAgain /\ forfeit' = IF LastTry THEN forfeit \cup {m} ELSE forfeit
      <3>1. \/ LastTry /\ From(lane', lane, 2 .. Len(lane))
            \/ ~LastTry /\ From(lane', lane, 1 .. Len(lane))
        BY <1>t, <1>1, <2>3, FromTryAgain
      <3>2. CASE LastTry /\ From(lane', lane, 2 .. Len(lane))
        BY <1>2, <2>1, <2>3, <3>2
      <3>3. CASE From(lane', lane, 1 .. Len(lane))
        BY <1>2, <3>3
      <3> QED
        BY <3>1, <3>2, <3>3
    <2>4. CASE UNCHANGED lane
      <3>1. From(lane', lane, 1 .. Len(lane))
        BY <1>l, <2>4, FromSame DEF Same
      <3> QED
        BY <1>2, <3>1
    <2> QED
      BY <1>3, <2>2, <2>3, <2>4 DEF Steer
  <1>6. \A n \in Messages : \A i \in 1 .. Len(lane) :
           i \notin K /\ Carries(lane[i], n) => n \in forfeit' \/ given'[n] # 0
    BY <1>4, <1>5
  <1>7. forfeit \subseteq forfeit' /\ \A n \in Messages : given[n] # 0 => given'[n] # 0
    <2>1. forfeit' \in {forfeit, forfeit \cup {m}}
          /\ (given' = given \/ given' = [given EXCEPT ![m] = @ + 1])
      BY <1>3 DEF Steer
    <2>2. given' = [given EXCEPT ![m] = @ + 1] => \A n \in Messages : given[n] # 0 => given'[n] # 0
      BY <1>l
    <2> QED
      BY <2>1, <2>2
  <1>8. lane' \in Seq(Effects)
    BY <1>t, WorkerLane DEF Worker
  <1>9. \A r \in Runs : NotBegun(r)' => NotBegun(r)
    BY <1>1 DEF NotBegun
  <1> QED
    BY <1>1, <1>5, <1>6, <1>7, <1>8, <1>9, NothingLost

LEMMA IngestionLoses ==
    ASSUME AInv, UInv, EInv, MInv, EndedStays, overtaken \subseteq overtaken',
           NEW x \in Attempted, Ingestion(x)
    PROVE  MInv'
  <1>t. TypeOK
    BY DEF AInv, TypeInv
  <1>l. /\ lane \in Seq(Effects) /\ status \in [Runs -> Statuses] /\ class \in [Runs -> Classes]
        /\ turn \in [Attempted -> TurnStages] /\ attempt \in [Runs -> Attempts]
        /\ From(lane, lane, 1 .. Len(lane)) /\ 1 .. Len(lane) \in SUBSET (1 .. Len(lane))
    BY <1>t, FromSame DEF TypeOK, Attempted, Same
  <1>x. PICK r \in Runs, a \in Attempts : x = <<r, a>>
    BY DEF Attempted
  <1>1. /\ UNCHANGED <<prompt, owner, given, forfeit, plan>> /\ turn[x] # "none"
        /\ \E s \in {"running", "ended", "deciding", "done"} : turn' = [turn EXCEPT ![x] = s]
    <2>1. CASE TurnProjected(x)
      BY <2>1 DEF TurnProjected, messageVars, laneVars, runVars
    <2>2. CASE TurnEnds(x)
      BY <2>2 DEF TurnEnds, messageVars, laneVars, runVars
    <2>3. CASE Decide(x)
      <3>1. turn' = [turn EXCEPT ![x] = "deciding"] \/ turn' = [turn EXCEPT ![x] = "done"]
        BY <2>3 DEF Decide
      <3> QED
        BY <2>3, <3>1 DEF Decide, messageVars, laneVars, runVars
    <2>4. CASE Finalize(x)
      BY <2>4 DEF Finalize, messageVars
    <2> QED
      BY <2>1, <2>2, <2>3, <2>4 DEF Ingestion
  <1>2. \A y \in Attempted : turn[y] # "none" <=> turn'[y] # "none"
    BY <1>l, <1>1
  <1>3. lane' = lane \/ \E e \in Effects : lane' = Append(lane, e)
    <2>1. Effect("capture", r, a, 0) \in Effects
      BY EffectTyped DEF Others
    <2>2. lane' = lane \/ lane' = Append(lane, Effect("capture", r, a, 0))
      BY <1>x DEF Ingestion, TurnProjected, TurnEnds, Decide, Finalize, laneVars
    <2> QED
      BY <2>1, <2>2
  \* The run that a fiber ends is the one it worked for.
  <1>4. ASSUME NEW o \in Runs
        PROVE  \/ status'[o] = status[o] /\ class'[o] = class[o] /\ attempt'[o] = attempt[o]
               \/ /\ ~NotBegun(o) /\ ~NotBegun(o)' /\ status'[o] # "none"
                  /\ o \notin overtaken =>
                        attempt'[o] = attempt[o] /\ turn[<<o, attempt[o]>>] # "none"
    <2>1. CASE TurnProjected(x) \/ TurnEnds(x) \/ Decide(x)
      BY <2>1 DEF TurnProjected, TurnEnds, Decide, runVars
    <2>2. CASE Finalize(x) /\ o # r
      BY <1>l, <1>x, <2>2 DEF Finalize, End
    <2>3. CASE Finalize(x) /\ o = r
      <3>1. turn[x] = "deciding" /\ attempt'[r] = a
            /\ status'[r] \in {"waiting", "interrupted", "failed"}
            /\ class'[r] \in {class[r], "none", "provider", "limit"}
        BY <1>l, <1>x, <2>3 DEF Finalize, End
      <3>2. ~NotBegun(r)
        BY <1>1, <1>x DEF UInv, RunFits
      <3>3. r \notin overtaken => attempt[r] = a
        BY <1>x, <3>1 DEF EInv, Misled
      <3>4. class'[r] # "workspace"
        BY <3>1, <3>2 DEF NotBegun
      <3> QED
        BY <1>1, <1>x, <2>3, <3>1, <3>2, <3>3, <3>4 DEF NotBegun
    <2> QED
      BY <2>1, <2>2, <2>3 DEF Ingestion
  <1>5. \A o \in Runs : /\ status'[o] = "none" => status[o] = "none"
                        /\ NotBegun(o)' => NotBegun(o) /\ attempt'[o] = attempt[o]
    BY <1>4 DEF NotBegun
  <1>6. \A o \in Runs \ overtaken' :
           /\ attempt'[o] = attempt[o]
           /\ status'[o] \in {"waiting", "completed"} =>
                 status[o] \in {"waiting", "completed"} \/ turn[<<o, attempt[o]>>] # "none"
    BY <1>4
  <1> QED
    BY <1>l, <1>1, <1>2, <1>3, <1>5, <1>6, NothingLost

\* The next process cancels what the last one was about to give.
LEMMA RestartLoses ==
    ASSUME AInv, UInv, MInv, EndedStays, overtaken \subseteq overtaken', ServerRestarts
    PROVE  MInv'
  <1>l. lane \in Seq(Effects)
    BY DEF AInv, TypeInv, TypeOK
  <1>1. /\ UNCHANGED <<prompt, owner, given, attempt, class>> /\ plan' = NoPlan
        /\ lane' = Only(lane, EffectsOf({"capture"}))
        /\ \A r \in Runs : status'[r] = status[r] \/ status'[r] = "cancelled"
        /\ \A x \in Attempted : turn'[x] = IF turn[x] = "none" THEN "none" ELSE "done"
    BY RestartEnds DEF ServerRestarts
  <1> DEFINE K == {i \in 1 .. Len(lane) : lane[i] \in EffectsOf({"capture"})}
  <1>2. lane' \in Seq(Effects) /\ K \in SUBSET (1 .. Len(lane)) /\ From(lane', lane, K)
    BY <1>l, <1>1, OnlyShape, FromOnly
  <1>3. forfeit \subseteq forfeit'
        /\ \A i \in 1 .. Len(lane) : lane[i].kind = "steer" => lane[i].msg \in forfeit'
    BY <1>l DEF ServerRestarts
  <1>4. \A m \in Messages : \A i \in 1 .. Len(lane) : Carries(lane[i], m) => m \in forfeit'
    BY <1>3 DEF Carries
  <1> HIDE DEF K
  <1>5. plan'.kind # "restart"
    BY <1>1 DEF NoPlan
  <1>6. \A r \in Runs : /\ status'[r] = "none" => status[r] = "none"
                        /\ NotBegun(r)' => NotBegun(r)
                        /\ status'[r] \in {"waiting", "completed"} => status[r] \in {"waiting", "completed"}
    BY <1>1 DEF NotBegun
  <1> QED
    BY <1>1, <1>2, <1>3, <1>4, <1>5, <1>6, NothingLost

\* A message that starts a run, or waits in the queue, is what the run starts with.
LEMMA FreshLoses ==
    ASSUME AInv, UInv, MInv, EndedStays, overtaken \subseteq overtaken', CommitQueue \/ CommitBegin
    PROVE  MInv'
  <1> DEFINE w == SettleFollowUp.lane
  <1>t. TypeOK /\ PlanNames
    BY DEF AInv, TypeInv
  <1>l. /\ lane \in Seq(Effects) /\ status \in [Runs -> Statuses] /\ attempt \in [Runs -> Attempts]
        /\ prompt \in [Attempted -> Messages \cup {0}] /\ owner \in [Messages -> Runs \cup {0}]
        /\ TypeInv
    BY <1>t DEF TypeOK, Attempted, AInv
  <1>k. plan.kind \in {"queue", "begin", "prepare"}
    BY DEF CommitQueue, CommitBegin, Committing
  <1>p. plan.run \in Runs /\ plan.msg \in Messages
    BY <1>t, <1>k DEF PlanNames, AInv, Addressed, MessagePlans
  <1>c. PICK n \in Runs, m \in Messages : n = plan.run /\ m = plan.msg
    BY <1>p
  <1>n. status[n] = "none" /\ attempt[n] = 1 /\ n # 0
    <2>1. status[n] = "none"
      BY <1>c, <1>k DEF AInv, HInv, PlanHolds, Fresh
    <2> QED
      BY <2>1, Smallest DEF AInv, Addressed
  <1>1. /\ UNCHANGED <<attempt, class, turn, given, forfeit>> /\ plan' = NoPlan
        /\ \E s \in {"queued", "starting", "preparing"} : status' = [status EXCEPT ![n] = s]
        /\ prompt' = [prompt EXCEPT ![<<n, 1>>] = m]
        /\ owner' = [owner EXCEPT ![m] = n]
    BY <1>c DEF CommitQueue, CommitBegin, turnVars
  <1>2. \/ lane' = w
        \/ \E e \in Effects : lane' = Append(w, e)
    <2>1. Effect("start", n, 1, 0) \in Effects
      BY <1>n, EffectTyped, Smallest DEF Starts
    <2>2. lane' = w \/ lane' = Append(w, Effect("start", n, 1, 0))
      BY <1>c, <1>l, BeginLane DEF CommitQueue
    <2> QED
      BY <2>1, <2>2
  <1>w. w \in Seq(Effects)
    BY <1>l, FollowUpTyped
  \* The steer effect that leaves the lane carried this message.
  <1>3. PICK K \in SUBSET (1 .. Len(lane)) :
          /\ From(w, lane, K)
          /\ \A i \in 1 .. Len(lane) : i \notin K => \A o : Carries(lane[i], o) => o = m
    <2>1. CASE w = lane
      <3>1. From(w, lane, 1 .. Len(lane))
        BY <1>l, <2>1, FromSame DEF Same
      <3> QED
        BY <3>1
    <2>2. CASE w # lane
      <3>1. step.at = "followup" /\ Head(lane).msg = m /\ w = Tail(lane)
        BY <1>c, <2>2 DEF SettleFollowUp
      <3>2. lane # << >>
        BY <1>l, <3>1 DEF TypeInv, StepHasEffect
      <3>3. From(w, lane, 2 .. Len(lane))
        BY <1>l, <3>1, <3>2, FromTail
      <3>4. 2 .. Len(lane) \in SUBSET (1 .. Len(lane)) /\ Head(lane) = lane[1]
            /\ \A i \in 1 .. Len(lane) : i = 1 \/ i \in 2 .. Len(lane)
        BY <1>l, <3>2
      <3> QED
        BY <3>1, <3>3, <3>4 DEF Carries
    <2> QED
      BY <2>1, <2>2
  <1> HIDE DEF w
  <1>4. \A x \in Attempted : prompt'[x] = IF x = <<n, 1>> THEN m ELSE prompt[x]
    BY <1>1, <1>l
  <1>5. \A r \in Runs : r # n => status'[r] = status[r]
    BY <1>1, <1>l
  <1>6. status'[n] \in {"queued", "starting", "preparing"}
    BY <1>1, <1>l
  <1>7. \A r \in Runs : <<r, attempt[r]>> \in Attempted
    BY <1>l DEF Attempted
  <1>8. <<n, 1>> \in Attempted /\ turn[<<n, 1>>] = "none"
    <2>1. NotBegun(n) /\ RunFits(n)
      BY <1>n DEF NotBegun, UInv
    <2> QED
      BY <1>7, <1>n, <2>1, Smallest DEF RunFits
  <1>9. ASSUME NEW r \in Runs \ overtaken' PROVE RunGives(r)'
    <2>1. RunGives(r)
      BY DEF MInv
    <2> QED
      BY <1>1, <1>5, <1>6, <2>1 DEF RunGives, NoPlan
  <1>10. BegunIsGiven'
    BY <1>1, <1>4, <1>8 DEF MInv, BegunIsGiven
  <1>11. ASSUME NEW o \in Messages PROVE Owned(o)' /\ NotLost(o)'
    <2>1. CASE o = m
      <3>1. owner'[o] = n /\ prompt'[<<n, attempt'[n]>>] = o
        BY <1>1, <1>4, <1>8, <1>n, <1>l, <2>1
      <3>2. Owned(o)'
        BY <1>6, <3>1 DEF Owned
      <3>3. NotLost(o)'
        BY <3>1 DEF NotLost
      <3> QED
        BY <3>2, <3>3
    <2>2. CASE o # m /\ owner[o] # 0
      <3>1. PICK r \in Runs : r = owner[o] /\ owner'[o] = r
        BY <1>1, <1>l, <2>2
      <3>2. Owned(o) /\ NotLost(o)
        BY DEF MInv
      <3>3. r # n
        BY <1>n, <2>2, <3>1, <3>2 DEF Owned
      <3>4. /\ status'[r] = status[r] /\ class'[r] = class[r] /\ attempt'[r] = attempt[r]
            /\ prompt'[<<r, attempt[r]>>] = prompt[<<r, attempt[r]>>]
        BY <1>1, <1>4, <1>5, <1>7, <3>3
      <3>5. Owned(o)'
        BY <2>2, <3>1, <3>2, <3>4 DEF Owned, NotBegun
      <3>6. (\E i \in 1 .. Len(lane) : Carries(lane[i], o)) =>
               \E i \in 1 .. Len(lane') : Carries(lane'[i], o)
        <4>1. SUFFICES ASSUME NEW k \in 1 .. Len(lane), Carries(lane[k], o)
                       PROVE  \E i \in 1 .. Len(lane') : Carries(lane'[i], o)
          OBVIOUS
        <4>2. k \in K
          BY <1>3, <2>2, <4>1
        <4> QED
          BY <1>2, <1>3, <1>w, <4>1, <4>2, StillCarried
      <3>7. ASSUME r \notin overtaken', given'[o] = 0, o \notin forfeit'
            PROVE  \/ \E i \in 1 .. Len(lane') : Carries(lane'[i], o)
                   \/ prompt'[<<r, attempt'[r]>>] = o
                   \/ Dropped(r)'
        <4>1. r \notin overtaken /\ given[o] = 0 /\ o \notin forfeit
          BY <1>1, <3>7
        <4> QED
          BY <2>2, <3>1, <3>2, <3>4, <3>6, <4>1 DEF NotLost, Dropped
      <3>8. NotLost(o)'
        BY <3>1, <3>7 DEF NotLost, Carries, Dropped
      <3> QED
        BY <3>5, <3>8
    <2>3. CASE o # m /\ owner[o] = 0
      <3>1. owner'[o] = 0
        BY <1>1, <1>l, <2>3
      <3> QED
        BY <3>1 DEF Owned, NotLost
    <2> QED
      BY <2>1, <2>2, <2>3
  <1> QED
    BY <1>9, <1>10, <1>11 DEF MInv

\* A message for a running turn is carried by its effect, or the next attempt
\* starts with it; a provider has what the last one started with.
LEMMA JoinLoses ==
    ASSUME AInv, UInv, EInv, MInv, EndedStays, overtaken \subseteq overtaken', CommitJoin
    PROVE  MInv'
  <1>t. TypeOK /\ PlanNames
    BY DEF AInv, TypeInv
  <1>l. /\ lane \in Seq(Effects) /\ status \in [Runs -> Statuses] /\ attempt \in [Runs -> Attempts]
        /\ prompt \in [Attempted -> Messages \cup {0}] /\ owner \in [Messages -> Runs \cup {0}]
        /\ \A r \in Runs : <<r, attempt[r]>> \in Attempted
    BY <1>t DEF TypeOK, Attempted
  <1>k. plan.kind \in {"steer", "restart"}
    BY DEF CommitJoin, Committing
  <1>p. plan.run \in Runs /\ plan.msg \in Messages /\ NextAttempt(plan.run) \in Attempts
        /\ plan.att \in Attempts
    BY <1>t, <1>k DEF PlanNames, AInv, Addressed, MessagePlans
  <1>c. PICK n \in Runs, m \in Messages, k \in Attempts, q \in {plan.from}, b \in Attempts :
          n = plan.run /\ m = plan.msg /\ k = NextAttempt(plan.run) /\ q = plan.from /\ b = plan.att
    BY <1>p
  <1>e. Effect("steer", n, b, m) \in Effects /\ Effect("restart", n, b, 0) \in Effects
    BY EffectTyped DEF Starts, Others
  <1>n. ~NotBegun(n) /\ n # 0 /\ status[n] # "none"
    <2>1. PlanFits(n)
      BY DEF UInv
    <2> QED
      BY <1>c, <1>k, <2>1, Smallest DEF PlanFits, NotBegun
  <1>q. q # 0 => q \in Runs /\ q # n /\ status[q] = "queued"
    <2>1. SUFFICES ASSUME q # 0 PROVE q \in Runs /\ q # n /\ status[q] = "queued"
      OBVIOUS
    <2>2. q \in Runs
      BY <1>c, <1>k, <2>1 DEF AInv, Addressed
    <2>3. PlanFits(q)
      BY <2>2 DEF UInv
    <2>4. status[q] = "queued"
      BY <1>c, <1>k, <2>3 DEF PlanFits
    <2> QED
      BY <1>n, <2>2, <2>4 DEF NotBegun
  <1>1. /\ UNCHANGED <<class, turn, given, forfeit>> /\ plan' = NoPlan
        /\ owner' = [owner EXCEPT ![m] = n]
    BY <1>c DEF CommitJoin, turnVars
  <1>s. LeaveQueue(status, q) \in [Runs -> Statuses]
        /\ \A r \in Runs : LeaveQueue(status, q)[r] = IF r = q /\ q # 0 THEN "cancelled" ELSE status[r]
    BY <1>l, <1>q, Smallest DEF LeaveQueue, Statuses, Terminal
  \* The runs beside the one that is joined.
  <1>2. ASSUME NEW r \in Runs, r # n
        PROVE  /\ attempt'[r] = attempt[r]
               /\ status'[r] = status[r] \/ (status'[r] = "cancelled" /\ status[r] = "queued")
               /\ prompt'[<<r, attempt[r]>>] = prompt[<<r, attempt[r]>>]
    <2>1. status'[r] = LeaveQueue(status, q)[r] /\ attempt'[r] = attempt[r]
      BY <1>2, <1>l, <1>s, <1>c DEF CommitJoin
    <2>2. prompt' = prompt \/ prompt' = [prompt EXCEPT ![<<n, k>>] = m]
      BY <1>c DEF CommitJoin
    <2> QED
      BY <1>2, <1>l, <1>q, <1>s, <2>1, <2>2
  \* The run that is joined.
  <1>3. \/ /\ plan.kind = "steer" /\ status'[n] = status[n] /\ attempt' = attempt /\ prompt' = prompt
           /\ lane' = Append(lane, Effect("steer", n, b, m))
        \/ /\ plan.kind = "restart" /\ status'[n] = "starting" /\ attempt'[n] = k
           /\ prompt' = [prompt EXCEPT ![<<n, k>>] = m]
           /\ lane' = Append(lane, Effect("restart", n, b, 0))
    <2>1. CASE plan.kind = "steer"
      <3>1. status' = LeaveQueue(status, q) /\ attempt' = attempt /\ prompt' = prompt
            /\ lane' = Append(lane, Effect("steer", n, b, m))
        BY <1>c, <2>1 DEF CommitJoin
      <3>2. status'[n] = status[n]
        BY <1>q, <1>s, <3>1
      <3> QED
        BY <2>1, <3>1, <3>2
    <2>2. CASE plan.kind = "restart"
      <3>1. /\ status' = [LeaveQueue(status, q) EXCEPT ![n] = "starting"]
            /\ attempt' = [attempt EXCEPT ![n] = k] /\ prompt' = [prompt EXCEPT ![<<n, k>>] = m]
            /\ lane' = Append(lane, Effect("restart", n, b, 0))
        BY <1>c, <2>2 DEF CommitJoin
      <3>2. status'[n] = "starting" /\ attempt'[n] = k
        BY <1>l, <1>s, <3>1
      <3> QED
        BY <2>2, <3>1, <3>2
    <2> QED
      BY <1>k, <2>1, <2>2
  <1>4. From(lane, lane, 1 .. Len(lane)) /\ 1 .. Len(lane) \in SUBSET (1 .. Len(lane))
    BY <1>l, FromSame DEF Same
  <1>5. \A o : (\E i \in 1 .. Len(lane) : Carries(lane[i], o)) =>
                  \E i \in 1 .. Len(lane') : Carries(lane'[i], o)
    <2>1. \E e \in Effects : lane' = Append(lane, e)
      BY <1>3, <1>e
    <2> QED
      BY <1>4, <1>l, <2>1, StillCarried
  \* The attempt that is replaced was given its message.
  <1>6. plan.kind = "restart" /\ n \notin overtaken =>
           status[n] = "running" /\ given[prompt[<<n, attempt[n]>>]] # 0
    <2>1. SUFFICES ASSUME plan.kind = "restart", n \notin overtaken
                   PROVE  status[n] = "running" /\ given[prompt[<<n, attempt[n]>>]] # 0
      OBVIOUS
    <2>2. status[n] = "running"
      BY <1>c, <2>1 DEF EInv, Misled
    <2>3. turn[<<n, attempt[n]>>] # "none"
      BY <1>c, <2>1 DEF MInv, RunGives
    <2> QED
      BY <1>l, <2>2, <2>3 DEF MInv, BegunIsGiven
  <1>7. <<n, k>> \in Attempted /\ turn[<<n, k>>] = "none"
    BY <1>c, NextIsFresh DEF UInv, AInv, Attempted
  <1>8. prompt' = prompt \/ \A x \in Attempted : prompt'[x] = IF x = <<n, k>> THEN m ELSE prompt[x]
    BY <1>3, <1>l
  <1>9. ASSUME NEW r \in Runs \ overtaken' PROVE RunGives(r)'
    <2>1. RunGives(r)
      BY DEF MInv
    <2>2. plan'.kind = "none"
      BY <1>1 DEF NoPlan
    <2>3. CASE r # n
      BY <1>1, <1>2, <2>1, <2>2, <2>3 DEF RunGives
    <2>4. CASE r = n
      BY <1>1, <1>3, <2>1, <2>2, <2>4 DEF RunGives
    <2> QED
      BY <2>3, <2>4
  <1>10. BegunIsGiven'
    BY <1>1, <1>7, <1>8 DEF MInv, BegunIsGiven
  <1>b. ~NotBegun(n)'
    BY <1>1, <1>3, <1>n DEF NotBegun
  <1>11. ASSUME NEW o \in Messages PROVE Owned(o)' /\ NotLost(o)'
    <2>1. CASE o = m
      <3>1. owner'[o] = n
        BY <1>1, <1>l, <2>1
      <3>2. Owned(o)'
        BY <1>3, <1>b, <1>n, <3>1 DEF Owned
      <3>3. \/ \E i \in 1 .. Len(lane') : Carries(lane'[i], m)
            \/ prompt'[<<n, attempt'[n]>>] = m
        <4>1. CASE lane' = Append(lane, Effect("steer", n, b, m))
          <5>1. Len(lane') \in 1 .. Len(lane') /\ lane'[Len(lane')] = Effect("steer", n, b, m)
            BY <1>l, <1>e, <4>1, AppendEntries
          <5> QED
            BY <5>1 DEF Carries, Effect
        <4>2. CASE attempt'[n] = k /\ prompt' = [prompt EXCEPT ![<<n, k>>] = m]
          BY <1>l, <1>7, <4>2
        <4> QED
          BY <1>3, <4>1, <4>2
      <3>4. NotLost(o)'
        BY <2>1, <3>1, <3>3 DEF NotLost, Carries
      <3> QED
        BY <3>2, <3>4
    <2>2. CASE o # m /\ owner[o] # 0
      <3>1. PICK r \in Runs : r = owner[o] /\ owner'[o] = r
        BY <1>1, <1>l, <2>2
      <3>2. Owned(o) /\ NotLost(o)
        BY DEF MInv
      <3>3. Owned(o)'
        <4>1. CASE r = n
          BY <1>3, <1>b, <1>n, <3>1, <4>1 DEF Owned
        <4>2. CASE r # n
          BY <1>1, <1>2, <2>2, <3>1, <3>2, <4>2 DEF Owned, NotBegun
        <4> QED
          BY <4>1, <4>2
      <3>4. ASSUME r \notin overtaken', given'[o] = 0, o \notin forfeit'
            PROVE  \/ \E i \in 1 .. Len(lane') : Carries(lane'[i], o)
                   \/ prompt'[<<r, attempt'[r]>>] = o
                   \/ Dropped(r)'
        <4>1. r \notin overtaken /\ given[o] = 0 /\ o \notin forfeit
          BY <1>1, <3>4
        <4>2. \/ \E i \in 1 .. Len(lane) : Carries(lane[i], o)
              \/ prompt[<<r, attempt[r]>>] = o
              \/ Dropped(r)
          BY <2>2, <3>1, <3>2, <4>1 DEF NotLost
        <4>3. CASE r # n
          BY <1>2, <1>5, <4>2, <4>3 DEF Dropped
        <4>4. CASE r = n /\ plan.kind = "steer"
          BY <1>3, <1>5, <4>2, <4>4 DEF Dropped
        <4>5. CASE r = n /\ plan.kind = "restart"
          BY <1>5, <1>6, <4>1, <4>2, <4>5 DEF Dropped
        <4> QED
          BY <1>k, <4>3, <4>4, <4>5
      <3>5. NotLost(o)'
        BY <3>1, <3>4 DEF NotLost, Carries, Dropped
      <3> QED
        BY <3>3, <3>5
    <2>3. CASE o # m /\ owner[o] = 0
      <3>1. owner'[o] = 0
        BY <1>1, <1>l, <2>3
      <3> QED
        BY <3>1 DEF Owned, NotLost
    <2> QED
      BY <2>1, <2>2, <2>3
  <1> QED
    BY <1>9, <1>10, <1>11 DEF MInv

LEMMA MInvStarts == Init => MInv
  BY DEF Init, MInv, RunGives, BegunIsGiven, Owned, NotLost, NoPlan, Attempted, Runs

LEMMA MInvStays == AInv /\ UInv /\ GInv /\ EInv /\ MInv /\ [Next]_vars => MInv'
  <1> SUFFICES ASSUME AInv, UInv, GInv, EInv, MInv, [Next]_vars PROVE MInv'
    OBVIOUS
  <1>e. EndedStays /\ overtaken \subseteq overtaken'
    <2>1. Classed /\ HInv
      BY DEF AInv, TypeInv, TypeOK, Classed
    <2> QED
      BY <2>1, EInvStays, OvertakenStays
  <1>1. CASE SendFresh \/ SendJoining \/ Stop \/ Edit \/ Prepared \/ Listen \/ Lose \/ FollowUp
    BY <1>1, <1>e, CommandLoses
  <1>2. CASE Commit
    BY <1>2, <1>e, SomeCommitsLose, FreshLoses, JoinLoses, StopLoses DEF Commit
  <1>3. CASE Worker /\ ~FollowUp
    BY <1>3, <1>e, WorkerLoses, SteerLoses
  <1>4. CASE \E x \in Attempted : Ingestion(x)
    BY <1>4, <1>e, IngestionLoses
  <1>5. CASE ServerRestarts
    BY <1>5, <1>e, RestartLoses
  <1>6. CASE UNCHANGED vars
    <2>1. UNCHANGED <<status, class, attempt, overtaken, prompt, turn, lane, plan, owner, given, forfeit>>
      BY <1>6 DEF vars, runVars, turnVars, laneVars, messageVars
    <2>2. \A r \in Runs : NotBegun(r)' => NotBegun(r)
      BY <2>1 DEF NotBegun
    <2>3. lane \in Seq(Effects) /\ From(lane, lane, 1 .. Len(lane))
          /\ 1 .. Len(lane) \in SUBSET (1 .. Len(lane))
      BY FromSame DEF AInv, TypeInv, TypeOK, Same
    <2> QED
      BY <1>e, <2>1, <2>2, <2>3, NothingLost
  <1> QED
    BY <1>1, <1>2, <1>3, <1>4, <1>5, <1>6 DEF Next

\* No message is lost behind a run that goes on to complete, for every size of the
\* thread and in every order of sends, steers, restarts, promotions, stops, ends
\* and captures: until a provider has it, an effect carries it or the attempt
\* that would start is the one it was sent to.  What is excused is named: effects
\* given up, and runs that a write decided earlier brought back.
THEOREM MessagesAreAccounted == Spec => []Accounted
  <1>1. AInv /\ MInv => Accounted
    <2>1. SUFFICES ASSUME AInv, MInv, NEW m \in Messages \ forfeit, owner[m] # 0, given[m] = 0,
                          status[owner[m]] \in {"waiting", "completed"}, owner[m] \notin overtaken
                   PROVE  \E i \in DOMAIN lane : lane[i].msg = m
      BY DEF Accounted
    <2>2. PICK r \in Runs : r = owner[m]
      BY <2>1 DEF AInv, TypeInv, TypeOK
    <2>3. NotLost(m) /\ RunGives(r) /\ BegunIsGiven /\ attempt[r] \in Attempts
      BY <2>1, <2>2 DEF MInv, AInv, TypeInv, TypeOK
    <2>4. given[prompt[<<r, attempt[r]>>]] # 0
      BY <2>1, <2>2, <2>3 DEF RunGives, BegunIsGiven, Attempted
    <2>5. \E i \in 1 .. Len(lane) : Carries(lane[i], m)
      BY <2>1, <2>2, <2>3, <2>4 DEF NotLost, Dropped
    <2>6. DOMAIN lane = 1 .. Len(lane)
      BY DEF AInv, TypeInv, TypeOK
    <2> QED
      BY <2>5, <2>6 DEF Carries
  <1>2. AInv => HInv /\ Classed
    BY DEF AInv, TypeInv, TypeOK, Classed
  <1>3. EInv /\ AInv /\ [Next]_vars => EInv'
    BY <1>2, EInvStays
  <1>4. Init => EInv
    BY EInvStarts
  <1> QED
    BY <1>1, <1>3, <1>4, AInvStarts, AInvStays, UInvStarts, UInvStays, GInvStarts, GInvStays,
       MInvStarts, MInvStays, PTL DEF Spec

=============================================================================
