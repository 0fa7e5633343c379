--------------------------- MODULE MCEffectWorker ---------------------------
(* Instances of EffectWorker for TLC. *)
EXTENDS EffectWorker, TLC

CONSTANTS s1, s2, t1, t2, start, interrupt, restart, detach, capture, title, continue

MCTypeOf ==
    [e \in Effects |->
        CASE e = start     -> "provider-turn.start"
          [] e = interrupt -> "provider-turn.interrupt"
          [] e = restart   -> "provider-turn.restart"
          [] e = detach    -> "provider-session.detach"
          [] e = capture   -> "checkpoint.capture"
          [] e = title     -> "thread-title.generate"
          [] e = continue  -> "provider-runtime.continue"]

MCThreadOf == [e \in Effects |-> IF e \in {capture} THEN t2 ELSE t1]

SlotSymmetry == Permutations(Slots)
=============================================================================
