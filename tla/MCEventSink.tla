---------------------------- MODULE MCEventSink -----------------------------
(* EventSink on small instances. *)
EXTENDS EventSink

CONSTANTS w1, w2, s1, run, item

MCTopics == {run, item}
=============================================================================
