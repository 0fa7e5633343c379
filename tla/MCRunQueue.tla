----------------------------- MODULE MCRunQueue -----------------------------
EXTENDS RunQueue

\* How the clients send: the first message finds no run to join.
MCModes == << {"new", "defer"}, {"new", "steer", "restart"}, {"new", "steer"} >>

\* Two messages are enough for a restart that a Stop overlooks.
MCStopModes == << {"new"}, {"new", "steer"} >>
=============================================================================
