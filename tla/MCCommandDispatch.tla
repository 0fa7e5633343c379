------------------------- MODULE MCCommandDispatch --------------------------
(* CommandDispatch on small instances. *)
EXTENDS CommandDispatch

CONSTANTS f1, f2, f3, t1, t2, p1, p2, c1, c2

Req(c, a, k) == [id |-> c, aggregate |-> a, kind |-> k]

\* Every id belongs to one command, sent by retrying clients.
MCRetried == {Req(c1, t1, "resume"), Req(c2, t1, "settle")}

\* Two commands of one thread, sent by clients that retry; the id of one is
\* also used for a second thread and for a project.
MCReused ==
    {Req(c1, t1, "resume"), Req(c2, t1, "settle"), Req(c1, t2, "plain"), Req(c1, p1, "project")}

\* One id for two threads.
MCForeign == {Req(c1, t1, "plain"), Req(c1, t2, "plain")}
=============================================================================
