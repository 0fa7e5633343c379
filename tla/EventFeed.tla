----------------------------- MODULE EventFeed -----------------------------
(***************************************************************************)
(* What the event sink promises to whoever follows it: one log that only   *)
(* grows, and readers that each get the events they want in log order,     *)
(* every one of them, once.  A reader that only cares about what happens   *)
(* from now on starts at the end of the log; a reader that has started     *)
(* skips nothing but events that were lost to it.                          *)
(***************************************************************************)
EXTENDS Integers, Sequences

CONSTANTS Readers, Topics, Batches   \* Batches: what one transaction may append

VARIABLES
    feed,         \* the topics of the committed events; an event's sequence is its index
    wants,        \* reader -> the topics it asked for
    started,      \* reader -> it follows the log
    position,     \* reader -> the sequence of the last event it got
    lost          \* reader -> events it will not get

feedVars == <<feed, wants, started, position, lost>>

FeedInit ==
    /\ feed = <<>>
    /\ wants \in [Readers -> SUBSET Topics]
    /\ started \in [Readers -> BOOLEAN]
    /\ position = [r \in Readers |-> 0]
    /\ lost = [r \in Readers |-> {}]

AppendBatch ==
    /\ \E b \in Batches : feed' = feed \o b
    /\ UNCHANGED <<wants, started, position, lost>>

Ahead(r) == {i \in DOMAIN feed : i > position[r] /\ feed[i] \in wants[r]}

Read(r) ==
    /\ started[r]
    /\ \E i \in Ahead(r) :
          /\ \A j \in Ahead(r) \ lost[r] : i <= j
          /\ position' = [position EXCEPT ![r] = i]
    /\ UNCHANGED <<feed, wants, started, lost>>

\* Where no event the reader wants follows.
StartAtEnd(r) ==
    /\ ~ started[r]
    /\ started' = [started EXCEPT ![r] = TRUE]
    /\ \E n \in position[r]..Len(feed) :
          /\ \A i \in (n + 1)..Len(feed) : feed[i] \notin wants[r]
          /\ position' = [position EXCEPT ![r] = n]
    /\ UNCHANGED <<feed, wants, lost>>

\* An event of the log is lost to a reader that follows it, or, to a reader
\* that starts over, lost no longer.
Lose ==
    /\ \A r \in Readers : lost'[r] \subseteq DOMAIN feed /\ (lost'[r] # {} => started[r])
    /\ UNCHANGED <<feed, wants, started, position>>

Leave(R) ==
    /\ started' = [r \in Readers |-> started[r] /\ r \notin R]
    /\ lost' = [r \in Readers |-> {}]
    /\ UNCHANGED <<feed, wants, position>>

FeedNext ==
    \/ AppendBatch \/ Lose
    \/ \E r \in Readers : Read(r) \/ StartAtEnd(r)
    \/ \E R \in SUBSET Readers : Leave(R)

FeedSpec == FeedInit /\ [][FeedNext]_feedVars
=============================================================================
