------------------------------ MODULE MCEvents ------------------------------
(***************************************************************************)
(* Three parts that carry events, checked side by side: the outbox and its *)
(* relays (OutboxRelay), the interactions on their way to the recommender, *)
(* and the messages to the customer.  They share no state; the behaviours  *)
(* of one part are those in which only that part takes steps, and a part   *)
(* that takes none stays in its initial state.                             *)
(***************************************************************************)
EXTENDS OutboxRelay

CONSTANTS
    Keys, MaxPublishRetries, MaxDeaths,                              \* Interactions
    Events, Templates, Consumers, MaxResends, MaxCopies, MaxFailures \* Notifications

ASSUME EventsAssumption ==
    /\ {MaxPublishRetries, MaxDeaths, MaxCopies, MaxFailures} \subseteq Nat
    /\ MaxResends \in Nat \ {0}

VARIABLES
    part,
    recorded, tried, batch, out, link, queue, counting, stored, sequence, dropped,
    deaths, vanished,
    copies, waiting, handling, inbox, log, resends, round, retrying, got, unnoted,
    lost, stuck, failures

Track == INSTANCE Interactions WITH
    MaxRetries <- MaxPublishRetries, MaxFaults <- MaxDeaths, row <- recorded,
    sent <- out, faults <- deaths
Note == INSTANCE Notifications WITH
    MaxRetries <- MaxResends, MaxFaults <- MaxFailures, queue <- waiting,
    retries <- resends, batch <- round, faults <- failures

interest == <<recorded, tried, batch, out, link, queue, counting, stored, sequence,
              dropped, deaths, vanished>>
notice == <<copies, waiting, handling, inbox, log, resends, round, retrying, got,
            unnoted, lost, stuck, failures>>

MCInit ==
    /\ part \in {"outbox", "interest", "notice"}
    /\ Init /\ Track!Init /\ Note!Init

MCNext ==
    /\ UNCHANGED part
    /\ \/ part = "outbox" /\ Next /\ UNCHANGED <<interest, notice>>
       \/ part = "interest" /\ Track!Next /\ UNCHANGED <<vars, notice>>
       \/ part = "notice" /\ Note!Next /\ UNCHANGED <<vars, interest>>

\* In the initial state of a part none of its fair actions is enabled: a part
\* that takes no step is fair.
MCSpec ==
    /\ MCInit /\ [][MCNext]_<<part, vars, interest, notice>>
    /\ Fairness /\ Track!Fairness /\ Note!Fairness

------------------------------------------------------------------------------

\* An interaction that was recorded is counted, unless the relay gave it up or its
\* message vanished with a connection (relay_outbox, consume_events).
EachCounted == Track!EachCounted

\* An interaction is counted twice only after a death.
CountedOnce == Track!CountedOnce

\* A customer is sent the message of an event once from each template, but for the
\* sendings of which nothing was kept (process_event, notification_retry_worker).
NotifiedOnce == Note!NotifiedOnce

\* An event ends up in the inbox or among the dead letters, and a message that
\* failed is sent, given up or the worker's that died.
EachNotified == Note!EachNotified
=============================================================================
