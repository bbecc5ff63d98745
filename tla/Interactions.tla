---------------------------- MODULE Interactions ----------------------------
(***************************************************************************)
(* What customers look at: interaction-service records it with an outbox   *)
(* row, its relay publishes the row, recommender-ai-service counts it in   *)
(* four stores.                                                            *)
(*                                                                         *)
(* Unlike the relays of OutboxRelay this one holds no transaction: it      *)
(* publishes the rows of a batch it has read and saves each.  Publishing   *)
(* on a connection that broke raises into the handler of the single row,   *)
(* so the relay does not connect again until something else ends its loop. *)
(* The consumer keeps no inbox, and its queue has no dead letters: a       *)
(* message that raises is dropped.                                         *)
(*                                                                         *)
(* Data: an interaction is its idempotency key (one without a key never    *)
(* comes twice); those the consumer only acknowledges, a purchase or one   *)
(* without user or product, are left out.  Of the stores,                  *)
(* customer_behaviors takes no UUIDs and stays empty, and the trend and    *)
(* the graph follow the sequence.  The consumer has declared its queue.    *)
(***************************************************************************)
EXTENDS Naturals

CONSTANTS
    Keys,
    MaxRetries,   \* a row is given up when its retry_count exceeds this
    MaxFaults     \* bound: deaths of the relay and of the consumer

VARIABLES
    row,        \* status of the outbox row, "none" before the record
    tried,      \* its retry_count
    batch,      \* rows the relay has read and not yet come to
    sent,       \* the row it has published and not yet saved
    link,       \* its connection
    queue,      \* messages in recommender_interaction_sync
    counting,   \* the consumer's message, and how far it is with it
    stored,     \* UserSequenceEvent rows
    sequence,   \* entries pushed to Redis for the model
    faults,     \* deaths
    vanished,   \* interactions whose message was in the buffer of a broken connection
    dropped     \* interactions of which a message raised

relay == <<batch, sent, link>>
stores == <<stored, sequence>>
consumer == <<counting, stores, dropped>>
vars == <<row, tried, relay, queue, consumer, faults, vanished>>

Nobody == [key |-> "none", step |-> "idle"]

TypeOK ==
    /\ row \in [Keys -> {"none", "PENDING", "PUBLISHED", "FAILED"}]
    /\ tried \in [Keys -> 0..(MaxRetries + 1)]
    /\ batch \subseteq Keys
    /\ sent \subseteq Keys
    /\ link \in {"open", "broken", "closed"}
    /\ queue \in [Keys -> Nat]
    /\ counting \in {Nobody} \union [key : Keys, step : {"store", "push", "ack"}]
    /\ stored \in [Keys -> Nat] /\ sequence \in [Keys -> Nat]
    /\ faults \in 0..MaxFaults
    /\ vanished \subseteq Keys
    /\ dropped \subseteq Keys

Init ==
    /\ row = [k \in Keys |-> "none"] /\ tried = [k \in Keys |-> 0]
    /\ batch = {} /\ sent = {} /\ link = "open"
    /\ queue = [k \in Keys |-> 0]
    /\ counting = Nobody
    /\ stored = [k \in Keys |-> 0] /\ sequence = [k \in Keys |-> 0]
    /\ faults = 0 /\ vanished = {} /\ dropped = {}

------------------------------------------------------------------------------
\* interaction-service

\* record_interaction: a key that is there, also one that another request has
\* stored in the meantime, records nothing.
Record(k) ==
    /\ row[k] = "none"
    /\ row' = [row EXCEPT ![k] = "PENDING"]
    /\ UNCHANGED <<tried, relay, queue, consumer, faults, vanished>>

Poll ==
    /\ link # "closed" /\ batch = {} /\ sent = {}
    /\ \E k \in Keys : row[k] = "PENDING"
    /\ batch' = {k \in Keys : row[k] = "PENDING"}
    /\ UNCHANGED <<row, tried, sent, link, queue, consumer, faults, vanished>>

\* Mutant: the row is saved first, and published after that if the relay lives.
SaveThenPublish(k) ==
    /\ k \in batch /\ link = "open" /\ sent = {}
    /\ row' = [row EXCEPT ![k] = "PUBLISHED"]
    /\ batch' = batch \ {k}
    /\ \/ queue' = [queue EXCEPT ![k] = @ + 1] /\ UNCHANGED <<link, faults>>
       \/ /\ faults < MaxFaults
          /\ faults' = faults + 1 /\ link' = "closed" /\ UNCHANGED queue
    /\ UNCHANGED <<tried, sent, consumer, vanished>>

PublishRow(k) ==
    /\ k \in batch /\ link = "open" /\ sent = {}
    /\ queue' = [queue EXCEPT ![k] = @ + 1]
    /\ batch' = batch \ {k} /\ sent' = {k}
    /\ vanished' = vanished \ {k}
    /\ UNCHANGED <<row, tried, link, consumer, faults>>

\* The connection breaks with the message in its buffer; nothing is raised yet.
PublishLost(k) ==
    /\ k \in batch /\ link = "open" /\ sent = {}
    /\ link' = "broken" /\ vanished' = vanished \union {k}
    /\ batch' = batch \ {k} /\ sent' = {k}
    /\ UNCHANGED <<row, tried, queue, consumer, faults>>

\* Mutant: the save of a published row is forgotten, and it is found again.
ForgetRow(k) ==
    /\ k \in sent
    /\ sent' = {}
    /\ UNCHANGED <<row, tried, batch, link, queue, consumer, faults, vanished>>

SaveRow(k) ==
    /\ k \in sent
    /\ row' = [row EXCEPT ![k] = "PUBLISHED"]
    /\ sent' = {}
    /\ UNCHANGED <<tried, batch, link, queue, consumer, faults, vanished>>

\* Publishing raises; the fourth time the row is FAILED, and the dead letter goes
\* out on the same connection, which is to say nowhere.
PublishFails(k) ==
    /\ k \in batch /\ link = "broken" /\ sent = {}
    /\ tried' = [tried EXCEPT ![k] = @ + 1]
    /\ row' = IF tried'[k] > MaxRetries THEN [row EXCEPT ![k] = "FAILED"] ELSE row
    /\ batch' = batch \ {k}
    /\ UNCHANGED <<sent, link, queue, consumer, faults, vanished>>

\* The broker closes the connection, as it does with one that sends no heartbeat.
LinkBreaks ==
    /\ link = "open"
    /\ link' = "broken"
    /\ UNCHANGED <<row, tried, batch, sent, queue, consumer, faults, vanished>>

\* The relay dies, or its database fails: the loop is left and begun again.
RelayDies ==
    /\ faults < MaxFaults /\ link # "closed"
    /\ faults' = faults + 1
    /\ link' = "closed" /\ batch' = {} /\ sent' = {}
    /\ UNCHANGED <<row, tried, queue, consumer, vanished>>
Connect ==
    /\ link = "closed"
    /\ link' = "open"
    /\ UNCHANGED <<row, tried, batch, sent, queue, consumer, faults, vanished>>

------------------------------------------------------------------------------
\* recommender-ai-service

Receive(k) ==
    /\ counting = Nobody /\ queue[k] > 0
    /\ counting' = [key |-> k, step |-> "store"]
    /\ UNCHANGED <<row, tried, relay, queue, stores, dropped, faults, vanished>>

Go(step) == counting' = [counting EXCEPT !.step = step]

StoreEvent ==
    /\ counting.step = "store"
    /\ stored' = [stored EXCEPT ![counting.key] = @ + 1]
    /\ Go("push")
    /\ UNCHANGED <<row, tried, relay, queue, sequence, dropped, faults, vanished>>
PushSequence ==
    /\ counting.step = "push"
    /\ sequence' = [sequence EXCEPT ![counting.key] = @ + 1]
    /\ Go("ack")
    /\ UNCHANGED <<row, tried, relay, queue, stored, dropped, faults, vanished>>

Settle ==
    /\ queue' = [queue EXCEPT ![counting.key] = @ - 1]
    /\ counting' = Nobody
Ack ==
    /\ counting.step = "ack"
    /\ Settle
    /\ UNCHANGED <<row, tried, relay, stores, dropped, faults, vanished>>

\* A store raises, of those after the sequence too; nack without requeue.
Drop ==
    /\ counting # Nobody
    /\ Settle
    /\ dropped' = dropped \union {counting.key}
    /\ UNCHANGED <<row, tried, relay, stores, faults, vanished>>
ConsumerDies ==
    /\ faults < MaxFaults /\ counting # Nobody
    /\ faults' = faults + 1
    /\ counting' = Nobody
    /\ UNCHANGED <<row, tried, relay, queue, stores, dropped, vanished>>

------------------------------------------------------------------------------

Relay ==
    \/ Connect \/ Poll
    \/ \E k \in Keys : PublishRow(k) \/ PublishLost(k) \/ SaveRow(k) \/ PublishFails(k)
Count == StoreEvent \/ PushSequence \/ Ack \/ Drop

Next ==
    \/ \E k \in Keys : Record(k) \/ Receive(k)
    \/ Relay \/ LinkBreaks \/ RelayDies
    \/ Count \/ ConsumerDies

\* Relay and consumer run for ever, and die a bounded number of times; a queue
\* hands out its messages in order, so none waits for ever.
Fairness ==
    /\ WF_vars(Relay) /\ WF_vars(Count)
    /\ \A k \in Keys : SF_vars(Receive(k))

Spec == Init /\ [][Next]_vars /\ Fairness

------------------------------------------------------------------------------

\* An interaction that was recorded is counted, whatever dies in between, unless the
\* relay gave it up, or saved it as published although its message never left the
\* buffer of a connection that broke, or a store raised.
EachCounted ==
    \A k \in Keys :
        row[k] = "PENDING" ~>
            \/ sequence[k] > 0 \/ k \in dropped
            \/ row[k] = "FAILED" \/ (row[k] = "PUBLISHED" /\ k \in vanished)

\* "Outbox + RabbitMQ: an event is not lost when a publish fails" (CHUONG2:606): it
\* is published in the end.  It does not hold: publishing on the connection that broke
\* is tried until the row is FAILED, although the broker could be reached again.
PublishedInTheEnd == \A k \in Keys : row[k] = "PENDING" ~> row[k] = "PUBLISHED"

\* Every further count, or message that will be one, needs a death: nothing is
\* counted twice because it was recorded or read twice.
CountedOnce ==
    \A k \in Keys : sequence[k] <= stored[k] /\ stored[k] <= 1 + faults

\* A row that the relay has published or given up is not written or published again,
\* although the relay works on rows that it has read long before.
Over(k) == row[k] \in {"PUBLISHED", "FAILED"}
OverStay == [][\A k \in Keys : Over(k) => row'[k] = row[k] /\ queue'[k] <= queue[k]]_vars

\* Support for the proofs.  A row the relay has before it is pending, and not the
\* one that it has just published.
RelayFollows ==
    /\ \A k \in batch \union sent : row[k] = "PENDING"
    /\ batch \intersect sent = {} /\ \A j, k \in sent : j = k
    /\ \A k \in Keys : row[k] \in {"none", "PENDING"} => tried[k] <= MaxRetries

\* The consumer holds one of the messages that wait.
Held(k) == counting # Nobody /\ counting.key = k
CountingFollows ==
    \A k \in Keys :
        /\ Held(k) => queue[k] > 0
        /\ Held(k) /\ counting.step = "push" => sequence[k] < stored[k]

\* What may still add to the count of an interaction: its row, if the relay will
\* publish it, and the messages that are not yet counted.
ToPublish(k) == IF row[k] \in {"none", "PENDING"} /\ k \notin sent THEN 1 ELSE 0
Uncounted(k) ==
    IF Held(k) /\ counting.step \in {"push", "ack"} THEN queue[k] - 1 ELSE queue[k]
CountsBounded == \A k \in Keys : stored[k] + Uncounted(k) + ToPublish(k) <= 1 + faults

\* The inductive invariant behind the theorem of EventsProofs.
IInv ==
    /\ TypeOK
    /\ RelayFollows
    /\ CountingFollows
    /\ CountsBounded
    /\ CountedOnce
=============================================================================
