------------------------------ MODULE Shipping ------------------------------
(***************************************************************************)
(* The shipment of a paid order: shipping-service with its consumer of     *)
(* payment events, and of payment-service the shipping status of a payment *)
(* and the worker that retries shipments that failed.  The payment and the *)
(* order's way to its delivery are the environment.                        *)
(*                                                                         *)
(* The consumer looks for a shipment and inserts one in two steps.  Those  *)
(* that come by HTTP may meet the same race, but InternalClient repeats    *)
(* them, so they are one step, which may fail.  A call may be lost, or     *)
(* executed after its caller gave up on it.                                *)
(*                                                                         *)
(* POST shipping/create/ takes no step: no page calls it and no proxy      *)
(* routes it.                                                              *)
(***************************************************************************)
EXTENDS Naturals, FiniteSets

CONSTANTS
    Orders,
    RetryLimit,     \* retry_failed_shipping gives a payment up at this count
    MaxDuplicates   \* bound: messages of an order in the queue at a time

VARIABLES
    due,        \* orders whose payment.succeeded is in the payment's outbox
    events,      \* its messages in shipping_payment_consumer
    handling,    \* the consumer's message and how far it is with it
    running,     \* the consumer's process is there
    unheard,     \* orders of which a notification to payment-service was lost
    shipStatus,  \* Payment.shipping_status
    retries,     \* Payment.shipping_retry_count
    selected,    \* rows of this round of retry_failed_shipping to come
    shipment,    \* Shipping.status, "none" before the row
    stage,       \* LegacyOrder.status, as far as it is told to shipping-service
    calls        \* calls on their way whose caller may not wait for them: what
                 \* shipping-service or payment-service is told of an order

queue == <<due, events, handling, running, unheard>>
worker == <<shipStatus, retries, selected>>
told == <<stage, calls>>
vars == <<queue, worker, shipment, told>>

States == {"pending", "processing", "shipped", "failed"}
Steps == {"context", "insert", "notify", "fail"}
Idle == [step |-> "idle"]
StatusCalls == {"in_transit", "delivered"}   \* internal/shipping/status
Notices == {"processing", "failed"}          \* payments/internal/shipping-status

TypeOK ==
    /\ due \subseteq Orders /\ unheard \subseteq Orders
    /\ events \in [Orders -> Nat]
    /\ handling \in {Idle} \union [step : Steps, order : Orders]
    /\ running \in BOOLEAN
    /\ shipStatus \in [Orders -> {"pending", "processing", "failed"}]
    /\ retries \in [Orders -> 0..RetryLimit]
    /\ selected \subseteq Orders
    /\ shipment \in [Orders -> States \union {"none"}]
    /\ stage \in [Orders -> {"before", "SHIPPING", "DELIVERED"}]
    /\ calls \subseteq Orders \X (StatusCalls \union Notices)

Init ==
    /\ due = {} /\ unheard = {}
    /\ events = [o \in Orders |-> 0]
    /\ handling = Idle /\ running = TRUE
    /\ shipStatus = [o \in Orders |-> "pending"]
    /\ retries = [o \in Orders |-> 0]
    /\ selected = {}
    /\ shipment = [o \in Orders |-> "none"]
    /\ stage = [o \in Orders |-> "before"]
    /\ calls = {}

------------------------------------------------------------------------------
\* The environment

\* A payment completes, and its event is published, once or, after a crash of
\* the relay, again (OutboxRelay).
Publish(o) ==
    /\ events[o] < MaxDuplicates
    /\ events' = [events EXCEPT ![o] = @ + 1]
    /\ due' = due \union {o}
    /\ UNCHANGED <<handling, running, unheard, worker, shipment, told>>

\* Staff ship and deliver; update_status lets a status be written again, and
\* calls shipping-service each time.
Ship(o) ==
    /\ stage[o] \in {"before", "SHIPPING"}
    /\ stage' = [stage EXCEPT ![o] = "SHIPPING"]
    /\ calls' = calls \union {<<o, "in_transit">>}
    /\ UNCHANGED <<queue, worker, shipment>>
Deliver(o) ==
    /\ stage[o] \in {"SHIPPING", "DELIVERED"}
    /\ stage' = [stage EXCEPT ![o] = "DELIVERED"]
    /\ calls' = calls \union {<<o, "delivered">>}
    /\ UNCHANGED <<queue, worker, shipment>>

------------------------------------------------------------------------------
\* shipping-service

\* create_shipping leaves a shipment alone that is there.
Created(o) == IF shipment[o] = "none" THEN "pending" ELSE shipment[o]

At(steps) == handling.step \in steps
Go(step) == handling' = [handling EXCEPT !.step = step]

Receive(o) ==
    /\ running /\ handling = Idle /\ events[o] > 0
    /\ handling' = [step |-> "context", order |-> o]
    /\ UNCHANGED <<due, events, running, unheard, worker, shipment, told>>

\* The order's shipping context is fetched, and the shipment looked for.
FetchContext ==
    /\ At({"context"})
    /\ \/ Go(IF shipment[handling.order] = "none" THEN "insert" ELSE "notify")
       \/ Go("fail")
    /\ UNCHANGED <<due, events, running, unheard, worker, shipment, told>>

\* Mutant: payment-service is told before the shipment is there.
NotifyFirst ==
    /\ At({"insert"})
    /\ Go("notify")
    /\ UNCHANGED <<due, events, running, unheard, worker, shipment, told>>

\* If somebody else was faster, the IntegrityError spoils the transaction, the
\* query in its handler raises, and the shipment counts as failed.
Insert ==
    /\ At({"insert"})
    /\ shipment' = [shipment EXCEPT ![handling.order] = Created(handling.order)]
    /\ Go(IF shipment[handling.order] = "none" THEN "notify" ELSE "fail")
    /\ UNCHANGED <<due, events, running, unheard, worker, told>>

\* Mutant: a failure is dead-lettered without a word to payment-service.
FailSilently ==
    /\ At({"notify", "fail"})
    /\ IF At({"notify"})
       THEN shipStatus' = [shipStatus EXCEPT ![handling.order] = "processing"]
       ELSE UNCHANGED shipStatus
    /\ events' = [events EXCEPT ![handling.order] = @ - 1]
    /\ handling' = Idle
    /\ UNCHANGED <<due, running, unheard, retries, selected, shipment, told>>

Notice == IF At({"notify"}) THEN "processing" ELSE "failed"

\* payment-service is told, or does not answer, and may hear of it late; then ack,
\* or nack to the dead letters.
Notify ==
    /\ At({"notify", "fail"})
    /\ \/ /\ shipStatus' = [shipStatus EXCEPT ![handling.order] = Notice]
          /\ UNCHANGED <<unheard, calls>>
       \/ /\ unheard' = unheard \union {handling.order}
          /\ calls' = calls \union {<<handling.order, Notice>>}
          /\ UNCHANGED shipStatus
    /\ events' = [events EXCEPT ![handling.order] = @ - 1]
    /\ handling' = Idle
    /\ UNCHANGED <<due, running, retries, selected, shipment, stage>>

\* The process ends, with its connection to the broker or by itself, and its
\* message waits again.  Nothing starts its container again but a hand.
ConsumerCrash ==
    /\ running
    /\ running' = FALSE /\ handling' = Idle
    /\ UNCHANGED <<due, events, unheard, worker, shipment, told>>
StartConsumer ==
    /\ ~running
    /\ running' = TRUE
    /\ UNCHANGED <<due, events, handling, unheard, worker, shipment, told>>

\* A status call: a shipment that is missing is created, and its state becomes
\* the one that is told, allowed or not.
SyncFromOrderStatus(c) ==
    /\ c[2] \in StatusCalls
    /\ shipment' = [shipment EXCEPT ![c[1]] =
                       IF c[2] = "in_transit" THEN "processing" ELSE "shipped"]
    /\ calls' = calls \ {c}
    /\ UNCHANGED <<queue, worker, stage>>
UpdatePayment(c) ==
    /\ c[2] \in Notices
    /\ shipStatus' = [shipStatus EXCEPT ![c[1]] = c[2]]
    /\ calls' = calls \ {c}
    /\ UNCHANGED <<queue, retries, selected, shipment, stage>>
LoseCall(c) ==
    /\ calls' = calls \ {c}
    /\ UNCHANGED <<queue, worker, shipment, stage>>

Transitions ==
    {<<"pending", "processing">>, <<"processing", "shipped">>,
     <<"processing", "failed">>, <<"failed", "processing">>}

\* Staff set a shipment's state.
UpdateShippingStatus(o) ==
    /\ \E to \in States :
          /\ <<shipment[o], to>> \in Transitions
          /\ shipment' = [shipment EXCEPT ![o] = to]
    /\ UNCHANGED <<queue, worker, told>>

------------------------------------------------------------------------------
\* payment-service

Retriable(o) == shipStatus[o] = "failed" /\ retries[o] < RetryLimit

\* retry_failed_shipping selects its rows, and takes them one by one.
Select ==
    /\ selected = {} /\ \E o \in Orders : Retriable(o)
    /\ selected' = {o \in Orders : Retriable(o)}
    /\ UNCHANGED <<queue, shipStatus, retries, shipment, told>>

\* The retry is counted before anything is called; then the shipment comes
\* about, and the answer arrives, or not.
RetryShipping(o) ==
    /\ o \in selected
    /\ selected' = selected \ {o}
    /\ retries' = [retries EXCEPT ![o] = @ + 1]
    /\ \/ /\ shipment' = [shipment EXCEPT ![o] = Created(o)]
          /\ shipStatus' = [shipStatus EXCEPT ![o] = "processing"]
       \/ /\ shipment' = [shipment EXCEPT ![o] = Created(o)]
          /\ UNCHANGED shipStatus
       \/ UNCHANGED <<shipment, shipStatus>>
    /\ UNCHANGED <<queue, told>>

\* The worker dies in its round; the loop around it starts it again.
WorkerCrash ==
    /\ selected # {}
    /\ selected' = {}
    /\ UNCHANGED <<queue, shipStatus, retries, shipment, told>>

------------------------------------------------------------------------------

Consume == (\E o \in Orders : Receive(o)) \/ FetchContext \/ Insert \/ Notify
Retry == Select \/ \E o \in Orders : RetryShipping(o)

Next ==
    \/ \E o \in Orders : Publish(o) \/ Ship(o) \/ Deliver(o) \/ UpdateShippingStatus(o)
    \/ Consume \/ ConsumerCrash \/ StartConsumer
    \/ \E c \in calls : SyncFromOrderStatus(c) \/ UpdatePayment(c) \/ LoseCall(c)
    \/ Retry \/ WorkerCrash

\* A consumer that runs goes on, and a queue hands out its messages in order, so
\* none waits for ever; nobody need start it again.  The worker's loop does that.
Fairness ==
    /\ WF_vars(FetchContext \/ Insert \/ Notify) /\ WF_vars(Retry)
    /\ \A o \in Orders : SF_vars(Receive(o))

Spec == Init /\ [][Next]_vars /\ Fairness

------------------------------------------------------------------------------

\* payment-service shows "processing" only for a shipment that exists.
ProcessingShips ==
    \A o \in Orders : shipStatus[o] = "processing" => shipment[o] # "none"

\* A paid order is shipped, whatever is told late and however often consumer and
\* worker died before: once they stay, its shipment comes about, unless the one
\* call that tells payment-service of a failure was lost, or the worker's tries are
\* used up.  The container of the consumer has no restart policy
\* (docker-compose.yml:678-714): one that stays down ships nothing.
PaidShips ==
    <>[]running /\ <>[][~WorkerCrash]_vars =>
        \A o \in Orders :
            o \in due ~> \/ shipment[o] # "none"
                         \/ o \in unheard
                         \/ retries[o] = RetryLimit

\* Support for the proofs.  The consumer holds one of the messages of its order,
\* and goes on to tell payment-service of a shipment that is there.
HandlingFollows ==
    handling # Idle =>
        /\ running /\ events[handling.order] > 0
        /\ handling.step = "notify" => shipment[handling.order] # "none"

\* What is still on its way says no more than what is.
NoticesFollow ==
    \A o \in Orders : <<o, "processing">> \in calls => shipment[o] # "none"

\* A row that was selected was not given up.
SelectedRetriable == \A o \in selected : retries[o] < RetryLimit

\* The inductive invariant behind the theorem of OrdersProofs.
IInv ==
    /\ TypeOK
    /\ HandlingFollows
    /\ NoticesFollow
    /\ SelectedRetriable
    /\ ProcessingShips
=============================================================================
