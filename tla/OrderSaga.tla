------------------------------ MODULE OrderSaga ------------------------------
(***************************************************************************)
(* order-service: the checkout saga of an order (OrderSagaManager), driven *)
(* by the events the saga consumer receives from inventory-service and     *)
(* payment-service, and by the saga timeout worker.                        *)
(*                                                                         *)
(* A handler is one transaction that locks the order row first.  The       *)
(* timeout worker locks the saga row first and the order row after, so     *)
(* when it overlaps a handler that writes, the two deadlock and PostgreSQL *)
(* aborts one of them: either the timeout is retried 15 s later, or the    *)
(* handler's message is dead-lettered (or swallowed) and lost.  Both are   *)
(* among the behaviours of atomic steps with messages that may never be    *)
(* delivered.                                                              *)
(*                                                                         *)
(* Messages are a set that only grows: relays publish before they commit   *)
(* and an unacknowledged message is redelivered, so an event may arrive    *)
(* late, out of order, more than once or (dead-lettered) never.            *)
(*                                                                         *)
(* The statuses STOCK_RESERVED, PAYMENT_FAILED and CANCELLING are written  *)
(* and overwritten within one transaction: other sessions see them only in *)
(* the history table.                                                      *)
(***************************************************************************)
EXTENDS Naturals

CONSTANTS
    Orders,       \* order ids
    SkipConfirm   \* values the SKIP_INVENTORY_CONFIRM environment flag takes

ASSUME SagaAssumption == SkipConfirm \subseteq BOOLEAN

VARIABLES
    status,     \* Order.status, "NONE" before checkout
    saga,       \* OrderSaga.status, "NONE" before checkout
    step,       \* OrderSaga.current_step
    deadline,   \* OrderSaga.timeout_at is set
    history,    \* statuses with an OrderStatusHistory row
    requested,  \* what the order's OutboxEvent rows ask of inventory-service
    intents,    \* external: orders with a PaymentIntent in payment-service
    sent        \* external: events published about orders

order == <<status, saga, step, deadline, history, requested>>
vars == <<order, intents, sent>>

Statuses == {"NONE", "RESERVING_STOCK", "PAYMENT_PROCESSING",
             "WAITING_INVENTORY_CONFIRM", "COMPLETED", "CANCELLED"}
SagaStatuses == {"NONE", "PENDING", "SUCCESS", "FAILED"}
Steps == {"NONE", "INVENTORY_RESERVE", "PAYMENT_CREATE", "INVENTORY_CONFIRM"}
Recorded == (Statuses \ {"NONE"}) \union {"STOCK_RESERVED", "CANCELLING"}
Requests == {"checkout", "confirm", "release"}
Events == {"reserved", "reservation_failed", "confirmed",
           "payment.succeeded", "payment.failed"}

TypeOK ==
    /\ status \in [Orders -> Statuses]
    /\ saga \in [Orders -> SagaStatuses]
    /\ step \in [Orders -> Steps]
    /\ deadline \in [Orders -> BOOLEAN]
    /\ history \in [Orders -> SUBSET Recorded]
    /\ requested \in [Orders -> SUBSET Requests]
    /\ intents \subseteq Orders
    /\ sent \subseteq Orders \X Events

Init ==
    /\ status = [o \in Orders |-> "NONE"]
    /\ saga = [o \in Orders |-> "NONE"]
    /\ step = [o \in Orders |-> "NONE"]
    /\ deadline = [o \in Orders |-> FALSE]
    /\ history = [o \in Orders |-> {}]
    /\ requested = [o \in Orders |-> {}]
    /\ intents = {}
    /\ sent = {}

------------------------------------------------------------------------------

Received(o, e) == <<o, e>> \in sent
Record(o, statuses) == history' = [history EXCEPT ![o] = @ \union statuses]
Request(o, r) == requested' = [requested EXCEPT ![o] = @ \union {r}]

\* Mutant: only one of the two rows is written.
CancelOrderOnly(o) ==
    /\ status' = [status EXCEPT ![o] = "CANCELLED"]
    /\ UNCHANGED saga

\* trigger_cancel, with the saga row its callers write.
TriggerCancel(o) ==
    /\ status' = [status EXCEPT ![o] = "CANCELLED"]
    /\ saga' = [saga EXCEPT ![o] = "FAILED"]

\* trigger_rollback: a CANCELLING row, the release request, then the cancel.
\* Its caller may have recorded statuses of its own.
TriggerRollback(o, recorded) ==
    /\ TriggerCancel(o)
    /\ Record(o, recorded \union {"CANCELLING", "CANCELLED"})
    /\ Request(o, "release")

StartCheckout(o) ==
    /\ status[o] = "NONE"
    /\ status' = [status EXCEPT ![o] = "RESERVING_STOCK"]
    /\ saga' = [saga EXCEPT ![o] = "PENDING"]
    /\ step' = [step EXCEPT ![o] = "INVENTORY_RESERVE"]
    /\ Record(o, {"RESERVING_STOCK"})
    /\ Request(o, "checkout")
    /\ UNCHANGED <<deadline, intents, sent>>

\* Mutant: no deadline.
AwaitPaymentForever(o) ==
    /\ step' = [step EXCEPT ![o] = "PAYMENT_CREATE"]
    /\ UNCHANGED deadline

\* The saga row handle_inventory_reserved saves before it calls payment-service.
AwaitPayment(o) ==
    /\ step' = [step EXCEPT ![o] = "PAYMENT_CREATE"]
    /\ deadline' = [deadline EXCEPT ![o] = TRUE]

\* Mutant: the stock is confirmed before it is paid.
ConfirmedBeforePaid(o) ==
    /\ Received(o, "reserved")
    /\ status[o] = "RESERVING_STOCK"
    /\ o \notin intents
    /\ intents' = intents \union {o}
    /\ AwaitPayment(o)
    /\ status' = [status EXCEPT ![o] = "PAYMENT_PROCESSING"]
    /\ Record(o, {"STOCK_RESERVED", "PAYMENT_PROCESSING"})
    /\ Request(o, "confirm")
    /\ UNCHANGED <<saga, sent>>

\* handle_inventory_reserved when the payment call answers.  Only an order
\* without an intent can get one: PaymentIntent.order_id is unique and the
\* client sends no idempotency key.
ReservedAndPayable(o) ==
    /\ Received(o, "reserved")
    /\ status[o] = "RESERVING_STOCK"
    /\ o \notin intents
    /\ intents' = intents \union {o}
    /\ AwaitPayment(o)
    /\ status' = [status EXCEPT ![o] = "PAYMENT_PROCESSING"]
    /\ Record(o, {"STOCK_RESERVED", "PAYMENT_PROCESSING"})
    /\ UNCHANGED <<saga, requested, sent>>

\* Mutant: the order is cancelled without giving its stock back.
PaymentFailsUncompensated(o) ==
    /\ Received(o, "reserved")
    /\ status[o] = "RESERVING_STOCK"
    /\ intents' \in {intents, intents \union {o}}
    /\ AwaitPayment(o)
    /\ TriggerCancel(o)
    /\ Record(o, {"STOCK_RESERVED", "CANCELLED"})
    /\ UNCHANGED <<requested, sent>>

\* The payment call raises: refused (a second intent always is), or answered
\* too late, when the intent exists all the same.
ReservedButPaymentFails(o) ==
    /\ Received(o, "reserved")
    /\ status[o] = "RESERVING_STOCK"
    /\ intents' \in {intents, intents \union {o}}
    /\ AwaitPayment(o)
    /\ TriggerRollback(o, {"STOCK_RESERVED"})
    /\ UNCHANGED sent

\* The handler dies between the payment call and its commit: its writes are
\* gone, the intent is not, and the unacknowledged event will come again.
CrashAfterPaymentCall(o) ==
    /\ Received(o, "reserved")
    /\ status[o] = "RESERVING_STOCK"
    /\ intents' = intents \union {o}
    /\ UNCHANGED <<order, sent>>

HandleInventoryReserved(o) ==
    ReservedAndPayable(o) \/ ReservedButPaymentFails(o) \/ CrashAfterPaymentCall(o)

\* No look at the status the order is in.
HandleInventoryReservationFailed(o) ==
    /\ Received(o, "reservation_failed")
    /\ TriggerCancel(o)
    /\ Record(o, {"CANCELLED"})
    /\ UNCHANGED <<step, deadline, requested, intents, sent>>

\* handle_payment_succeeded; the flag is read anew by every call.
PaidUnconfirmed(o) ==
    /\ Received(o, "payment.succeeded")
    /\ status[o] = "PAYMENT_PROCESSING"
    /\ TRUE \in SkipConfirm
    /\ status' = [status EXCEPT ![o] = "COMPLETED"]
    /\ saga' = [saga EXCEPT ![o] = "SUCCESS"]
    /\ Record(o, {"COMPLETED"})
    /\ UNCHANGED <<step, requested, deadline, intents, sent>>

PaidAndToConfirm(o) ==
    /\ Received(o, "payment.succeeded")
    /\ status[o] = "PAYMENT_PROCESSING"
    /\ FALSE \in SkipConfirm
    /\ status' = [status EXCEPT ![o] = "WAITING_INVENTORY_CONFIRM"]
    /\ step' = [step EXCEPT ![o] = "INVENTORY_CONFIRM"]
    /\ Record(o, {"WAITING_INVENTORY_CONFIRM"})
    /\ Request(o, "confirm")
    /\ UNCHANGED <<saga, deadline, intents, sent>>

HandlePaymentSucceeded(o) == PaidUnconfirmed(o) \/ PaidAndToConfirm(o)

\* No look at the status the order is in: a late failure cancels any order.
HandlePaymentFailed(o) ==
    /\ Received(o, "payment.failed")
    /\ TriggerRollback(o, {})
    /\ UNCHANGED <<step, deadline, intents, sent>>

\* Mutants: no look at the status; a look at the saga's step instead.
ConfirmedInAnyStatus(o) ==
    /\ Received(o, "confirmed")
    /\ status' = [status EXCEPT ![o] = "COMPLETED"]
    /\ saga' = [saga EXCEPT ![o] = "SUCCESS"]
    /\ Record(o, {"COMPLETED"})
    /\ UNCHANGED <<step, deadline, requested, intents, sent>>
ConfirmedByStep(o) ==
    /\ Received(o, "confirmed")
    /\ step[o] = "INVENTORY_CONFIRM"
    /\ status' = [status EXCEPT ![o] = "COMPLETED"]
    /\ saga' = [saga EXCEPT ![o] = "SUCCESS"]
    /\ Record(o, {"COMPLETED"})
    /\ UNCHANGED <<step, deadline, requested, intents, sent>>

HandleInventoryConfirmed(o) ==
    /\ Received(o, "confirmed")
    /\ status[o] = "WAITING_INVENTORY_CONFIRM"
    /\ status' = [status EXCEPT ![o] = "COMPLETED"]
    /\ saga' = [saga EXCEPT ![o] = "SUCCESS"]
    /\ Record(o, {"COMPLETED"})
    /\ UNCHANGED <<step, deadline, requested, intents, sent>>

\* Mutants: the worker takes finished sagas too, for the deadline is never
\* cleared; takes sagas without a deadline; takes only those awaiting payment.
TimeoutFinished(o) ==
    /\ deadline[o]
    /\ TriggerRollback(o, {})
    /\ UNCHANGED <<step, deadline, intents, sent>>
TimeoutAnyPending(o) ==
    /\ saga[o] = "PENDING"
    /\ TriggerRollback(o, {})
    /\ UNCHANGED <<step, deadline, intents, sent>>
TimeoutPaymentOnly(o) ==
    /\ saga[o] = "PENDING"
    /\ deadline[o]
    /\ step[o] = "PAYMENT_CREATE"
    /\ TriggerRollback(o, {})
    /\ UNCHANGED <<step, deadline, intents, sent>>

\* saga_timeout_worker on one saga.  Any timeout_at that is set may be past.
Timeout(o) ==
    /\ saga[o] = "PENDING"
    /\ deadline[o]
    /\ TriggerRollback(o, {})
    /\ UNCHANGED <<step, deadline, intents, sent>>

SagaStep(o) ==
    \/ StartCheckout(o)
    \/ HandleInventoryReserved(o)
    \/ HandleInventoryReservationFailed(o)
    \/ HandlePaymentSucceeded(o)
    \/ HandlePaymentFailed(o)
    \/ HandleInventoryConfirmed(o)
    \/ Timeout(o)

\* What the other services may publish: one answer to a checkout, a
\* confirmation of what was reserved, any outcome of an intent that exists.
Publish(o, e) ==
    /\ \/ e \in {"reserved", "reservation_failed"} /\ "checkout" \in requested[o]
          /\ ~ Received(o, "reserved") /\ ~ Received(o, "reservation_failed")
       \/ e = "confirmed" /\ Received(o, "reserved")
       \/ e \in {"payment.succeeded", "payment.failed"} /\ o \in intents
    /\ sent' = sent \union {<<o, e>>}
    /\ UNCHANGED <<order, intents>>

Next == \E o \in Orders : SagaStep(o) \/ \E e \in Events : Publish(o, e)

Spec == Init /\ [][Next]_vars

\* The worker polls for ever, so a saga past its timeout is not left alone.
Fairness == \A o \in Orders : WF_vars(Timeout(o))

FairSpec == Spec /\ Fairness

------------------------------------------------------------------------------

Ended == {"COMPLETED", "CANCELLED"}

\* The order row and the saga row, written by seven code paths, always agree
\* on whether the checkout is running, has succeeded or has failed.
SagaMatchesOrder ==
    \A o \in Orders :
        /\ saga[o] = "NONE" <=> status[o] = "NONE"
        /\ saga[o] = "SUCCESS" <=> status[o] = "COMPLETED"
        /\ saga[o] = "FAILED" <=> status[o] = "CANCELLED"

\* However an order whose stock was reserved comes to be cancelled, a release
\* of that stock is in the outbox.
CancelReleasesStock ==
    \A o \in Orders :
        status[o] = "CANCELLED" /\ Received(o, "reserved") => "release" \in requested[o]

\* No sequence of late and repeated events completes an order that was not
\* paid, or that was to wait for its confirmation and was not confirmed.
CompletedIsSettled ==
    \A o \in Orders :
        status[o] = "COMPLETED" =>
            /\ Received(o, "payment.succeeded")
            /\ \/ TRUE \in SkipConfirm /\ "WAITING_INVENTORY_CONFIRM" \notin history[o]
               \/ "confirm" \in requested[o] /\ Received(o, "confirmed")

\* The deadline is armed from the moment money is involved until the end; a saga
\* without one is still waiting for its stock.
DeadlineCoversPayment ==
    \A o \in Orders :
        /\ status[o] \in {"NONE", "RESERVING_STOCK"} => ~ deadline[o]
        /\ status[o] \in {"PAYMENT_PROCESSING", "WAITING_INVENTORY_CONFIRM"} => deadline[o]

\* The history a customer reads has a row for the status shown, and none for a
\* status without the ones that lead to it.
HistoryIsComplete ==
    \A o \in Orders :
        /\ status[o] # "NONE" => status[o] \in history[o]
        /\ "PAYMENT_PROCESSING" \in history[o] => "STOCK_RESERVED" \in history[o]
        /\ history[o] \intersect {"WAITING_INVENTORY_CONFIRM", "COMPLETED"} # {}
              => "PAYMENT_PROCESSING" \in history[o]
        /\ status[o] \in {"NONE", "RESERVING_STOCK", "PAYMENT_PROCESSING"}
              => "WAITING_INVENTORY_CONFIRM" \notin history[o]
        /\ "CANCELLING" \in history[o] <=> "release" \in requested[o]

\* Nothing revives a cancelled order: not a redelivered reservation, not a
\* payment that arrives after the timeout.
CancelledIsFinal ==
    [][\A o \in Orders : status[o] = "CANCELLED" => status'[o] = "CANCELLED"]_vars

\* A completed order is undone by a late payment failure and by nothing else,
\* neither the timeout nor a stray inventory event.
OnlyPaymentFailureUndoes ==
    [][\A o \in Orders :
          status[o] = "COMPLETED" /\ status'[o] # "COMPLETED"
             => status'[o] = "CANCELLED" /\ Received(o, "payment.failed")]_vars

\* Once a payment is awaited the order reaches an end, whatever gets lost.
PaymentResolves ==
    \A o \in Orders :
        status[o] \in {"PAYMENT_PROCESSING", "WAITING_INVENTORY_CONFIRM"}
            ~> status[o] \in Ended

\* Support for the proofs: how the events and requests an order can have seen
\* follow from each other.
EventsFollow ==
    \A o \in Orders :
        /\ Received(o, "reserved") \/ Received(o, "reservation_failed")
              => "checkout" \in requested[o]
        /\ ~ (Received(o, "reserved") /\ Received(o, "reservation_failed"))
        /\ o \in intents => Received(o, "reserved")
        /\ Received(o, "payment.succeeded") \/ Received(o, "payment.failed")
              => o \in intents
        /\ Received(o, "confirmed") => Received(o, "reserved")
        /\ "checkout" \in requested[o] <=> status[o] # "NONE"
        /\ status[o] \in {"PAYMENT_PROCESSING", "WAITING_INVENTORY_CONFIRM", "COMPLETED"}
              => o \in intents
        /\ status[o] = "CANCELLED"
              => Received(o, "reserved") \/ Received(o, "reservation_failed")
        /\ status[o] = "WAITING_INVENTORY_CONFIRM"
              => "confirm" \in requested[o] /\ Received(o, "payment.succeeded")

\* The inductive invariant behind the theorems about it in OrdersProofs.
IInv ==
    /\ TypeOK
    /\ EventsFollow
    /\ SagaMatchesOrder
    /\ CancelReleasesStock
    /\ CompletedIsSettled
    /\ DeadlineCoversPayment
    /\ HistoryIsComplete
==============================================================================
