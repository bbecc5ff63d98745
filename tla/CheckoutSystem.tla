--------------------------- MODULE CheckoutSystem ---------------------------
(***************************************************************************)
(* The checkout of the UUID order flow: order-service (OrderSaga) and      *)
(* inventory-service (Inventory) joined by their outboxes, exchanges and   *)
(* consumers.                                                              *)
(*                                                                         *)
(*   order outbox   --order_events-->     inventory order consumer         *)
(*   inventory outbox --inventory_events--> saga consumer                  *)
(*   payment-service --payment_events-->  saga consumer                    *)
(*                                                                         *)
(* A row of an outbox may be delivered any number of times, in any order.  *)
(* The inventory consumer rejects a message whose handling raises, without *)
(* requeueing it: it goes to inventory.dlq, which nobody reads.            *)
(* payment-service is the environment here: an intent may fail, succeed,   *)
(* or both (a second attempt of the customer), at any time.                *)
(***************************************************************************)
EXTENDS Integers, FiniteSets

CONSTANTS
    Variants, Orders, MaxQty, Lots, Corrections, StockBound, MaxInFlight,
    SkipConfirm

ASSUME CheckoutAssumption ==
    /\ IsFiniteSet(Orders)
    /\ MaxQty \in Nat
    /\ Lots \subseteq Nat \ {0}
    /\ Corrections \subseteq Int
    /\ StockBound \in Nat
    /\ MaxInFlight \in Nat

VARIABLES
    known, total, available, reserved, received,            \* Inventory
    batch, qty, line, processed, inflight, emitted,
    status, saga, step, deadline, history, requested,       \* OrderSaga
    intents,
    ordered,   \* the items of an order: what its checkout message asks for
    charges,   \* external: payment outcomes published about orders
    dead       \* messages to inventory-service in inventory.dlq

inventory == <<known, total, available, reserved, received,
               batch, qty, line, processed, inflight, emitted>>
orders == <<status, saga, step, deadline, history, requested, intents>>
vars == <<inventory, orders, ordered, charges, dead>>

\* No HTTP caller chooses keys here: all calls come through the consumer.
Inv == INSTANCE Inventory WITH ClientKeys <- {}

Outcomes == {"payment.succeeded", "payment.failed"}

\* The events the saga consumer can be handed: those whose outbox rows exist.
Published ==
    {<<o, "reserved">> : o \in {p \in Orders : emitted[p]["reserved"] > 0}}
    \union {<<o, "confirmed">> : o \in {p \in Orders : emitted[p]["confirmed"] > 0}}
    \union charges

Saga == INSTANCE OrderSaga WITH sent <- Published

Messages == Orders \X {"checkout", "confirm", "release"}

TypeOK ==
    /\ Inv!TypeOK
    /\ Saga!TypeOK
    /\ ordered \in [Orders -> Inv!Requests]
    /\ charges \subseteq Orders \X Outcomes
    /\ dead \subseteq Messages

Init ==
    /\ Inv!Init
    /\ charges = {}
    /\ Saga!Init
    /\ ordered = [o \in Orders |-> [v \in Variants |-> 0]]
    /\ dead = {}

------------------------------------------------------------------------------

\* A checkout of a cart with at least one item.
Checkout(o) ==
    /\ UNCHANGED <<inventory, charges, dead>>
    /\ \E r \in Inv!Requests :
          /\ \E v \in Variants : r[v] > 0
          /\ ordered' = [ordered EXCEPT ![o] = r]
    /\ Saga!StartCheckout(o)

\* The saga consumer or the timeout worker acts on an order.
SagaActs(o) ==
    /\ UNCHANGED <<inventory, ordered, charges, dead>>
    /\ \/ Saga!HandleInventoryReserved(o)
       \/ Saga!HandlePaymentSucceeded(o)
       \/ Saga!HandlePaymentFailed(o)
       \/ Saga!HandleInventoryConfirmed(o)
       \/ Saga!Timeout(o)

\* The customer of an intent that exists pays, or fails to.
PaymentOutcome(o) ==
    /\ o \in intents
    /\ \E e \in Outcomes : charges' = charges \union {<<o, e>>}
    /\ UNCHANGED <<inventory, orders, ordered, dead>>

\* A message of the order's outbox that the consumer may still be handed.
Deliverable(o, m) == m \in requested[o] /\ <<o, m>> \notin dead

ReserveMessage(o) ==
    /\ Deliverable(o, "checkout")
    /\ Inv!Reserve(o, ordered[o], Inv!ReserveKey(o))
    /\ UNCHANGED <<orders, ordered, charges, dead>>

\* reserve_stock raises: nothing of it is kept, and no event tells the saga.
RejectCheckout(o) ==
    /\ Deliverable(o, "checkout")
    /\ batch[o] = "NONE"
    /\ ~ Inv!InStock(ordered[o])
    /\ dead' = dead \union {<<o, "checkout">>}
    /\ UNCHANGED <<inventory, orders, ordered, charges>>

ConfirmMessage(o) ==
    /\ Deliverable(o, "confirm")
    /\ Inv!BeginSettle(o, "CONFIRMED", Inv!ConfirmKey(o))
    /\ UNCHANGED <<orders, ordered, charges, dead>>

ReleaseMessage(o) ==
    /\ Deliverable(o, "release")
    /\ Inv!BeginSettle(o, "PAYMENT_FAILED", Inv!ReleaseKey(o))
    /\ UNCHANGED <<orders, ordered, charges, dead>>

\* A confirm or release in flight commits; or its consumer dies and the message
\* comes again; or it raises and the message is dead-lettered.
CommitMessage(c) ==
    /\ Inv!CommitSettle(c)
    /\ UNCHANGED <<orders, ordered, charges, dead>>
AbortMessage(c) ==
    /\ Inv!Rollback(c)
    /\ dead' \in {dead, dead \union
                     {<<c.order, IF c.to = "CONFIRMED" THEN "confirm" ELSE "release">>}}
    /\ UNCHANGED <<orders, ordered, charges>>

\* The expiry worker and the warehouse.
ExpireReservation(o) ==
    /\ Inv!Expire(o)
    /\ UNCHANGED <<orders, ordered, charges, dead>>
Warehouse(v) ==
    /\ Inv!InitializeStock(v) \/ Inv!Purchase(v) \/ Inv!Adjust(v)
    /\ UNCHANGED <<orders, ordered, charges, dead>>

OrderNext(o) ==
    \/ Checkout(o)
    \/ SagaActs(o)
    \/ PaymentOutcome(o)
    \/ ReserveMessage(o)
    \/ RejectCheckout(o)
    \/ ConfirmMessage(o)
    \/ ReleaseMessage(o)
    \/ ExpireReservation(o)

Next ==
    \/ \E o \in Orders : OrderNext(o)
    \/ \E c \in inflight : CommitMessage(c) \/ AbortMessage(c)
    \/ \E v \in Variants : Warehouse(v)

Spec == Init /\ [][Next]_vars

\* A step of the saga on order o that ends or forwards it.
SagaAdvances(o) == SagaActs(o) /\ status'[o] # status[o]

\* The consumers take what is in their queues, the workers poll: a checkout is
\* handled, an event about an order is handled, and the timeout fires.
FairSpec ==
    /\ Spec
    /\ \A o \in Orders :
          /\ WF_vars(ReserveMessage(o) \/ RejectCheckout(o))
          /\ WF_vars(SagaAdvances(o))

------------------------------------------------------------------------------

\* order-service, seen alone, behaves as its own module says: what Inventory
\* publishes is what OrderSaga was checked and proved against.
SagaSpec == Saga!Spec

\* How far an order is, for those who do not know of its saga.
Course(o) ==
    CASE status[o] = "NONE" -> "none"
      [] status[o] \in Saga!Ended -> IF status[o] = "COMPLETED" THEN "completed"
                                    ELSE "cancelled"
      [] OTHER -> "running"
With(e) == {o \in Orders : <<o, e>> \in charges}

Promise == INSTANCE CheckoutPromise
    WITH order <- [o \in Orders |-> Course(o)], goods <- [o \in Orders |-> Inv!Phase(o)],
         paid <- With("payment.succeeded"), refused <- With("payment.failed")

\* The two services together keep what the checkout promises about an order: no
\* interleaving of late, repeated or lost messages, of payments, expiries and
\* timeouts holds goods for an order that has ended, completes or sells what was
\* not paid, or moves goods twice.
PromiseSpec == Promise!Spec

\* A cancelled order whose stock is still held can still give it back: the
\* release is in the outbox, and its key is not used up by an earlier delivery
\* that found nothing to do.  (A release in inventory.dlq has to be replayed.)
NoOrphanHold ==
    \A o \in Orders :
        status[o] = "CANCELLED" /\ batch[o] = "PENDING" =>
            "release" \in requested[o] /\ Inv!ReleaseKey(o) \notin processed

\* An order waiting for its confirmation while its stock is still held can
\* still be confirmed: the confirmation's key is not used up either.
NoLostConfirm ==
    \A o \in Orders :
        status[o] = "WAITING_INVENTORY_CONFIRM" /\ batch[o] = "PENDING" =>
            "confirm" \in requested[o] /\ Inv!ConfirmKey(o) \notin processed

\* Goods leave the warehouse only for orders that were paid, across two
\* services, two outboxes and every reordering of their events.
SoldMeansPaid ==
    \A o \in Orders, v \in Variants :
        line[o][v] = "CONFIRMED" => <<o, "payment.succeeded">> \in charges

\* An order whose stock was reserved reaches an end.
ReservedResolves ==
    \A o \in Orders : batch[o] # "NONE" ~> status[o] \in Saga!Ended

\* An order that could not be served is cancelled (test_rollback_on_out_of_stock,
\* order/tests.py:78-89).  It does not hold: no event reports the failure.
CheckoutResolves ==
    \A o \in Orders : status[o] = "RESERVING_STOCK" ~> status[o] \in Saga!Ended

\* A cancelled order has sold nothing: each step that succeeded is compensated
\* when a later one fails (docs/CHUONG4, P.52).  It does not hold: the timeout
\* stays armed while the confirmation is awaited, and a release that comes
\* second leaves confirmed lines sold.
CancelledSellsNothing ==
    \A o \in Orders, v \in Variants :
        status[o] = "CANCELLED" => line[o][v] # "CONFIRMED"

\* Support for the proofs.  What the rows of the two services can hold.
RowsTyped ==
    /\ batch \in [Orders -> Inv!Statuses]
    /\ line \in [Orders -> [Variants -> Inv!Statuses]]
    /\ emitted \in [Orders -> [Inv!Events -> Nat]]
    /\ status \in [Orders -> Saga!Statuses]
    /\ saga \in [Orders -> Saga!SagaStatuses]
    /\ deadline \in [Orders -> BOOLEAN]
    /\ requested \in [Orders -> SUBSET Saga!Requests]
    /\ intents \subseteq Orders
    /\ ordered \in [Orders -> Inv!Requests]

\* Whatever order-service knows or has asked about an order's stock follows a
\* batch that was announced.
BatchFirst ==
    \A o \in Orders :
        /\ emitted[o]["reserved"] > 0 <=> batch[o] # "NONE"
        /\ emitted[o]["confirmed"] > 0 => batch[o] # "NONE"
        /\ o \in intents => batch[o] # "NONE"
        /\ deadline[o] => batch[o] # "NONE"
        /\ "release" \in requested[o] => batch[o] # "NONE"
        /\ "confirm" \in requested[o] => <<o, "payment.succeeded">> \in charges
        /\ status[o] = "CANCELLED" => "release" \in requested[o]
        /\ status[o] = "WAITING_INVENTORY_CONFIRM" => "confirm" \in requested[o]
ChargesFollow == \A m \in charges : m[1] \in intents /\ m \in Orders \X Outcomes

\* A call in flight is a message that was sent, about a batch that is there.
CallsFollow ==
    \A c \in inflight :
        /\ c.order \in Orders /\ batch[c.order] # "NONE"
        /\ \/ /\ c.to = "CONFIRMED" /\ c.key = Inv!ConfirmKey(c.order)
              /\ "confirm" \in requested[c.order]
           \/ c.to = "PAYMENT_FAILED" /\ c.key = Inv!ReleaseKey(c.order)

\* A settlement's key is used up by a call that settled or found it settled.
KeysSettle ==
    \A o \in Orders :
        Inv!ConfirmKey(o) \in processed \/ Inv!ReleaseKey(o) \in processed
            => batch[o] \notin {"NONE", "PENDING"}
SoldWasAsked ==
    \A o \in Orders, v \in Variants :
        line[o][v] = "CONFIRMED" => "confirm" \in requested[o]

\* Stock is asked for by an order that is there, an order is completed when it
\* is paid, and the worker leaves completed ones alone.
OrderFollows ==
    \A o \in Orders :
        /\ batch[o] # "NONE" \/ "checkout" \in requested[o] => status[o] # "NONE"
        /\ status[o] = "COMPLETED" =>
              <<o, "payment.succeeded">> \in charges /\ saga[o] # "PENDING"

\* The inductive invariant behind the theorems of CheckoutSystemProofs.
IInv ==
    /\ RowsTyped
    /\ BatchFirst
    /\ ChargesFollow
    /\ CallsFollow
    /\ KeysSettle
    /\ SoldWasAsked
    /\ OrderFollows
==============================================================================
