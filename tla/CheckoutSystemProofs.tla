------------------------ MODULE CheckoutSystemProofs ------------------------
(***************************************************************************)
(* Proofs about CheckoutSystem, for any sets of orders and variants and    *)
(* any bounds: the invariants that join the two services, and that each    *)
(* service does, in the composition, only what its own module says.        *)
(***************************************************************************)
EXTENDS CheckoutSystem, TLAPS

\* What the saga consumer can be handed, read off the outboxes.
LEMMA Delivered ==
    ASSUME RowsTyped, ChargesFollow, NEW o \in Orders
    PROVE  /\ <<o, "reserved">> \in Published <=> emitted[o]["reserved"] > 0
           /\ <<o, "confirmed">> \in Published <=> emitted[o]["confirmed"] > 0
           /\ <<o, "payment.succeeded">> \in Published
                 <=> <<o, "payment.succeeded">> \in charges
           /\ <<o, "payment.failed">> \in Published
                 <=> <<o, "payment.failed">> \in charges
           /\ <<o, "reservation_failed">> \notin Published
<1>1. \A e : <<o, e>> \in charges => e \in {"payment.succeeded", "payment.failed"}
  BY DEF ChargesFollow, Outcomes
<1>2. \A e : <<o, e>> \in Published <=>
          \/ e = "reserved" /\ emitted[o]["reserved"] > 0
          \/ e = "confirmed" /\ emitted[o]["confirmed"] > 0
          \/ <<o, e>> \in charges
  BY DEF Published
<1>3. <<o, "reserved">> \in Published <=> emitted[o]["reserved"] > 0
  BY <1>1, <1>2
<1>4. <<o, "confirmed">> \in Published <=> emitted[o]["confirmed"] > 0
  BY <1>1, <1>2
<1>5. /\ <<o, "payment.succeeded">> \in Published <=> <<o, "payment.succeeded">> \in charges
      /\ <<o, "payment.failed">> \in Published <=> <<o, "payment.failed">> \in charges
  BY <1>2
<1>6. <<o, "reservation_failed">> \notin Published
  BY <1>1, <1>2
<1> QED
  BY <1>3, <1>4, <1>5, <1>6

\* Whoever has paid, or failed to, has a batch.
LEMMA PayersHaveBatch ==
    ASSUME BatchFirst, ChargesFollow, NEW o \in Orders
    PROVE  /\ \A e : <<o, e>> \in charges => batch[o] # "NONE"
           /\ "confirm" \in requested[o] => batch[o] # "NONE"
BY DEF BatchFirst, ChargesFollow

------------------------------------------------------------------------------

LEMMA InitInv == Init => IInv
BY CheckoutAssumption DEF Init, Inv!Init, Saga!Init, IInv, RowsTyped, BatchFirst,
                          ChargesFollow, CallsFollow, KeysSettle, SoldWasAsked,
                          OrderFollows, Inv!Statuses, Inv!Outcomes, Inv!Reasons,
                          Inv!Events, Inv!Requests, Saga!Statuses,
                          Saga!SagaStatuses, Saga!Requests

\* How the saga moves an order that has begun: to an end, for a reason.
LEMMA SagaCourse ==
    ASSUME IInv, NEW o \in Orders, SagaActs(o)
    PROVE  /\ status[o] # "NONE" /\ status'[o] # "NONE"
           /\ status'[o] = "COMPLETED" =>
                 /\ <<o, "payment.succeeded">> \in charges /\ saga'[o] # "PENDING"
                 /\ status[o] # "CANCELLED"
           /\ status'[o] = "CANCELLED" => batch[o] # "NONE"
           /\ status'[o] = "CANCELLED" /\ status[o] = "COMPLETED" =>
                 <<o, "payment.failed">> \in charges
           /\ status[o] = "CANCELLED" => status'[o] = "CANCELLED"
           /\ status[o] = "COMPLETED" => status'[o] \in {"COMPLETED", "CANCELLED"}
<1> USE DEF IInv
<1>1. \A e : <<o, e>> \in charges => batch[o] # "NONE"
  BY PayersHaveBatch
<1>2. batch[o] # "NONE" => status[o] # "NONE"
  BY DEF OrderFollows
<1>3. emitted[o]["reserved"] > 0 => batch[o] # "NONE"
  BY DEF BatchFirst
<1> USE DEF RowsTyped, Saga!Statuses, Saga!SagaStatuses, Saga!order
<1>4. CASE Saga!HandleInventoryReserved(o)
  <2>1. batch[o] # "NONE" /\ status[o] = "RESERVING_STOCK"
    BY <1>3, <1>4, Delivered DEF Saga!Received, Saga!HandleInventoryReserved,
                                 Saga!ReservedAndPayable,
                                 Saga!ReservedButPaymentFails,
                                 Saga!CrashAfterPaymentCall
  <2>2. status'[o] \in {"RESERVING_STOCK", "PAYMENT_PROCESSING", "CANCELLED"}
    BY <1>4, <2>1 DEF Saga!HandleInventoryReserved, Saga!ReservedAndPayable,
                      Saga!ReservedButPaymentFails, Saga!CrashAfterPaymentCall,
                      Saga!TriggerRollback, Saga!TriggerCancel
  <2> QED
    BY <2>1, <2>2
<1>5. CASE Saga!HandlePaymentSucceeded(o)
  <2>1. <<o, "payment.succeeded">> \in charges
    BY <1>5, Delivered DEF Saga!Received, Saga!HandlePaymentSucceeded,
                           Saga!PaidUnconfirmed, Saga!PaidAndToConfirm
  <2> QED
    BY <1>5, <2>1 DEF Saga!HandlePaymentSucceeded, Saga!PaidUnconfirmed,
                      Saga!PaidAndToConfirm
<1>6. CASE Saga!HandlePaymentFailed(o)
  <2>1. <<o, "payment.failed">> \in charges
    BY <1>6, Delivered DEF Saga!HandlePaymentFailed, Saga!Received
  <2>2. batch[o] # "NONE" /\ status[o] # "NONE"
    BY <1>1, <1>2, <2>1
  <2> QED
    BY <1>6, <2>1, <2>2 DEF Saga!HandlePaymentFailed, Saga!TriggerRollback,
                            Saga!TriggerCancel
<1>7. CASE Saga!Timeout(o)
  <2>1. batch[o] # "NONE" /\ status[o] # "COMPLETED"
    BY <1>7 DEF Saga!Timeout, BatchFirst, OrderFollows
  <2> QED
    BY <1>2, <1>7, <2>1 DEF Saga!Timeout, Saga!TriggerRollback, Saga!TriggerCancel
<1>8. CASE Saga!HandleInventoryConfirmed(o)
  BY <1>8 DEF Saga!HandleInventoryConfirmed, BatchFirst
<1> QED
  BY <1>4, <1>5, <1>6, <1>7, <1>8 DEF SagaActs

\* The saga acts on one order, and looks only at events that follow a batch.
LEMMA SagaInv ==
    ASSUME IInv, NEW o \in Orders, SagaActs(o)
    PROVE  IInv'
<1> USE DEF IInv
<1>1. /\ UNCHANGED <<inventory, ordered, charges>>
      /\ RowsTyped /\ BatchFirst /\ ChargesFollow
  BY DEF SagaActs
<1>2. /\ status' \in [Orders -> Saga!Statuses]
      /\ saga' \in [Orders -> Saga!SagaStatuses]
      /\ requested' \in [Orders -> SUBSET Saga!Requests]
      /\ deadline' \in [Orders -> BOOLEAN]
      /\ intents' \subseteq Orders /\ intents \subseteq intents'
      /\ \A p \in Orders \ {o} :
            /\ status'[p] = status[p] /\ saga'[p] = saga[p]
            /\ requested'[p] = requested[p]
            /\ deadline'[p] = deadline[p] /\ (p \in intents' <=> p \in intents)
      /\ requested[o] \subseteq requested'[o]
  <2> USE <1>1 DEF RowsTyped, Saga!Statuses, Saga!SagaStatuses, Saga!Requests, Saga!order
  <2>1. CASE Saga!HandleInventoryReserved(o)
    <3>1. CASE Saga!ReservedAndPayable(o)
      BY <3>1 DEF Saga!ReservedAndPayable, Saga!AwaitPayment
    <3>2. CASE Saga!ReservedButPaymentFails(o)
      BY <3>2 DEF Saga!ReservedButPaymentFails, Saga!AwaitPayment,
                  Saga!TriggerRollback, Saga!TriggerCancel, Saga!Request
    <3>3. CASE Saga!CrashAfterPaymentCall(o)
      BY <3>3 DEF Saga!CrashAfterPaymentCall
    <3> QED
      BY <2>1, <3>1, <3>2, <3>3 DEF Saga!HandleInventoryReserved
  <2>2. CASE Saga!HandlePaymentSucceeded(o)
    <3>1. CASE Saga!PaidUnconfirmed(o)
      BY <3>1 DEF Saga!PaidUnconfirmed
    <3>2. CASE Saga!PaidAndToConfirm(o)
      BY <3>2 DEF Saga!PaidAndToConfirm, Saga!Request
    <3> QED
      BY <2>2, <3>1, <3>2 DEF Saga!HandlePaymentSucceeded
  <2>3. CASE Saga!HandlePaymentFailed(o) \/ Saga!Timeout(o)
    <3>1. /\ Saga!TriggerRollback(o, {})
          /\ UNCHANGED <<deadline, intents>>
      BY <2>3 DEF Saga!HandlePaymentFailed, Saga!Timeout
    <3> QED
      BY <3>1 DEF Saga!TriggerRollback, Saga!TriggerCancel, Saga!Request
  <2>4. CASE Saga!HandleInventoryConfirmed(o)
    BY <2>4 DEF Saga!HandleInventoryConfirmed
  <2> QED
    BY <2>1, <2>2, <2>3, <2>4 DEF SagaActs
<1>3. /\ o \in intents' => batch[o] # "NONE"
      /\ deadline'[o] => batch[o] # "NONE"
      /\ "release" \in requested'[o] => batch[o] # "NONE"
      /\ "confirm" \in requested'[o] => <<o, "payment.succeeded">> \in charges
      /\ status'[o] = "CANCELLED" => "release" \in requested'[o]
      /\ status'[o] = "WAITING_INVENTORY_CONFIRM" => "confirm" \in requested'[o]
  <2>held. emitted[o]["reserved"] > 0 => batch[o] # "NONE"
    BY <1>1 DEF BatchFirst
  <2>paid. \A e : <<o, e>> \in charges => batch[o] # "NONE"
    BY <1>1, PayersHaveBatch
  <2> USE <1>1, <2>held, <2>paid DEF RowsTyped, BatchFirst, Saga!order
  <2>1. CASE Saga!HandleInventoryReserved(o)
    <3>1. <<o, "reserved">> \in Published
      BY <2>1 DEF Saga!Received, Saga!HandleInventoryReserved,
                  Saga!ReservedAndPayable, Saga!ReservedButPaymentFails,
                  Saga!CrashAfterPaymentCall
    <3>2. batch[o] # "NONE"
      BY <3>1, Delivered
    <3> QED
      BY <2>1, <3>2 DEF Saga!HandleInventoryReserved, Saga!ReservedAndPayable,
                        Saga!ReservedButPaymentFails, Saga!CrashAfterPaymentCall,
                        Saga!AwaitPayment, Saga!TriggerRollback, Saga!TriggerCancel,
                        Saga!Request
  <2>2. CASE Saga!HandlePaymentSucceeded(o)
    <3>1. <<o, "payment.succeeded">> \in Published
      BY <2>2 DEF Saga!Received, Saga!HandlePaymentSucceeded, Saga!PaidUnconfirmed,
                  Saga!PaidAndToConfirm
    <3>2. <<o, "payment.succeeded">> \in charges /\ batch[o] # "NONE"
      BY <3>1, Delivered
    <3> QED
      BY <2>2, <3>2 DEF Saga!HandlePaymentSucceeded, Saga!PaidUnconfirmed,
                        Saga!PaidAndToConfirm, Saga!Request
  <2>3. CASE Saga!HandlePaymentFailed(o)
    <3>1. <<o, "payment.failed">> \in charges
      BY <2>3, Delivered DEF Saga!HandlePaymentFailed, Saga!Received
    <3>2. batch[o] # "NONE"
      BY <3>1
    <3> QED
      BY <2>3, <3>2 DEF Saga!HandlePaymentFailed, Saga!TriggerRollback,
                        Saga!TriggerCancel, Saga!Request
  <2>4. CASE Saga!Timeout(o)
    BY <2>4 DEF Saga!Timeout, Saga!TriggerRollback, Saga!TriggerCancel, Saga!Request
  <2>5. CASE Saga!HandleInventoryConfirmed(o)
    BY <2>5 DEF Saga!HandleInventoryConfirmed
  <2> QED
    BY <2>1, <2>2, <2>3, <2>4, <2>5 DEF SagaActs
<1>4. RowsTyped'
  BY <1>1, <1>2 DEF RowsTyped, inventory
<1>5. BatchFirst'
  BY <1>1, <1>2, <1>3 DEF BatchFirst, inventory
<1>6. ChargesFollow' /\ CallsFollow' /\ KeysSettle' /\ SoldWasAsked'
  BY <1>1, <1>2 DEF ChargesFollow, CallsFollow, KeysSettle, SoldWasAsked, inventory,
                    RowsTyped
<1>7. OrderFollows'
  BY <1>1, <1>2, SagaCourse DEF OrderFollows, inventory, RowsTyped
<1> QED
  BY <1>4, <1>5, <1>6, <1>7

\* A settlement, of a message or of the expiry worker, keeps what the rows say.
LEMMA SettleInv ==
    ASSUME IInv, NEW o \in Orders, NEW to \in {"CONFIRMED", "PAYMENT_FAILED", "EXPIRED"},
           Inv!Settle(o, to), batch[o] # "NONE",
           to = "CONFIRMED" => "confirm" \in requested[o],
           UNCHANGED <<orders, ordered, charges>>
    PROVE  /\ RowsTyped' /\ BatchFirst' /\ ChargesFollow' /\ SoldWasAsked'
           /\ OrderFollows'
           /\ batch' = [batch EXCEPT ![o] = to]
<1> USE DEF IInv, Inv!Settle
<1>1. RowsTyped'
  <2>1. line' \in [Orders -> [Variants -> Inv!Statuses]]
    BY DEF RowsTyped, Inv!LineAfter, Inv!Statuses, Inv!Outcomes, Inv!Reasons
  <2>2. emitted' \in [Orders -> [Inv!Events -> Nat]]
    BY DEF RowsTyped, Inv!Emit, Inv!OutcomeEvent, Inv!Events
  <2> QED
    BY <2>1, <2>2 DEF RowsTyped, Inv!Statuses, Inv!Outcomes, Inv!Reasons, orders
<1>2. \A p \in Orders :
         /\ emitted'[p]["reserved"] = emitted[p]["reserved"]
         /\ p # o => emitted'[p]["confirmed"] = emitted[p]["confirmed"]
  BY DEF RowsTyped, Inv!Emit, Inv!OutcomeEvent, Inv!Events
<1>3. \A p \in Orders : batch'[p] = "NONE" <=> batch[p] = "NONE"
  BY DEF RowsTyped
<1>4. BatchFirst'
  BY <1>1, <1>2, <1>3 DEF BatchFirst, orders, RowsTyped
<1>5. SoldWasAsked'
  BY DEF SoldWasAsked, RowsTyped, Inv!LineAfter, orders
<1>6. OrderFollows'
  BY <1>3 DEF OrderFollows, orders
<1> QED
  BY <1>1, <1>4, <1>5, <1>6 DEF ChargesFollow, orders

\* The first step of a settlement leaves the rows alone; its key is used up only
\* if the batch has been settled.
LEMMA BeginInv ==
    ASSUME IInv, NEW o \in Orders,
           ConfirmMessage(o) \/ ReleaseMessage(o)
    PROVE  IInv'
<1> USE DEF IInv
<1>1. /\ UNCHANGED <<orders, ordered, charges, batch, qty, line, emitted>>
  BY DEF ConfirmMessage, ReleaseMessage, Inv!BeginSettle, Inv!reservations
<1>2. batch[o] # "NONE"
  BY PayersHaveBatch DEF ConfirmMessage, ReleaseMessage, Deliverable, BatchFirst
<1>3. RowsTyped' /\ BatchFirst' /\ ChargesFollow' /\ SoldWasAsked' /\ OrderFollows'
  BY <1>1 DEF RowsTyped, BatchFirst, ChargesFollow, SoldWasAsked, OrderFollows,
              orders
<1>4. CallsFollow'
  <2>1. CASE ConfirmMessage(o)
    BY <1>1, <1>2, <2>1 DEF ConfirmMessage, Inv!BeginSettle, Deliverable,
                            CallsFollow, orders
  <2>2. CASE ReleaseMessage(o)
    BY <1>1, <1>2, <2>2 DEF ReleaseMessage, Inv!BeginSettle, CallsFollow, orders
  <2> QED
    BY <2>1, <2>2
<1>5. KeysSettle'
  <2>1. batch[o] \notin {"NONE", "PENDING"} \/ processed' = processed
    BY <1>2 DEF ConfirmMessage, ReleaseMessage, Inv!BeginSettle, Inv!Settled
  <2>2. processed' \subseteq processed \union {Inv!ConfirmKey(o), Inv!ReleaseKey(o)}
    BY DEF ConfirmMessage, ReleaseMessage, Inv!BeginSettle
  <2> QED
    BY <1>1, <2>1, <2>2 DEF KeysSettle, Inv!ConfirmKey, Inv!ReleaseKey
<1> QED
  BY <1>3, <1>4, <1>5

LEMMA CommitInv ==
    ASSUME IInv, NEW c \in inflight, CommitMessage(c)
    PROVE  IInv'
<1> USE DEF IInv
<1>1. /\ c.order \in Orders /\ batch[c.order] # "NONE"
      /\ c.to \in {"CONFIRMED", "PAYMENT_FAILED", "EXPIRED"}
      /\ c.to = "CONFIRMED" => "confirm" \in requested[c.order]
      /\ c.key \in {Inv!ConfirmKey(c.order), Inv!ReleaseKey(c.order)}
  BY DEF CallsFollow
<1>2. /\ RowsTyped' /\ BatchFirst' /\ ChargesFollow' /\ SoldWasAsked' /\ OrderFollows'
      /\ batch' = [batch EXCEPT ![c.order] = c.to]
  BY <1>1, SettleInv DEF CommitMessage, Inv!CommitSettle
<1>3. CallsFollow'
  BY <1>1, <1>2 DEF CallsFollow, RowsTyped, CommitMessage, Inv!CommitSettle, orders
<1>4. KeysSettle'
  BY <1>1, <1>2 DEF KeysSettle, RowsTyped, CommitMessage, Inv!CommitSettle,
                    Inv!ConfirmKey, Inv!ReleaseKey
<1> QED
  BY <1>2, <1>3, <1>4

LEMMA ExpireInv ==
    ASSUME IInv, NEW o \in Orders, ExpireReservation(o)
    PROVE  IInv'
<1> USE DEF IInv
<1>1. /\ RowsTyped' /\ BatchFirst' /\ ChargesFollow' /\ SoldWasAsked' /\ OrderFollows'
      /\ batch' = [batch EXCEPT ![o] = "EXPIRED"]
  BY SettleInv DEF ExpireReservation, Inv!Expire
<1>2. CallsFollow' /\ KeysSettle'
  BY <1>1 DEF CallsFollow, KeysSettle, RowsTyped, ExpireReservation, Inv!Expire,
              orders
<1> QED
  BY <1>1, <1>2

LEMMA ReserveInv ==
    ASSUME IInv, NEW o \in Orders, ReserveMessage(o)
    PROVE  IInv'
<1> USE DEF IInv, ReserveMessage, Inv!Reserve
<1>1. /\ line' \in [Orders -> [Variants -> Inv!Statuses]]
      /\ \A p \in Orders, v \in Variants :
            line'[p][v] = "CONFIRMED" => line[p][v] = "CONFIRMED"
  BY DEF RowsTyped, Inv!Statuses
<1>2. /\ emitted' \in [Orders -> [Inv!Events -> Nat]]
      /\ \A p \in Orders :
            /\ emitted'[p]["confirmed"] = emitted[p]["confirmed"]
            /\ p # o => emitted'[p]["reserved"] = emitted[p]["reserved"]
      /\ emitted'[o]["reserved"] > 0
  BY DEF RowsTyped, Inv!Emit, Inv!Events
<1>3. batch[o] = "NONE" /\ batch' = [batch EXCEPT ![o] = "PENDING"]
  OBVIOUS
<1>4. RowsTyped'
  BY <1>1, <1>2, <1>3 DEF RowsTyped, Inv!Statuses, orders
<1>5. BatchFirst'
  <2>1. \A p \in Orders : batch'[p] # "NONE" <=> batch[p] # "NONE" \/ p = o
    BY <1>3 DEF RowsTyped
  <2>2. \A p \in Orders : emitted'[p]["reserved"] > 0 <=> batch'[p] # "NONE"
    BY <1>2, <2>1 DEF BatchFirst
  <2> QED
    BY <1>2, <2>1, <2>2 DEF BatchFirst, orders
<1>6. ChargesFollow' /\ SoldWasAsked'
  BY <1>1 DEF ChargesFollow, SoldWasAsked, orders
<1>7. CallsFollow'
  BY <1>3 DEF CallsFollow, RowsTyped, orders
<1>8. KeysSettle'
  BY <1>3 DEF KeysSettle, RowsTyped, Inv!ReserveKey, Inv!ConfirmKey, Inv!ReleaseKey
<1>9. OrderFollows'
  BY <1>3 DEF OrderFollows, RowsTyped, Deliverable, orders
<1> QED
  BY <1>4, <1>5, <1>6, <1>7, <1>8, <1>9

\* Steps that leave every row IInv speaks of alone, or only drop a call.
LEMMA QuietInv ==
    ASSUME IInv, inflight' \subseteq inflight,
           UNCHANGED <<batch, line, emitted, processed, orders, ordered, charges>>
    PROVE  IInv'
BY DEF IInv, RowsTyped, BatchFirst, ChargesFollow, CallsFollow, KeysSettle,
       SoldWasAsked, OrderFollows, orders

LEMMA NextInv ==
    ASSUME IInv, [Next]_vars
    PROVE  IInv'
<1>1. CASE UNCHANGED vars
  BY <1>1, QuietInv DEF vars, inventory
<1>2. ASSUME NEW o \in Orders, Checkout(o)
      PROVE  IInv'
  <2> USE <1>2 DEF IInv, Checkout, Saga!StartCheckout
  <2>1. RowsTyped'
    BY DEF RowsTyped, Saga!Request, Saga!Statuses, Saga!SagaStatuses, Saga!Requests,
           inventory
  <2>2. /\ \A p \in Orders : /\ "release" \in requested'[p] <=> "release" \in requested[p]
                             /\ "confirm" \in requested'[p] <=> "confirm" \in requested[p]
        /\ \A p \in Orders : status'[p] \in {"RESERVING_STOCK", status[p]}
    BY DEF RowsTyped, Saga!Request
  <2>3. UNCHANGED <<inventory, charges, deadline, intents>>
    OBVIOUS
  <2>4. BatchFirst'
    BY <2>2, <2>3 DEF BatchFirst, inventory, RowsTyped
  <2>5. ChargesFollow' /\ CallsFollow' /\ KeysSettle' /\ SoldWasAsked'
    BY <2>2, <2>3 DEF ChargesFollow, CallsFollow, KeysSettle, SoldWasAsked,
                      inventory
  <2>6. OrderFollows'
    BY DEF OrderFollows, Saga!Request, RowsTyped, inventory
  <2> QED
    BY <2>1, <2>4, <2>5, <2>6
<1>3. ASSUME NEW o \in Orders, PaymentOutcome(o)
      PROVE  IInv'
  BY <1>3 DEF PaymentOutcome, IInv, RowsTyped, BatchFirst, ChargesFollow,
              CallsFollow, KeysSettle, SoldWasAsked, OrderFollows, inventory, orders
<1>4. ASSUME NEW o \in Orders, RejectCheckout(o)
      PROVE  IInv'
  BY <1>4, QuietInv DEF RejectCheckout, inventory
<1>5. ASSUME NEW c \in inflight, AbortMessage(c)
      PROVE  IInv'
  BY <1>5, QuietInv DEF AbortMessage, Inv!Rollback, Inv!reservations
<1>6. ASSUME NEW v \in Variants, Warehouse(v)
      PROVE  IInv'
  BY <1>6, QuietInv DEF Warehouse, Inv!InitializeStock, Inv!Purchase, Inv!Adjust,
                        Inv!Restock, Inv!reservations
<1> QED
  BY <1>1, <1>2, <1>3, <1>4, <1>5, <1>6, SagaInv, BeginInv, CommitInv, ExpireInv,
     ReserveInv
     DEF Next, OrderNext

\* The rows of the two services, their outboxes and the calls in flight always
\* fit together.
THEOREM Inductive == Spec => []IInv
BY InitInv, NextInv, PTL DEF Spec

\* A cancelled order whose stock is held can still give it back: no delivery of
\* its release, early or repeated, has used its key up for nothing.
THEOREM HoldsReturnable == Spec => []NoOrphanHold
<1>1. IInv => NoOrphanHold
  BY DEF IInv, NoOrphanHold, BatchFirst, KeysSettle
<1> QED
  BY <1>1, Inductive, PTL

\* A paid order whose stock is held can still be confirmed.
THEOREM ConfirmsPossible == Spec => []NoLostConfirm
<1>1. IInv => NoLostConfirm
  BY DEF IInv, NoLostConfirm, BatchFirst, KeysSettle
<1> QED
  BY <1>1, Inductive, PTL

\* Across both services, goods are sold only for a payment that succeeded.
THEOREM OnlyPaidIsSold == Spec => []SoldMeansPaid
<1>1. IInv => SoldMeansPaid
  BY DEF IInv, SoldMeansPaid, BatchFirst, SoldWasAsked
<1> QED
  BY <1>1, Inductive, PTL

------------------------------------------------------------------------------

\* What goes out of the inventory's outbox is all that a step of it changes for
\* the saga.
LEMMA PublishedBy ==
    ASSUME RowsTyped, NEW o \in Orders, NEW e \in Inv!Events, Inv!Emit(o, e),
           UNCHANGED charges
    PROVE  Published' = Published \union
              (IF e \in {"reserved", "confirmed"} THEN {<<o, e>>} ELSE {})
<1>1. \A p \in Orders : \A d \in {"reserved", "confirmed"} :
         emitted'[p][d] > 0 <=> emitted[p][d] > 0 \/ (p = o /\ d = e)
  BY DEF RowsTyped, Inv!Emit, Inv!Events
<1>2. \A m : m \in Published' <=>
         m \in Published \/ (e \in {"reserved", "confirmed"} /\ m = <<o, e>>)
  BY <1>1 DEF Published
<1> QED
  BY <1>2

\* What the composition does to the variables of inventory-service is by definition
\* a call of Inventory, so that the theorems of InventoryProofs may be cited.
LEMMA InventoryBehaves == Spec => Inv!Spec
<1>1. Init => Inv!Init
  BY DEF Init
<1>2. ASSUME IInv, [Next]_vars
      PROVE  [Inv!Next]_(Inv!vars)
  <2> USE <1>2 DEF IInv
  <2>1. CASE UNCHANGED inventory
    BY <2>1 DEF inventory, Inv!vars, Inv!stock, Inv!reservations
  <2>2. CASE UNCHANGED vars
    BY <2>1, <2>2 DEF vars
  <2>3. ASSUME NEW o \in Orders, Checkout(o) \/ SagaActs(o) \/ PaymentOutcome(o)
                                 \/ RejectCheckout(o)
        PROVE  UNCHANGED inventory
    BY <2>3 DEF Checkout, SagaActs, PaymentOutcome, RejectCheckout
  <2>4. ASSUME NEW o \in Orders, ReserveMessage(o)
        PROVE  Inv!Next
    BY <2>4 DEF ReserveMessage, RowsTyped, Inv!Next, Inv!ReserveCall
  <2>5. ASSUME NEW o \in Orders, ConfirmMessage(o)
        PROVE  Inv!Next
    BY <2>5 DEF ConfirmMessage, Inv!Next, Inv!ConfirmCall
  <2>6. ASSUME NEW o \in Orders, ReleaseMessage(o)
        PROVE  Inv!Next
    BY <2>6 DEF ReleaseMessage, Inv!Next, Inv!ReleaseCall
  <2>7. ASSUME NEW o \in Orders, ExpireReservation(o)
        PROVE  Inv!Next
    BY <2>7 DEF ExpireReservation, Inv!Next
  <2>8. ASSUME NEW c \in inflight, CommitMessage(c) \/ AbortMessage(c)
        PROVE  Inv!Next
    BY <2>8 DEF CommitMessage, AbortMessage, Inv!Next
  <2>9. ASSUME NEW v \in Variants, Warehouse(v)
        PROVE  Inv!Next
    BY <2>9 DEF Warehouse, Inv!Next
  <2> QED
    BY <2>1, <2>2, <2>3, <2>4, <2>5, <2>6, <2>7, <2>8, <2>9 DEF Next, OrderNext
<1> QED
  BY <1>1, <1>2, Inductive, PTL DEF Spec, Inv!Spec

\* In the composition order-service behaves as OrderSaga says: inventory-service
\* and the payments publish no more than its environment was allowed to.
THEOREM SagaImplemented == Spec => SagaSpec
<1>1. Init => Saga!Init
  BY DEF Init
<1>2. ASSUME IInv, [Next]_vars
      PROVE  [Saga!Next]_(Saga!vars)
  <2> USE <1>2 DEF IInv
  <2> DEFINE Quiet == UNCHANGED <<orders, Published>>
  <2>0. CASE Quiet
    BY <2>0 DEF Saga!vars, Saga!order, orders
  <2>1. ASSUME UNCHANGED <<emitted, charges>>
        PROVE  Published' = Published
    BY <2>1 DEF Published
  <2>2. CASE UNCHANGED vars
    BY <2>0, <2>1, <2>2 DEF vars, inventory, orders
  <2>3. ASSUME NEW o \in Orders, Checkout(o) \/ SagaActs(o)
        PROVE  Saga!Next
    BY <2>3 DEF Checkout, SagaActs, Saga!Next, Saga!SagaStep
  <2>4. ASSUME NEW o \in Orders, PaymentOutcome(o)
        PROVE  Saga!Next
    <3>1. PICK e \in Outcomes : charges' = charges \union {<<o, e>>}
      BY <2>4 DEF PaymentOutcome
    <3>2. Published' = Published \union {<<o, e>>}
      BY <2>4, <3>1 DEF PaymentOutcome, Published, inventory
    <3>3. Saga!Publish(o, e)
      BY <2>4, <3>2 DEF PaymentOutcome, Saga!Publish, Outcomes, Saga!order, orders
    <3> QED
      BY <3>3 DEF Saga!Next, Saga!Events, Outcomes
  <2>5. ASSUME NEW o \in Orders, ReserveMessage(o)
        PROVE  Saga!Next
    <3>1. Published' = Published \union {<<o, "reserved">>}
      BY <2>5, PublishedBy DEF ReserveMessage, Inv!Reserve, Inv!Events
    <3>2. ~ Saga!Received(o, "reserved") /\ ~ Saga!Received(o, "reservation_failed")
      <4>1. ~ (emitted[o]["reserved"] > 0)
        BY <2>5 DEF ReserveMessage, Inv!Reserve, BatchFirst
      <4> QED
        BY <4>1, Delivered DEF Saga!Received
    <3>3. Saga!Publish(o, "reserved")
      BY <2>5, <3>1, <3>2 DEF ReserveMessage, Deliverable, Saga!Publish, Saga!order,
                              orders
    <3> QED
      BY <3>3 DEF Saga!Next, Saga!Events
  <2>6. ASSUME NEW o \in Orders, ConfirmMessage(o) \/ ReleaseMessage(o) \/ RejectCheckout(o)
        PROVE  Quiet
    BY <2>1, <2>6 DEF ConfirmMessage, ReleaseMessage, RejectCheckout,
                      Inv!BeginSettle, inventory
  <2>7. ASSUME NEW o \in Orders, NEW to \in {"CONFIRMED", "PAYMENT_FAILED", "EXPIRED"},
               Inv!Settle(o, to), batch[o] # "NONE", UNCHANGED <<orders, charges>>
        PROVE  Quiet \/ Saga!Next
    <3>1. Inv!Emit(o, Inv!OutcomeEvent(to))
      BY <2>7 DEF Inv!Settle
    <3>2. CASE to = "CONFIRMED"
      <4>1. Published' = Published \union {<<o, "confirmed">>}
        BY <2>7, <3>1, <3>2, PublishedBy DEF Inv!OutcomeEvent, Inv!Events
      <4>2. Saga!Received(o, "reserved")
        <5>1. emitted[o]["reserved"] > 0
          BY <2>7 DEF BatchFirst
        <5> QED
          BY <5>1, Delivered DEF Saga!Received
      <4>3. Saga!Publish(o, "confirmed")
        BY <2>7, <4>1, <4>2 DEF Saga!Publish, Saga!order, orders
      <4> QED
        BY <4>3 DEF Saga!Next, Saga!Events
    <3>3. CASE to # "CONFIRMED"
      <4>1. Inv!OutcomeEvent(to) \in {"released", "expired"}
        BY <3>3 DEF Inv!OutcomeEvent
      <4>2. Published' = Published
        BY <2>7, <3>1, <4>1, PublishedBy DEF Inv!Events
      <4> QED
        BY <2>7, <4>2
    <3> QED
      BY <3>2, <3>3
  <2>8. ASSUME NEW o \in Orders, ExpireReservation(o)
        PROVE  Quiet \/ Saga!Next
    <3>1. Inv!Settle(o, "EXPIRED") /\ batch[o] # "NONE" /\ UNCHANGED <<orders, charges>>
      BY <2>8 DEF ExpireReservation, Inv!Expire
    <3> QED
      BY <2>7, <3>1
  <2>9. ASSUME NEW c \in inflight, CommitMessage(c)
        PROVE  Quiet \/ Saga!Next
    <3>1. /\ c.order \in Orders /\ batch[c.order] # "NONE"
          /\ c.to \in {"CONFIRMED", "PAYMENT_FAILED", "EXPIRED"}
      BY <2>9 DEF CallsFollow
    <3>2. Inv!Settle(c.order, c.to) /\ UNCHANGED <<orders, charges>>
      BY <2>9 DEF CommitMessage, Inv!CommitSettle
    <3> QED
      BY <2>7, <3>1, <3>2
  <2>10. ASSUME NEW c \in inflight, AbortMessage(c)
         PROVE  Quiet
    BY <2>1, <2>10 DEF AbortMessage, Inv!Rollback
  <2>11. ASSUME NEW v \in Variants, Warehouse(v)
         PROVE  Quiet
    BY <2>1, <2>11 DEF Warehouse, Inv!InitializeStock, Inv!Purchase, Inv!Adjust,
                       Inv!Restock
  <2> HIDE DEF Quiet
  <2> QED
    BY <2>0, <2>2, <2>3, <2>4, <2>5, <2>6, <2>8, <2>9, <2>10, <2>11
       DEF Next, OrderNext
<1> QED
  BY <1>1, <1>2, Inductive, PTL DEF Spec, SagaSpec, Saga!Spec

------------------------------------------------------------------------------

(***************************************************************************)
(* What is proved of Inventory for itself holds of it here: the service of *)
(* the composition is the one InventoryProofs is about.                    *)
(***************************************************************************)
InvP == INSTANCE InventoryProofs WITH ClientKeys <- {}

LEMMA SameAssumption == InvP!InventoryAssumption
BY CheckoutAssumption DEF InvP!InventoryAssumption, InvP!IsFiniteSet, IsFiniteSet

LEMMA SameInit == Inv!Init => InvP!Init
BY DEF Inv!Init, InvP!Init, Inv!Events, InvP!Events

LEMMA SameVars == UNCHANGED Inv!vars => UNCHANGED InvP!vars
BY DEF InvP!vars, Inv!vars, Inv!reservations, InvP!reservations, Inv!stock,
       InvP!stock

LEMMA SameSettle ==
    ASSUME NEW o, NEW to, Inv!Settle(o, to)
    PROVE  InvP!Settle(o, to)
BY DEF Inv!Settle, InvP!Settle, Inv!LineAfter, InvP!LineAfter, Inv!Pending,
       InvP!Pending, Inv!Emit, InvP!Emit, Inv!OutcomeEvent, InvP!OutcomeEvent

LEMMA SameBegin ==
    ASSUME NEW o, NEW to, NEW k, Inv!BeginSettle(o, to, k)
    PROVE  InvP!BeginSettle(o, to, k)
BY DEF Inv!BeginSettle, InvP!BeginSettle, Inv!KeyFree, InvP!KeyFree, Inv!Settled,
       InvP!Settled, Inv!reservations, InvP!reservations, Inv!stock, InvP!stock,
       Inv!Cardinality, InvP!Cardinality

LEMMA SameNext == Inv!Next => InvP!Next
<1>1. ASSUME NEW v \in Variants, Inv!InitializeStock(v)
      PROVE  InvP!InitializeStock(v)
  BY <1>1 DEF Inv!InitializeStock, InvP!InitializeStock, Inv!reservations,
              InvP!reservations
<1>2. ASSUME NEW v \in Variants, NEW n, Inv!Restock(v, n)
      PROVE  InvP!Restock(v, n)
  BY <1>2 DEF Inv!Restock, InvP!Restock, Inv!reservations, InvP!reservations
<1>3. ASSUME NEW v \in Variants, Inv!Adjust(v) \/ Inv!Purchase(v)
      PROVE  InvP!Adjust(v) \/ InvP!Purchase(v)
  BY <1>2, <1>3 DEF Inv!Adjust, InvP!Adjust, Inv!Purchase, InvP!Purchase
<1>4. ASSUME NEW o \in Orders, Inv!ReserveCall(o)
      PROVE  InvP!ReserveCall(o)
  BY <1>4 DEF Inv!ReserveCall, InvP!ReserveCall, Inv!Reserve, InvP!Reserve,
              Inv!Requests, InvP!Requests, Inv!KeyFree, InvP!KeyFree, Inv!InStock,
              InvP!InStock, Inv!Emit, InvP!Emit, Inv!ReserveKey, InvP!ReserveKey,
              Inv!MessageKeys, InvP!MessageKeys
<1>5. ASSUME NEW o \in Orders, Inv!ConfirmCall(o) \/ Inv!ReleaseCall(o)
      PROVE  InvP!ConfirmCall(o) \/ InvP!ReleaseCall(o)
  BY <1>5, SameBegin DEF Inv!ConfirmCall, InvP!ConfirmCall, Inv!ConfirmKey,
                         InvP!ConfirmKey, Inv!ReleaseCall, InvP!ReleaseCall,
                         Inv!ReleaseKey, InvP!ReleaseKey
<1>6. ASSUME NEW o \in Orders, Inv!Expire(o)
      PROVE  InvP!Expire(o)
  BY <1>6, SameSettle DEF Inv!Expire, InvP!Expire
<1>7. ASSUME NEW c \in inflight, Inv!CommitSettle(c)
      PROVE  InvP!CommitSettle(c)
  BY <1>7, SameSettle DEF Inv!CommitSettle, InvP!CommitSettle
<1>8. ASSUME NEW c \in inflight, Inv!Rollback(c)
      PROVE  InvP!Rollback(c)
  BY <1>8 DEF Inv!Rollback, InvP!Rollback, Inv!reservations, InvP!reservations,
              Inv!stock, InvP!stock
<1> QED
  BY <1>1, <1>3, <1>4, <1>5, <1>6, <1>7, <1>8 DEF Inv!Next, InvP!Next

LEMMA SameService == Spec => InvP!Spec
<1>1. [Inv!Next]_(Inv!vars) => [InvP!Next]_(InvP!vars)
  BY SameNext, SameVars
<1> QED
  BY <1>1, SameInit, InventoryBehaves, PTL DEF Inv!Spec, InvP!Spec

\* In the composition as well, whatever the saga, the payments and the workers
\* do: the counters of a variant agree, reserved_stock is the units of PENDING
\* lines, no unit is lost, and a reservation is announced once.
THEOREM StockKept ==
    Spec => [](/\ InvP!StockBalances /\ InvP!ReservedIsHeld
               /\ InvP!EveryUnitAccounted /\ InvP!ReservedAnnouncedOnce)
<1>1. InvP!Spec => /\ []InvP!StockBalances /\ []InvP!ReservedIsHeld
                   /\ []InvP!EveryUnitAccounted /\ []InvP!ReservedAnnouncedOnce
  BY SameAssumption, InvP!CountersBalance, InvP!ReservationsExact, InvP!NothingLost,
     InvP!AnnouncedOnce
     DEF InvP!InventoryAssumption
<1> QED
  BY <1>1, SameService, PTL

\* No checkout, however many race for the last unit, oversells.
THEOREM CheckoutsNeverOversell == Spec => InvP!NeverOversold
<1>1. InvP!Spec => InvP!NeverOversold
  BY SameAssumption, InvP!NoOversell DEF InvP!InventoryAssumption
<1> QED
  BY <1>1, SameService

\* The composition implements the stock ledger.
THEOREM LedgerImplemented == Spec => InvP!LedgerSpec
<1>1. InvP!Spec => InvP!LedgerSpec
  BY SameAssumption, InvP!ImplementsLedger DEF InvP!InventoryAssumption
<1> QED
  BY <1>1, SameService

------------------------------------------------------------------------------

\* A step of inventory-service is a step of the promise: what it holds is held
\* for an order that is running, and what it sells is paid.
LEMMA GoodsMove ==
    ASSUME IInv, IInv', [InvP!Ledger!Next]_(InvP!Ledger!ledger),
           UNCHANGED <<orders, charges>>
    PROVE  [Promise!Next]_(Promise!promise)
<1> DEFINE goods == [o \in Orders |-> Inv!Phase(o)]
<1>1. /\ [o \in Orders |-> InvP!Phase(o)] = goods
      /\ [o \in Orders |-> InvP!Phase(o)]' = goods'
  BY DEF Inv!Phase, InvP!Phase
<1>2. /\ [o \in Orders |-> Course(o)]' = [o \in Orders |-> Course(o)]
      /\ With("payment.succeeded")' = With("payment.succeeded")
      /\ With("payment.failed")' = With("payment.failed")
  BY DEF Course, With, orders
<1>3. CASE goods' = goods
  BY <1>2, <1>3 DEF Promise!promise
<1>4. ASSUME NEW o \in Orders, InvP!Ledger!Hold(o)
      PROVE  Promise!Hold(o)
  <2>1. goods[o] = "none" /\ goods' = [goods EXCEPT ![o] = "held"]
    BY <1>1, <1>4 DEF InvP!Ledger!Hold
  <2>2. batch[o] = "NONE" /\ batch'[o] # "NONE"
    <3>1. Inv!Phase(o) = "none" /\ Inv!Phase(o)' = "held"
      BY <2>1
    <3> QED
      BY <3>1 DEF Inv!Phase
  <2>3. Course(o) = "running"
    <3>1. status[o] \notin {"NONE", "COMPLETED", "CANCELLED"}
      BY <2>2, PayersHaveBatch DEF IInv, OrderFollows, BatchFirst, orders
    <3> QED
      BY <3>1 DEF Course, Saga!Ended
  <2> QED
    BY <1>2, <2>1, <2>3 DEF Promise!Hold
<1>5. ASSUME NEW o \in Orders, InvP!Ledger!Sell(o)
      PROVE  Promise!Sell(o)
  <2>1. goods[o] = "held" /\ goods' = [goods EXCEPT ![o] = "sold"]
    BY <1>1, <1>5 DEF InvP!Ledger!Sell
  <2>2. PICK v \in Variants : line'[o][v] = "CONFIRMED"
    <3>1. Inv!Phase(o)' = "sold"
      BY <2>1
    <3> QED
      BY <3>1 DEF Inv!Phase
  <2>3. o \in With("payment.succeeded")
    BY <2>2 DEF IInv, SoldWasAsked, BatchFirst, With, orders
  <2> QED
    BY <1>2, <2>1, <2>3 DEF Promise!Sell
<1>6. ASSUME NEW o \in Orders, InvP!Ledger!GiveBack(o)
      PROVE  Promise!GiveBack(o)
  <2>1. goods[o] = "held" /\ goods' = [goods EXCEPT ![o] = "returned"]
    BY <1>1, <1>6 DEF InvP!Ledger!GiveBack
  <2> QED
    BY <1>2, <2>1 DEF Promise!GiveBack
<1>7. ASSUME NEW v \in Variants, InvP!Ledger!Supply(v)
      PROVE  goods' = goods
  BY <1>1, <1>7 DEF InvP!Ledger!Supply
<1>8. UNCHANGED InvP!Ledger!ledger => goods' = goods
  BY <1>1 DEF InvP!Ledger!ledger
<1> HIDE DEF goods
<1> QED
  BY <1>3, <1>4, <1>5, <1>6, <1>7, <1>8 DEF InvP!Ledger!Next, Promise!Next

\* A step of the saga is a step of the promise: it completes an order that is
\* paid, and cancels one that is running or of which a payment failed.
LEMMA OrderMoves ==
    ASSUME IInv, NEW o \in Orders, Checkout(o) \/ SagaActs(o)
    PROVE  [Promise!Next]_(Promise!promise)
<1>1. /\ [p \in Orders |-> Inv!Phase(p)]' = [p \in Orders |-> Inv!Phase(p)]
      /\ With("payment.succeeded")' = With("payment.succeeded")
      /\ With("payment.failed")' = With("payment.failed")
  BY DEF Checkout, SagaActs, inventory, Inv!Phase, With
<1>2. \A p \in Orders \ {o} : status'[p] = status[p]
  BY DEF IInv, RowsTyped, Checkout, Saga!StartCheckout, SagaActs,
         Saga!HandleInventoryReserved, Saga!ReservedAndPayable,
         Saga!ReservedButPaymentFails, Saga!CrashAfterPaymentCall,
         Saga!HandlePaymentSucceeded, Saga!PaidUnconfirmed, Saga!PaidAndToConfirm,
         Saga!HandlePaymentFailed, Saga!HandleInventoryConfirmed, Saga!Timeout,
         Saga!TriggerRollback, Saga!TriggerCancel, Saga!order
<1>3. [p \in Orders |-> Course(p)]' =
         [[p \in Orders |-> Course(p)] EXCEPT ![o] = Course(o)']
  <2>1. \A p \in Orders \ {o} : Course(p)' = Course(p)
    BY <1>2 DEF Course
  <2> QED
    BY <2>1
<1>4. batch[o] # "NONE" => Inv!Phase(o) # "none"
  BY DEF Inv!Phase
<1>5. CASE Course(o)' = Course(o)
  <2>1. [p \in Orders |-> Course(p)]' = [p \in Orders |-> Course(p)]
    BY <1>3, <1>5
  <2> QED
    BY <1>1, <2>1 DEF Promise!promise
<1>6. CASE Checkout(o)
  <2>1. Course(o) = "none" /\ Course(o)' = "running"
    BY <1>6 DEF IInv, RowsTyped, Checkout, Saga!StartCheckout, Course, Saga!Ended
  <2>2. Promise!Place(o)
    BY <1>1, <1>3, <2>1 DEF Promise!Place
  <2> QED
    BY <2>2 DEF Promise!Next
<1>7. CASE SagaActs(o) /\ Course(o)' = "completed" /\ Course(o) # "completed"
  <2>1. status'[o] = "COMPLETED"
    BY <1>7 DEF Course, Saga!Ended
  <2>2. Course(o) = "running" /\ o \in With("payment.succeeded")
    BY <1>7, <2>1, SagaCourse DEF Course, Saga!Ended, With
  <2>3. Promise!Complete(o)
    BY <1>1, <1>3, <1>7, <2>2 DEF Promise!Complete
  <2> QED
    BY <2>3 DEF Promise!Next
<1>8. CASE SagaActs(o) /\ Course(o)' = "cancelled" /\ Course(o) # "cancelled"
  <2>1. status'[o] = "CANCELLED"
    BY <1>8, SagaCourse DEF Course, Saga!Ended
  <2>2. /\ Inv!Phase(o) # "none"
        /\ Course(o) = "running"
              \/ (Course(o) = "completed" /\ o \in With("payment.failed"))
    BY <1>4, <1>8, <2>1, SagaCourse DEF Course, Saga!Ended, With
  <2>3. Promise!Cancel(o)
    BY <1>1, <1>3, <1>8, <2>2 DEF Promise!Cancel
  <2> QED
    BY <2>3 DEF Promise!Next
<1>9. ASSUME SagaActs(o), Course(o)' \notin {"completed", "cancelled"}
      PROVE  Course(o)' = Course(o)
  BY <1>9, SagaCourse DEF IInv, RowsTyped, Course, Saga!Ended, Saga!Statuses
<1> QED
  BY <1>5, <1>6, <1>7, <1>8, <1>9

\* The outcome of a payment is one of an order whose goods were held.
LEMMA MoneyMoves ==
    ASSUME IInv, NEW o \in Orders, PaymentOutcome(o)
    PROVE  [Promise!Next]_(Promise!promise)
<1>1. /\ [p \in Orders |-> Inv!Phase(p)]' = [p \in Orders |-> Inv!Phase(p)]
      /\ [p \in Orders |-> Course(p)]' = [p \in Orders |-> Course(p)]
  BY DEF PaymentOutcome, inventory, orders, Inv!Phase, Course
<1>2. Inv!Phase(o) # "none"
  BY DEF IInv, BatchFirst, PaymentOutcome, Inv!Phase
<1>3. PICK e \in Outcomes : charges' = charges \union {<<o, e>>}
  BY DEF PaymentOutcome
<1>4. \A d : With(d)' = IF d = e THEN With(d) \union {o} ELSE With(d)
  BY <1>3 DEF With
<1>5. CASE e = "payment.succeeded"
  <2>1. Promise!Pay(o)
    BY <1>1, <1>2, <1>4, <1>5 DEF Promise!Pay
  <2> QED
    BY <2>1 DEF Promise!Next
<1>6. CASE e = "payment.failed"
  <2>1. Promise!Refuse(o)
    BY <1>1, <1>2, <1>4, <1>6 DEF Promise!Refuse
  <2> QED
    BY <2>1 DEF Promise!Next
<1> QED
  BY <1>5, <1>6 DEF Outcomes

\* The two services, with their outboxes, their workers and every reordering of
\* messages between them, keep the promise of a checkout.
THEOREM PromiseKept == Spec => PromiseSpec
<1>1. Init => Promise!Init
  <2> SUFFICES ASSUME Init
               PROVE  Promise!Init
    OBVIOUS
  <2>1. \A o \in Orders : Course(o) = "none" /\ Inv!Phase(o) = "none"
    BY DEF Init, Inv!Init, Saga!Init, Course, Saga!Ended, Inv!Phase
  <2>2. With("payment.succeeded") = {} /\ With("payment.failed") = {}
    BY DEF Init, With
  <2> QED
    BY <2>1, <2>2 DEF Promise!Init
<1>2. ASSUME IInv, IInv', [Next]_vars, [InvP!Ledger!Next]_(InvP!Ledger!ledger)
      PROVE  [Promise!Next]_(Promise!promise)
  <2>1. CASE UNCHANGED vars
    BY <1>2, <2>1, GoodsMove DEF vars, orders
  <2>2. ASSUME NEW o \in Orders, ReserveMessage(o) \/ RejectCheckout(o)
                   \/ ConfirmMessage(o) \/ ReleaseMessage(o) \/ ExpireReservation(o)
        PROVE  UNCHANGED <<orders, charges>>
    BY <2>2 DEF ReserveMessage, RejectCheckout, ConfirmMessage, ReleaseMessage,
                ExpireReservation
  <2>3. ASSUME NEW c \in inflight, CommitMessage(c) \/ AbortMessage(c)
        PROVE  UNCHANGED <<orders, charges>>
    BY <2>3 DEF CommitMessage, AbortMessage
  <2>4. ASSUME NEW v \in Variants, Warehouse(v)
        PROVE  UNCHANGED <<orders, charges>>
    BY <2>4 DEF Warehouse
  <2> QED
    BY <1>2, <2>1, <2>2, <2>3, <2>4, GoodsMove, OrderMoves, MoneyMoves
       DEF Next, OrderNext
<1> QED
  BY <1>1, <1>2, Inductive, LedgerImplemented, PTL
     DEF Spec, PromiseSpec, Promise!Spec, InvP!LedgerSpec, InvP!Ledger!Spec
=============================================================================
