---------------------------- MODULE OrdersProofs ----------------------------
(***************************************************************************)
(* Proofs about the checkout saga, for any set of orders, whatever values  *)
(* the SKIP_INVENTORY_CONFIRM flag takes, and about the shipment of a paid *)
(* order beside it in the specification that MCOrders checks, for every    *)
(* number of orders, of duplicates and of retries.                         *)
(*                                                                         *)
(* A step of the saga concerns one order and leaves the others as they     *)
(* are, so every conjunct of its invariant is shown for the order that     *)
(* moved.                                                                  *)
(*                                                                         *)
(* That payment-service shows "processing" only for a shipment that exists *)
(* is not inductive: the consumer goes on to tell it so, and a call that   *)
(* tells it so may still be on its way.  Shipping!IInv says that neither   *)
(* does more than repeat what is.                                          *)
(***************************************************************************)
EXTENDS MCOrders, TLAPS

------------------------------------------------------------------------------
\* The checkout saga: OrderSaga

\* The variables of one order, and what leaves another order alone.
Untouched(p) ==
    /\ status'[p] = status[p]
    /\ saga'[p] = saga[p]
    /\ deadline'[p] = deadline[p]
    /\ history'[p] = history[p]
    /\ requested'[p] = requested[p]
    /\ p \in intents' <=> p \in intents
    /\ \A e \in Events : Received(p, e)' <=> Received(p, e)

\* The parts of the invariant, for one order.
EventsOK(o) ==
    /\ Received(o, "reserved") \/ Received(o, "reservation_failed")
          => "checkout" \in requested[o]
    /\ ~ (Received(o, "reserved") /\ Received(o, "reservation_failed"))
    /\ o \in intents => Received(o, "reserved")
    /\ Received(o, "payment.succeeded") \/ Received(o, "payment.failed")
          => o \in intents
    /\ Received(o, "confirmed") => Received(o, "reserved")
    /\ "checkout" \in requested[o] <=> status[o] # "NONE"
    /\ status[o] \in {"PAYMENT_PROCESSING", "WAITING_INVENTORY_CONFIRM", "COMPLETED"}
          => o \in intents
    /\ status[o] = "CANCELLED"
          => Received(o, "reserved") \/ Received(o, "reservation_failed")
    /\ status[o] = "WAITING_INVENTORY_CONFIRM"
          => "confirm" \in requested[o] /\ Received(o, "payment.succeeded")

RowsOK(o) ==
    /\ saga[o] = "NONE" <=> status[o] = "NONE"
    /\ saga[o] = "SUCCESS" <=> status[o] = "COMPLETED"
    /\ saga[o] = "FAILED" <=> status[o] = "CANCELLED"
    /\ status[o] \in {"NONE", "RESERVING_STOCK"} => ~ deadline[o]
    /\ status[o] \in {"PAYMENT_PROCESSING", "WAITING_INVENTORY_CONFIRM"} => deadline[o]

EndsOK(o) ==
    /\ status[o] = "CANCELLED" /\ Received(o, "reserved") => "release" \in requested[o]
    /\ status[o] = "COMPLETED" =>
         /\ Received(o, "payment.succeeded")
         /\ \/ TRUE \in SkipConfirm /\ "WAITING_INVENTORY_CONFIRM" \notin history[o]
            \/ "confirm" \in requested[o] /\ Received(o, "confirmed")

HistoryOK(o) ==
    /\ status[o] # "NONE" => status[o] \in history[o]
    /\ "PAYMENT_PROCESSING" \in history[o] => "STOCK_RESERVED" \in history[o]
    /\ history[o] \intersect {"WAITING_INVENTORY_CONFIRM", "COMPLETED"} # {}
          => "PAYMENT_PROCESSING" \in history[o]
    /\ status[o] \in {"NONE", "RESERVING_STOCK", "PAYMENT_PROCESSING"}
          => "WAITING_INVENTORY_CONFIRM" \notin history[o]
    /\ "CANCELLING" \in history[o] <=> "release" \in requested[o]

OrderOK(o) == EventsOK(o) /\ RowsOK(o) /\ EndsOK(o) /\ HistoryOK(o)
AllOK == \A o \in Orders : OrderOK(o)

\* The invariant order by order.
LEMMA Split == IInv => TypeOK /\ AllOK
BY DEF IInv, AllOK, OrderOK, EventsOK, RowsOK, EndsOK, HistoryOK, EventsFollow,
       SagaMatchesOrder, CancelReleasesStock, CompletedIsSettled,
       DeadlineCoversPayment, HistoryIsComplete

LEMMA Gather == TypeOK /\ AllOK => IInv
<1> SUFFICES ASSUME TypeOK, AllOK PROVE IInv
  OBVIOUS
<1>1. EventsFollow
  BY DEF AllOK, OrderOK, EventsOK, EventsFollow
<1>2. SagaMatchesOrder /\ DeadlineCoversPayment
  BY DEF AllOK, OrderOK, RowsOK, SagaMatchesOrder, DeadlineCoversPayment
<1>3. CancelReleasesStock /\ CompletedIsSettled
  BY DEF AllOK, OrderOK, EndsOK, CancelReleasesStock, CompletedIsSettled
<1>4. HistoryIsComplete
  BY DEF AllOK, OrderOK, HistoryOK, HistoryIsComplete
<1> QED
  BY <1>1, <1>2, <1>3, <1>4 DEF IInv

LEMMA UntouchedOK ==
    ASSUME NEW o \in Orders, OrderOK(o), Untouched(o)
    PROVE  OrderOK(o)'
BY DEF OrderOK, EventsOK, RowsOK, EndsOK, HistoryOK, Untouched, Events

\* A step of an order has the variables' types and leaves the others alone.
LEMMA StepType ==
    ASSUME TypeOK, NEW o \in Orders, SagaStep(o) \/ \E e \in Events : Publish(o, e)
    PROVE  TypeOK' /\ \A p \in Orders \ {o} : Untouched(p)
<1> USE DEF TypeOK, Untouched, Received, Record, Request
<1>1. CASE StartCheckout(o)
  BY <1>1 DEF StartCheckout, Statuses, SagaStatuses, Steps, Recorded, Requests
<1>2. CASE ReservedAndPayable(o)
  BY <1>2 DEF ReservedAndPayable, AwaitPayment, Statuses, SagaStatuses, Steps,
              Recorded
<1>3. CASE ReservedButPaymentFails(o)
  BY <1>3 DEF ReservedButPaymentFails, AwaitPayment, TriggerRollback, TriggerCancel,
              Statuses, SagaStatuses, Steps, Recorded, Requests
<1>4. CASE CrashAfterPaymentCall(o)
  BY <1>4 DEF CrashAfterPaymentCall, order
<1>5. CASE HandleInventoryReservationFailed(o)
  BY <1>5 DEF HandleInventoryReservationFailed, TriggerCancel, Statuses,
              SagaStatuses, Recorded
<1>6. CASE PaidUnconfirmed(o)
  BY <1>6 DEF PaidUnconfirmed, Statuses, SagaStatuses, Recorded
<1>11. CASE PaidAndToConfirm(o)
  BY <1>11 DEF PaidAndToConfirm, Statuses, Steps, Recorded, Requests
<1>7. CASE HandlePaymentFailed(o)
  BY <1>7 DEF HandlePaymentFailed, TriggerRollback, TriggerCancel, Statuses,
              SagaStatuses, Recorded, Requests
<1>8. CASE HandleInventoryConfirmed(o)
  BY <1>8 DEF HandleInventoryConfirmed, Statuses, SagaStatuses, Recorded
<1>9. CASE Timeout(o)
  BY <1>9 DEF Timeout, TriggerRollback, TriggerCancel, Statuses, SagaStatuses,
              Recorded, Requests
<1>10. ASSUME NEW e \in Events, Publish(o, e)
       PROVE  TypeOK' /\ \A p \in Orders \ {o} : Untouched(p)
  BY <1>10 DEF Publish, order
<1> QED
  BY <1>1, <1>2, <1>3, <1>4, <1>5, <1>6, <1>7, <1>8, <1>9, <1>10, <1>11
     DEF SagaStep, HandleInventoryReserved, HandlePaymentSucceeded

\* The order that moves keeps its parts of the invariant, one case per handler.
LEMMA StepOK ==
    ASSUME TypeOK, NEW o \in Orders, OrderOK(o),
           SagaStep(o) \/ \E e \in Events : Publish(o, e)
    PROVE  OrderOK(o)'
<1> USE DEF TypeOK, OrderOK, Received, Record, Request
<1>1. CASE StartCheckout(o)
  <2>1. EventsOK(o)' /\ EndsOK(o)'
    BY <1>1 DEF StartCheckout, EventsOK, EndsOK, RowsOK
  <2>2. RowsOK(o)' /\ HistoryOK(o)'
    BY <1>1 DEF StartCheckout, EventsOK, RowsOK, HistoryOK
  <2> QED
    BY <2>1, <2>2
<1>2. CASE ReservedAndPayable(o)
  <2>1. EventsOK(o)' /\ EndsOK(o)'
    BY <1>2 DEF ReservedAndPayable, AwaitPayment, EventsOK, EndsOK, RowsOK
  <2>2. RowsOK(o)' /\ HistoryOK(o)'
    BY <1>2 DEF ReservedAndPayable, AwaitPayment, EventsOK, RowsOK, HistoryOK
  <2> QED
    BY <2>1, <2>2
<1>3. CASE ReservedButPaymentFails(o)
  <2>1. EventsOK(o)' /\ EndsOK(o)'
    BY <1>3 DEF ReservedButPaymentFails, AwaitPayment, TriggerRollback,
                TriggerCancel, EventsOK, EndsOK, RowsOK
  <2>2. RowsOK(o)' /\ HistoryOK(o)'
    BY <1>3 DEF ReservedButPaymentFails, AwaitPayment, TriggerRollback,
                TriggerCancel, EventsOK, RowsOK, HistoryOK
  <2> QED
    BY <2>1, <2>2
<1>4. CASE CrashAfterPaymentCall(o)
  <2>1. EventsOK(o)' /\ EndsOK(o)'
    BY <1>4 DEF CrashAfterPaymentCall, order, EventsOK, EndsOK, RowsOK
  <2>2. RowsOK(o)' /\ HistoryOK(o)'
    BY <1>4 DEF CrashAfterPaymentCall, order, EventsOK, RowsOK, HistoryOK
  <2> QED
    BY <2>1, <2>2
<1>5. CASE HandleInventoryReservationFailed(o)
  <2>1. EventsOK(o)' /\ EndsOK(o)'
    BY <1>5 DEF HandleInventoryReservationFailed, TriggerCancel, EventsOK, EndsOK,
                RowsOK
  <2>2. RowsOK(o)' /\ HistoryOK(o)'
    BY <1>5 DEF HandleInventoryReservationFailed, TriggerCancel, EventsOK, RowsOK,
                HistoryOK
  <2> QED
    BY <2>1, <2>2
<1>6. CASE PaidUnconfirmed(o)
  <2>1. EventsOK(o)' /\ EndsOK(o)'
    BY <1>6 DEF PaidUnconfirmed, EventsOK, EndsOK, HistoryOK
  <2>2. RowsOK(o)' /\ HistoryOK(o)'
    BY <1>6 DEF PaidUnconfirmed, EventsOK, RowsOK, HistoryOK
  <2> QED
    BY <2>1, <2>2
<1>11. CASE PaidAndToConfirm(o)
  <2>1. EventsOK(o)' /\ EndsOK(o)'
    BY <1>11 DEF PaidAndToConfirm, EventsOK, EndsOK
  <2>2. RowsOK(o)' /\ HistoryOK(o)'
    BY <1>11 DEF PaidAndToConfirm, EventsOK, RowsOK, HistoryOK
  <2> QED
    BY <2>1, <2>2
<1>7. CASE HandlePaymentFailed(o)
  <2>1. EventsOK(o)' /\ EndsOK(o)'
    BY <1>7 DEF HandlePaymentFailed, TriggerRollback, TriggerCancel, EventsOK,
                EndsOK, RowsOK
  <2>2. RowsOK(o)' /\ HistoryOK(o)'
    BY <1>7 DEF HandlePaymentFailed, TriggerRollback, TriggerCancel, EventsOK,
                RowsOK, HistoryOK
  <2> QED
    BY <2>1, <2>2
<1>8. CASE HandleInventoryConfirmed(o)
  <2>1. EventsOK(o)' /\ EndsOK(o)'
    BY <1>8 DEF HandleInventoryConfirmed, EventsOK, EndsOK, RowsOK
  <2>2. RowsOK(o)' /\ HistoryOK(o)'
    BY <1>8 DEF HandleInventoryConfirmed, EventsOK, RowsOK, HistoryOK
  <2> QED
    BY <2>1, <2>2
<1>9. CASE Timeout(o)
  <2>1. EventsOK(o)' /\ EndsOK(o)'
    <3>1. status[o] \in {"PAYMENT_PROCESSING", "WAITING_INVENTORY_CONFIRM"}
      BY <1>9 DEF Timeout, RowsOK, Statuses
    <3> QED
      BY <1>9, <3>1 DEF Timeout, TriggerRollback, TriggerCancel, EventsOK, EndsOK
  <2>2. RowsOK(o)' /\ HistoryOK(o)'
    BY <1>9 DEF Timeout, TriggerRollback, TriggerCancel, EventsOK, RowsOK, HistoryOK
  <2> QED
    BY <2>1, <2>2
<1>10. ASSUME NEW e \in Events, Publish(o, e)
       PROVE  OrderOK(o)'
  <2>1. /\ status' = status /\ saga' = saga /\ deadline' = deadline
        /\ history' = history /\ requested' = requested
    BY <1>10 DEF Publish, order
  <2>2. RowsOK(o)' /\ HistoryOK(o)'
    BY <2>1 DEF RowsOK, HistoryOK
  <2>3. EventsOK(o)' /\ EndsOK(o)'
    BY <1>10 DEF Publish, order, Events, EventsOK, EndsOK
  <2> QED
    BY <2>2, <2>3
<1> QED
  BY <1>1, <1>2, <1>3, <1>4, <1>5, <1>6, <1>7, <1>8, <1>9, <1>10, <1>11
     DEF SagaStep, HandleInventoryReserved, HandlePaymentSucceeded

LEMMA NextInv ==
    ASSUME IInv, [Next]_vars
    PROVE  IInv'
<1>1. TypeOK /\ AllOK
  BY Split
<1>2. TypeOK' /\ AllOK'
  <2>1. CASE UNCHANGED vars
    <3>1. TypeOK'
      BY <1>1, <2>1 DEF TypeOK, vars, order
    <3>2. \A p \in Orders : Untouched(p)
      BY <2>1 DEF Untouched, vars, order, Received
    <3> QED
      BY <1>1, <3>1, <3>2, UntouchedOK DEF AllOK
  <2>2. CASE Next
    <3>1. PICK o \in Orders : SagaStep(o) \/ \E e \in Events : Publish(o, e)
      BY <2>2 DEF Next
    <3>2. TypeOK' /\ \A p \in Orders \ {o} : Untouched(p)
      BY <1>1, <3>1, StepType
    <3>3. OrderOK(o)'
      BY <1>1, <3>1, StepOK DEF AllOK
    <3> QED
      BY <1>1, <3>2, <3>3, UntouchedOK DEF AllOK
  <2> QED
    BY <2>1, <2>2
<1> QED
  BY <1>2, Gather, PTL

LEMMA InitInv == Init => IInv
<1>1. Init => TypeOK
  BY DEF Init, TypeOK, Statuses, SagaStatuses, Steps, Recorded, Requests
<1>2. Init => AllOK
  BY DEF Init, AllOK, OrderOK, EventsOK, RowsOK, EndsOK, HistoryOK, Received
<1> QED
  BY <1>1, <1>2, Gather

LEMMA Inductive == Spec => []IInv
BY InitInv, NextInv, PTL DEF Spec

\* Every variable keeps its type.
THEOREM SagaTypeCorrect == Spec => []TypeOK
BY Inductive, PTL DEF IInv

\* The order row and the saga row never disagree about how the checkout stands.
THEOREM SagaAgrees == Spec => []SagaMatchesOrder
BY Inductive, PTL DEF IInv

\* Whoever cancels an order with reserved stock has asked for its release.
THEOREM CancelCompensates == Spec => []CancelReleasesStock
BY Inductive, PTL DEF IInv

\* No order completes without its payment and its confirmation.
THEOREM CompletionEarned == Spec => []CompletedIsSettled
BY Inductive, PTL DEF IInv

\* The deadline covers the whole time a payment is awaited.
THEOREM DeadlineArmed == Spec => []DeadlineCoversPayment
BY Inductive, PTL DEF IInv

\* The history table tells every status in order.
THEOREM HistoryTold == Spec => []HistoryIsComplete
BY Inductive, PTL DEF IInv

\* A step of another order, or none, leaves an order's status.
LEMMA StatusSteps ==
    ASSUME IInv, [Next]_vars, NEW o \in Orders, status'[o] # status[o]
    PROVE  SagaStep(o)
<1> USE DEF IInv
<1>1. CASE UNCHANGED vars
  BY <1>1 DEF vars, order
<1>2. ASSUME NEW p \in Orders, SagaStep(p) \/ \E e \in Events : Publish(p, e)
      PROVE  SagaStep(o)
  <2>1. CASE p # o
    BY <1>2, <2>1, StepType DEF Untouched
  <2>2. CASE p = o
    BY <1>2, <2>2 DEF Publish, order
  <2> QED
    BY <2>1, <2>2
<1> QED
  BY <1>1, <1>2 DEF Next

\* A cancelled order stays cancelled, whatever arrives late.
THEOREM CancellationFinal == Spec => CancelledIsFinal
<1>1. ASSUME IInv, [Next]_vars, NEW o \in Orders, status[o] = "CANCELLED"
      PROVE  status'[o] = "CANCELLED"
  <2>1. saga[o] = "FAILED"
    BY <1>1 DEF IInv, SagaMatchesOrder
  <2>2. CASE SagaStep(o)
    BY <1>1, <2>1, <2>2 DEF IInv, TypeOK, SagaStep, StartCheckout,
                            HandleInventoryReserved, ReservedAndPayable,
                            ReservedButPaymentFails, CrashAfterPaymentCall, order,
                            HandleInventoryReservationFailed,
                            HandlePaymentSucceeded, PaidUnconfirmed,
                            PaidAndToConfirm, HandlePaymentFailed,
                            HandleInventoryConfirmed, Timeout, TriggerRollback,
                            TriggerCancel
  <2> QED
    BY <1>1, <2>2, StatusSteps
<1>2. IInv /\ [Next]_vars
        => [\A o \in Orders : status[o] = "CANCELLED" => status'[o] = "CANCELLED"]_vars
  BY <1>1
<1> QED
  BY <1>2, Inductive, PTL DEF Spec, CancelledIsFinal

\* Only a payment failure undoes a completed order.
THEOREM CompletionStable == Spec => OnlyPaymentFailureUndoes
<1>1. ASSUME IInv, [Next]_vars, NEW o \in Orders,
             status[o] = "COMPLETED", status'[o] # "COMPLETED"
      PROVE  status'[o] = "CANCELLED" /\ Received(o, "payment.failed")
  <2>1. saga[o] = "SUCCESS" /\ ~ Received(o, "reservation_failed")
    BY <1>1 DEF IInv, SagaMatchesOrder, EventsFollow
  <2>2. SagaStep(o)
    BY <1>1, StatusSteps
  <2> QED
    BY <1>1, <2>1, <2>2 DEF IInv, TypeOK, SagaStep, StartCheckout,
                            HandleInventoryReserved, ReservedAndPayable,
                            ReservedButPaymentFails, CrashAfterPaymentCall, order,
                            HandleInventoryReservationFailed,
                            HandlePaymentSucceeded, PaidUnconfirmed,
                            PaidAndToConfirm, HandlePaymentFailed,
                            HandleInventoryConfirmed, Timeout, TriggerRollback,
                            TriggerCancel
<1>2. IInv /\ [Next]_vars
        => [\A o \in Orders :
               status[o] = "COMPLETED" /\ status'[o] # "COMPLETED"
                  => status'[o] = "CANCELLED" /\ Received(o, "payment.failed")]_vars
  BY <1>1
<1> QED
  BY <1>2, Inductive, PTL DEF Spec, OnlyPaymentFailureUndoes

------------------------------------------------------------------------------
\* Shipping

LEMMA ShipInitInv == Ship!Init => Ship!IInv
BY OrdersAssumption DEF Ship!Init, Ship!IInv, Ship!TypeOK, Ship!HandlingFollows,
                        Ship!NoticesFollow, Ship!SelectedRetriable,
                        Ship!ProcessingShips, Ship!States, Ship!Steps,
                        Ship!StatusCalls, Ship!Notices, Ship!Idle

\* The consumer is idle, or at one of its steps with an order.
LEMMA ShipHandlingIs ==
    ASSUME Ship!TypeOK, handling.step # "idle"
    PROVE  /\ handling # Ship!Idle /\ handling.order \in OrdersShipped
           /\ handling.step \in Ship!Steps
           /\ handling = [step |-> handling.step, order |-> handling.order]
BY DEF Ship!TypeOK, Ship!Idle, Ship!Steps

\* A step of the consumer within a message that leaves the shipment be, or makes it.
LEMMA ShipGoInv ==
    ASSUME Ship!IInv, NEW to \in Ship!Steps, Ship!Go(to), handling.step # "idle",
           UNCHANGED <<due, events, running, unheard, Ship!worker, Ship!told>>,
           NEW o \in OrdersShipped,
           shipment' = shipment \/ shipment' = [shipment EXCEPT ![o] = Ship!Created(o)],
           to = "notify" => shipment'[handling.order] # "none"
    PROVE  Ship!IInv'
<1>1. /\ handling.order \in OrdersShipped
      /\ handling' = [step |-> to, order |-> handling.order]
  BY ShipHandlingIs DEF Ship!IInv, Ship!Go
<1>2. shipment' \in [OrdersShipped -> Ship!States \union {"none"}]
  BY DEF Ship!IInv, Ship!TypeOK, Ship!Created, Ship!States
<1>3. \A p \in OrdersShipped : shipment[p] # "none" => shipment'[p] # "none"
  BY DEF Ship!IInv, Ship!TypeOK, Ship!Created
<1>4. Ship!TypeOK'
  BY <1>1, <1>2 DEF Ship!IInv, Ship!TypeOK, Ship!worker, Ship!told
<1>5. running /\ events[handling.order] > 0
  BY ShipHandlingIs DEF Ship!IInv, Ship!HandlingFollows
<1>6. Ship!HandlingFollows'
  BY <1>1, <1>5 DEF Ship!HandlingFollows
<1> QED
  BY <1>3, <1>4, <1>6 DEF Ship!IInv, Ship!NoticesFollow, Ship!SelectedRetriable,
                          Ship!ProcessingShips, Ship!worker, Ship!told

\* A step that leaves the consumer alone, and no shipment away.
LEMMA ShipElseInv ==
    ASSUME Ship!IInv, Ship!TypeOK', UNCHANGED handling, running => running',
           \A o \in OrdersShipped : events[o] > 0 => events'[o] > 0,
           \A o \in OrdersShipped : shipment[o] # "none" => shipment'[o] # "none",
           \A o \in OrdersShipped :
              <<o, "processing">> \in calls' => <<o, "processing">> \in calls,
           Ship!SelectedRetriable',
           \A o \in OrdersShipped : shipStatus'[o] = "processing" =>
              shipStatus[o] = "processing" \/ shipment'[o] # "none"
    PROVE  Ship!IInv'
<1>1. Ship!HandlingFollows'
  <2> SUFFICES ASSUME handling # Ship!Idle
               PROVE  /\ running' /\ events'[handling.order] > 0
                      /\ handling.step = "notify" => shipment'[handling.order] # "none"
    BY DEF Ship!HandlingFollows
  <2>1. handling.step # "idle"
    BY DEF Ship!IInv, Ship!TypeOK, Ship!Idle, Ship!Steps
  <2> QED
    BY <2>1, ShipHandlingIs DEF Ship!IInv, Ship!HandlingFollows
<1> QED
  BY <1>1 DEF Ship!IInv, Ship!NoticesFollow, Ship!ProcessingShips

LEMMA ShipNotifyInv ==
    ASSUME Ship!IInv, Ship!Notify
    PROVE  Ship!IInv'
<1>1. handling # Ship!Idle /\ handling.order \in OrdersShipped
  BY ShipHandlingIs DEF Ship!IInv, Ship!Notify, Ship!At
<1>2. running /\ events[handling.order] > 0
  BY <1>1 DEF Ship!IInv, Ship!HandlingFollows
<1>3. Ship!Notice = "processing" => shipment[handling.order] # "none"
  BY <1>1 DEF Ship!IInv, Ship!HandlingFollows, Ship!Notice, Ship!At
<1>4. Ship!Notice \in Ship!Notices /\ Ship!Notice \in {"processing", "failed"}
  BY DEF Ship!Notice, Ship!Notices
<1>5. events' \in [OrdersShipped -> Nat] /\ handling' = Ship!Idle
  BY <1>1, <1>2 DEF Ship!IInv, Ship!TypeOK, Ship!Notify
<1>6. /\ shipStatus' \in [OrdersShipped -> {"pending", "processing", "failed"}]
      /\ \A o \in OrdersShipped : shipStatus'[o] = "processing" => shipment[o] # "none"
  BY <1>1, <1>3, <1>4 DEF Ship!IInv, Ship!TypeOK, Ship!Notify, Ship!ProcessingShips
<1>7. /\ calls' \subseteq OrdersShipped \X (Ship!StatusCalls \union Ship!Notices)
      /\ unheard' \subseteq OrdersShipped
  BY <1>1, <1>4 DEF Ship!IInv, Ship!TypeOK, Ship!Notify
<1>8. \A o \in OrdersShipped : <<o, "processing">> \in calls' => shipment[o] # "none"
  BY <1>1, <1>3 DEF Ship!IInv, Ship!NoticesFollow, Ship!Notify
<1> QED
  BY <1>5, <1>6, <1>7, <1>8 DEF Ship!IInv, Ship!TypeOK, Ship!Notify,
                                Ship!HandlingFollows, Ship!NoticesFollow,
                                Ship!SelectedRetriable, Ship!ProcessingShips

LEMMA ShipRetryShippingInv ==
    ASSUME Ship!IInv, NEW o \in OrdersShipped, Ship!RetryShipping(o)
    PROVE  Ship!IInv'
<1>1. retries[o] < RetryLimit /\ retries[o] \in Nat
  BY DEF Ship!IInv, Ship!TypeOK, Ship!SelectedRetriable, Ship!RetryShipping
<1>2. /\ retries' = [retries EXCEPT ![o] = @ + 1]
      /\ selected' = selected \ {o} /\ UNCHANGED <<Ship!queue, Ship!told>>
  BY DEF Ship!RetryShipping
<1>3. retries' \in [OrdersShipped -> 0..RetryLimit] /\ Ship!SelectedRetriable'
  BY <1>1, <1>2, OrdersAssumption DEF Ship!IInv, Ship!TypeOK, Ship!SelectedRetriable
<1>4. /\ shipment' \in [OrdersShipped -> Ship!States \union {"none"}]
      /\ shipStatus' \in [OrdersShipped -> {"pending", "processing", "failed"}]
      /\ \A p \in OrdersShipped : shipment[p] # "none" => shipment'[p] # "none"
      /\ \A p \in OrdersShipped : shipStatus'[p] = "processing" =>
            shipStatus[p] = "processing" \/ shipment'[p] # "none"
  BY DEF Ship!IInv, Ship!TypeOK, Ship!RetryShipping, Ship!Created, Ship!States
<1>5. Ship!TypeOK'
  BY <1>2, <1>3, <1>4 DEF Ship!IInv, Ship!TypeOK, Ship!queue, Ship!told
<1> QED
  BY <1>2, <1>3, <1>4, <1>5, ShipElseInv DEF Ship!queue, Ship!told

LEMMA ShipNextInv == Ship!IInv /\ [Ship!Next]_(Ship!vars) => Ship!IInv'
<1> SUFFICES ASSUME Ship!IInv, [Ship!Next]_(Ship!vars) PROVE Ship!IInv'
  OBVIOUS
<1> USE DEF Ship!queue, Ship!worker, Ship!told
<1>1. ASSUME NEW o \in OrdersShipped, Ship!Publish(o) PROVE Ship!IInv'
  BY <1>1, ShipElseInv DEF Ship!Publish, Ship!IInv, Ship!TypeOK,
                           Ship!SelectedRetriable
<1>2. ASSUME NEW o \in OrdersShipped, Ship!Ship(o) \/ Ship!Deliver(o) PROVE Ship!IInv'
  BY <1>2, ShipElseInv DEF Ship!Ship, Ship!Deliver, Ship!IInv, Ship!TypeOK,
                           Ship!SelectedRetriable, Ship!StatusCalls
<1>3. ASSUME NEW o \in OrdersShipped, Ship!UpdateShippingStatus(o) PROVE Ship!IInv'
  <2>1. PICK to \in Ship!States : shipment' = [shipment EXCEPT ![o] = to]
    BY <1>3 DEF Ship!UpdateShippingStatus
  <2> QED
    BY <1>3, <2>1, ShipElseInv DEF Ship!UpdateShippingStatus, Ship!IInv,
                                   Ship!TypeOK, Ship!SelectedRetriable, Ship!States
<1>4. ASSUME NEW o \in OrdersShipped, Ship!Receive(o) PROVE Ship!IInv'
  BY <1>4 DEF Ship!Receive, Ship!IInv, Ship!TypeOK, Ship!HandlingFollows,
              Ship!NoticesFollow, Ship!SelectedRetriable, Ship!ProcessingShips,
              Ship!Steps
<1>5. CASE Ship!FetchContext
  <2>1. handling.step # "idle" /\ handling.order \in OrdersShipped
    BY <1>5, ShipHandlingIs DEF Ship!FetchContext, Ship!At, Ship!IInv
  <2> QED
    BY <1>5, <2>1, ShipGoInv DEF Ship!FetchContext, Ship!Steps
<1>6. CASE Ship!Insert
  <2>1. handling.step # "idle" /\ handling.order \in OrdersShipped
    BY <1>6, ShipHandlingIs DEF Ship!Insert, Ship!At, Ship!IInv
  <2>2. shipment'[handling.order] # "none"
    BY <1>6, <2>1 DEF Ship!Insert, Ship!Created, Ship!IInv, Ship!TypeOK
  <2> QED
    BY <1>6, <2>1, <2>2, ShipGoInv DEF Ship!Insert, Ship!Steps
<1>7. CASE Ship!Notify
  BY <1>7, ShipNotifyInv
<1>8. CASE Ship!ConsumerCrash
  BY <1>8 DEF Ship!ConsumerCrash, Ship!IInv, Ship!TypeOK, Ship!HandlingFollows,
              Ship!NoticesFollow, Ship!SelectedRetriable, Ship!ProcessingShips
<1>9. ASSUME NEW c \in calls, Ship!SyncFromOrderStatus(c) PROVE Ship!IInv'
  <2>1. c[1] \in OrdersShipped
    BY DEF Ship!IInv, Ship!TypeOK
  <2> QED
    BY <1>9, <2>1, ShipElseInv DEF Ship!SyncFromOrderStatus, Ship!IInv, Ship!TypeOK,
                                   Ship!SelectedRetriable, Ship!States
<1>10. ASSUME NEW c \in calls, Ship!UpdatePayment(c) PROVE Ship!IInv'
  <2>1. c[1] \in OrdersShipped /\ c = <<c[1], c[2]>> /\ c[2] \in {"processing", "failed"}
    BY <1>10 DEF Ship!IInv, Ship!TypeOK, Ship!UpdatePayment, Ship!Notices
  <2>2. c[2] = "processing" => shipment[c[1]] # "none"
    BY <2>1 DEF Ship!IInv, Ship!NoticesFollow
  <2> QED
    BY <1>10, <2>1, <2>2, ShipElseInv DEF Ship!UpdatePayment, Ship!IInv,
                                          Ship!TypeOK, Ship!SelectedRetriable
<1>11. ASSUME NEW c \in calls, Ship!LoseCall(c) PROVE Ship!IInv'
  BY <1>11, ShipElseInv DEF Ship!LoseCall, Ship!IInv, Ship!TypeOK,
                            Ship!SelectedRetriable
<1>12. CASE Ship!Select
  BY <1>12, ShipElseInv DEF Ship!Select, Ship!IInv, Ship!TypeOK,
                            Ship!SelectedRetriable, Ship!Retriable
<1>13. ASSUME NEW o \in OrdersShipped, Ship!RetryShipping(o) PROVE Ship!IInv'
  BY <1>13, ShipRetryShippingInv
<1>14. CASE Ship!WorkerCrash
  BY <1>14, ShipElseInv DEF Ship!WorkerCrash, Ship!IInv, Ship!TypeOK,
                            Ship!SelectedRetriable
<1>15. CASE UNCHANGED Ship!vars
  BY <1>15 DEF Ship!vars, Ship!IInv, Ship!TypeOK, Ship!HandlingFollows,
               Ship!NoticesFollow, Ship!SelectedRetriable, Ship!ProcessingShips
<1>16. CASE Ship!StartConsumer
  BY <1>16, ShipElseInv DEF Ship!StartConsumer, Ship!IInv, Ship!TypeOK,
                            Ship!SelectedRetriable
<1> QED
  BY <1>1, <1>2, <1>3, <1>4, <1>5, <1>6, <1>7, <1>8, <1>9, <1>10, <1>11, <1>12,
     <1>13, <1>14, <1>15, <1>16
     DEF Ship!Next, Ship!Consume, Ship!Retry

------------------------------------------------------------------------------
\* The circuit of a host: CircuitBreaker

LEMMA CircuitInitInv == Circuit!Init => Circuit!IInv
<1> SUFFICES ASSUME Circuit!Init
             PROVE  Circuit!IInv
  OBVIOUS
<1> USE OrdersAssumption DEF Circuit!Init
<1>1. Circuit!Fresh \in Circuit!Circuits /\ Circuit!Consistent(Circuit!Fresh)
  BY DEF Circuit!Fresh, Circuit!Circuits, Circuit!Consistent
<1>2. call \in [Callers -> [at : {"idle", "check", "attempt"}, attempt : 0..MaxRetries]]
  OBVIOUS
<1> QED
  BY <1>1, <1>2 DEF Circuit!IInv, Circuit!TypeOK, Circuit!OpensAtThreshold

\* A failure adds to what its request knew; the copy it saves opens at the
\* threshold, or if it was probing, and then the threshold is on record already.
LEMMA CircuitFailureInv ==
    ASSUME Circuit!IInv, NEW r \in Callers, Circuit!AttemptFails(r)
    PROVE  Circuit!IInv'
<1> USE OrdersAssumption DEF Circuit!IInv, Circuit!TypeOK, Circuit!OpensAtThreshold
<1> DEFINE failures == IF copy[r].failures < FailThreshold
                       THEN copy[r].failures + 1 ELSE FailThreshold
           opens == copy[r].status = "HALF_OPEN" \/ failures = FailThreshold
           saved == [copy[r] EXCEPT !.failures = failures,
                                    !.status = IF opens THEN "OPEN" ELSE @]
<1>1. /\ copy[r] \in Circuit!Circuits /\ Circuit!Consistent(copy[r])
      /\ failures \in Nat
  BY DEF Circuit!Circuits
<1>2. copy' = [copy EXCEPT ![r] = saved] /\ circuit' = saved
  <2>1. copy' = [copy EXCEPT ![r].failures = failures,
                             ![r].status = IF opens THEN "OPEN" ELSE @]
        /\ circuit' = copy'[r]
    BY DEF Circuit!AttemptFails, Circuit!RecordFailure
  <2>2. copy' = [copy EXCEPT ![r] = saved]
    <3> HIDE DEF failures
    <3> QED
      BY <1>1, <2>1 DEF Circuit!Circuits
  <2> HIDE DEF saved
  <2> QED
    BY <2>1, <2>2
<1>3. saved \in Circuit!Circuits /\ Circuit!Consistent(saved)
  <2>1. /\ saved \in Circuit!Circuits /\ saved.failures = failures
        /\ saved.status = IF opens THEN "OPEN" ELSE copy[r].status
    <3> HIDE DEF failures
    <3> QED
      BY <1>1 DEF Circuit!Circuits
  <2> HIDE DEF saved
  <2> QED
    BY <1>1, <2>1 DEF Circuit!Circuits, Circuit!Consistent
<1>4. /\ copy' \in [Callers -> Circuit!Circuits] /\ circuit' \in Circuit!Circuits
      /\ Circuit!OpensAtThreshold'
  <2> HIDE DEF saved
  <2> QED
    BY <1>2, <1>3 DEF Circuit!Consistent
<1>5. call' \in [Callers -> [at : {"idle", "check", "attempt"}, attempt : 0..MaxRetries]]
  BY DEF Circuit!AttemptFails, Circuit!Leave
<1>6. hostUp' \in BOOLEAN /\ rested' \in BOOLEAN
  BY DEF Circuit!AttemptFails
<1> QED
  BY <1>4, <1>5, <1>6

\* Every other step copies a record, forgets one, or leaves them alone.
LEMMA CircuitNextInv == Circuit!IInv /\ [Circuit!Next]_(Circuit!vars) => Circuit!IInv'
<1> SUFFICES ASSUME Circuit!IInv, [Circuit!Next]_(Circuit!vars)
             PROVE  Circuit!IInv'
  OBVIOUS
<1> USE OrdersAssumption DEF Circuit!IInv, Circuit!TypeOK, Circuit!OpensAtThreshold
<1>1. CASE UNCHANGED Circuit!vars
  BY <1>1 DEF Circuit!vars, Circuit!Consistent
<1>2. ASSUME NEW r \in Callers, Circuit!Arrive(r) \/ Circuit!Die(r)
      PROVE  Circuit!IInv'
  BY <1>2 DEF Circuit!Arrive, Circuit!Die, Circuit!Leave, Circuit!Consistent
<1>3. ASSUME NEW r \in Callers, Circuit!CheckCircuit(r)
      PROVE  Circuit!IInv'
  <2>1. circuit' \in Circuit!Circuits /\ Circuit!Consistent(circuit')
    BY <1>3 DEF Circuit!CheckCircuit, Circuit!Circuits, Circuit!Consistent
  <2>2. copy' = copy \/ copy' = [copy EXCEPT ![r] = circuit']
    BY <1>3 DEF Circuit!CheckCircuit
  <2>3. copy' \in [Callers -> Circuit!Circuits] /\ Circuit!OpensAtThreshold'
    BY <2>1, <2>2 DEF Circuit!Consistent
  <2>4. call' \in [Callers -> [at : {"idle", "check", "attempt"}, attempt : 0..MaxRetries]]
    BY <1>3 DEF Circuit!CheckCircuit, Circuit!Leave
  <2> QED
    BY <1>3, <2>1, <2>3, <2>4 DEF Circuit!CheckCircuit
<1>4. ASSUME NEW r \in Callers, Circuit!Answered(r)
      PROVE  Circuit!IInv'
  <2>1. Circuit!Fresh \in Circuit!Circuits /\ Circuit!Consistent(Circuit!Fresh)
    BY DEF Circuit!Fresh, Circuit!Circuits, Circuit!Consistent
  <2>2. copy' = [copy EXCEPT ![r] = Circuit!Fresh] /\ circuit' \in {circuit, Circuit!Fresh}
    BY <1>4 DEF Circuit!Answered, Circuit!RecordSuccess
  <2>3. /\ copy' \in [Callers -> Circuit!Circuits] /\ circuit' \in Circuit!Circuits
        /\ Circuit!OpensAtThreshold'
    BY <2>1, <2>2 DEF Circuit!Consistent
  <2>4. call' \in [Callers -> [at : {"idle", "check", "attempt"}, attempt : 0..MaxRetries]]
    BY <1>4 DEF Circuit!Answered, Circuit!Leave
  <2> QED
    BY <1>4, <2>3, <2>4 DEF Circuit!Answered
<1>5. CASE Circuit!HostChanges \/ Circuit!Rest
  BY <1>5 DEF Circuit!HostChanges, Circuit!Rest, Circuit!Consistent
<1>6. CASE Circuit!Expire
  BY <1>6 DEF Circuit!Expire, Circuit!Fresh, Circuit!Circuits, Circuit!Consistent
<1> QED
  BY <1>1, <1>2, <1>3, <1>4, <1>5, <1>6, CircuitFailureInv
     DEF Circuit!Next, Circuit!Request

------------------------------------------------------------------------------
\* The parts side by side

\* Whatever MCOrders does, shipping takes one of its steps or none.
LEMMA PartsStep ==
    [MCNext]_<<part, vars, ship, host>> => [Ship!Next]_(Ship!vars)
<1> SUFFICES ASSUME [MCNext]_<<part, vars, ship, host>>
             PROVE  Ship!Next \/ UNCHANGED Ship!vars
  OBVIOUS
<1>1. Ship!Next \/ UNCHANGED ship
  BY DEF MCNext
<1> QED
  BY <1>1 DEF ship, Ship!vars, Ship!queue, Ship!worker, Ship!told

\* payment-service shows "processing" only for a shipment that exists, whatever
\* of the consumer and the worker dies, and however late a call is executed.
THEOREM ProcessingMeansShipment == MCSpec => []ProcessingShips
<1>1. MCInit => Ship!IInv
  BY ShipInitInv DEF MCInit
<1>2. Ship!IInv /\ [MCNext]_<<part, vars, ship, host>> => Ship!IInv'
  BY PartsStep, ShipNextInv
<1>3. Ship!IInv => ProcessingShips
  BY DEF Ship!IInv, ProcessingShips
<1> QED
  BY <1>1, <1>2, <1>3, PTL DEF MCSpec

\* A circuit opens when a threshold of failures was counted and not before,
\* whatever copies the requests of all services write over each other.
THEOREM CircuitsHonest == MCSpec => []Circuit!OpensAtThreshold
<1>1. MCInit => Circuit!IInv
  BY CircuitInitInv DEF MCInit
<1>2. [MCNext]_<<part, vars, ship, host>> => [Circuit!Next]_(Circuit!vars)
  <2> SUFFICES ASSUME [MCNext]_<<part, vars, ship, host>>
               PROVE  Circuit!Next \/ UNCHANGED Circuit!vars
    OBVIOUS
  <2>1. Circuit!Next \/ UNCHANGED host
    BY DEF MCNext
  <2> QED
    BY <2>1 DEF host, Circuit!vars
<1>3. Circuit!IInv /\ [MCNext]_<<part, vars, ship, host>> => Circuit!IInv'
  BY <1>2, CircuitNextInv
<1>4. Circuit!IInv => Circuit!OpensAtThreshold
  BY DEF Circuit!IInv
<1> QED
  BY <1>1, <1>3, <1>4, PTL DEF MCSpec
=============================================================================
