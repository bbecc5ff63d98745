---------------------------- MODULE OrderPayments ----------------------------
(***************************************************************************)
(* The status machine of an order of the integer-id shop (order-service)   *)
(* and the payment that drives it (payment-service): update_status,        *)
(* process_payment, refund_payment, and the two ways in which an order     *)
(* hears of its payment: the synchronisation over HTTP, and the event that *)
(* order-service's consume_events takes from its queue.                    *)
(*                                                                         *)
(* Each of these reads its row without a lock and writes it later: a step  *)
(* that decides and a step that writes.                                    *)
(*                                                                         *)
(* Two things take no step: cancel_order names statuses that OrderStatus   *)
(* does not have and raises before it changes anything, and consume_orders *)
(* waits for order_created, which nothing publishes.                       *)
(***************************************************************************)
EXTENDS Naturals, FiniteSets

CONSTANTS
    Orders,
    Customers,     \* concurrent requests about a payment
    MaxPayments,   \* bound: payments of an order, finished or not
    MaxRefunds,    \* bound: refunds of an order, finished or not
    MaxUpdates     \* bound: status updates in flight

VARIABLES
    methods,    \* a PaymentMethod exists
    payment,    \* Payment.payment_status, "none" before the row
    paid,       \* successful payment Transactions of an order
    refunds,    \* Refund rows of an order
    failed,     \* orders with a failed payment Transaction
    paying,     \* process_payment past its read of a row that is not completed
    refunding,  \* refund_payment past its check
    syncs,      \* what _sync_order_paid has still to call
    order,      \* LegacyOrder.status
    updates,    \* update_status past its check
    hearing,    \* the order consume_events has read and not yet written
    contested,  \* orders of which two writes of the status were decided at a time
    staffed     \* orders whose status a member of staff has written

ledger == <<payment, paid, refunds, failed>>
money == <<methods, ledger, paying, refunding>>
orders == <<order, updates, hearing, contested, staffed>>
vars == <<money, syncs, orders>>

PaymentStatuses == {"none", "failed", "completed", "refunded"}
OrderStatuses == {"PENDING_PAYMENT", "PAID", "PROCESSING", "SHIPPING", "DELIVERED",
                  "CANCELLED", "RETURN_REQUESTED", "RETURNED", "REFUNDED"}

TypeOK ==
    /\ methods \in BOOLEAN
    /\ payment \in [Orders -> PaymentStatuses]
    /\ paid \in [Orders -> Nat] /\ refunds \in [Orders -> Nat]
    /\ failed \subseteq Orders
    /\ paying \subseteq Orders \X Customers
    /\ refunding \subseteq Orders \X Customers
    /\ syncs \in [Orders -> SUBSET {"mark", "advance"}]
    /\ order \in [Orders -> OrderStatuses]
    /\ updates \subseteq [order : Orders, to : OrderStatuses, staff : BOOLEAN]
    /\ hearing \subseteq Orders /\ contested \subseteq Orders
    /\ staffed \subseteq Orders

Init ==
    /\ methods \in BOOLEAN
    /\ payment = [o \in Orders |-> "none"]
    /\ paid = [o \in Orders |-> 0] /\ refunds = [o \in Orders |-> 0]
    /\ failed = {} /\ paying = {} /\ refunding = {}
    /\ syncs = [o \in Orders |-> {}]
    /\ order = [o \in Orders |-> "PENDING_PAYMENT"]
    /\ updates = {} /\ hearing = {} /\ contested = {} /\ staffed = {}

------------------------------------------------------------------------------
\* payment-service

AddMethod ==
    /\ methods' = TRUE
    /\ UNCHANGED <<ledger, paying, refunding, syncs, orders>>

\* Mutant: the order is told whatever became of the payment.
PayAndTell(o) ==
    /\ IF methods
       THEN /\ payment' = [payment EXCEPT ![o] = "completed"]
            /\ paid' = [paid EXCEPT ![o] = @ + 1]
            /\ UNCHANGED failed
       ELSE /\ payment' = [payment EXCEPT ![o] = "failed"]
            /\ failed' = failed \union {o}
            /\ UNCHANGED paid
    /\ syncs' = [syncs EXCEPT ![o] = @ \union {"mark"}]
    /\ UNCHANGED refunds

\* The rest of process_payment for a row that is not completed; the order is
\* told after the commit, and the event in the outbox is published some time.
Pay(o) ==
    /\ \/ /\ methods
          /\ payment' = [payment EXCEPT ![o] = "completed"]
          /\ paid' = [paid EXCEPT ![o] = @ + 1]
          /\ syncs' = [syncs EXCEPT ![o] = @ \union {"mark"}]
          /\ UNCHANGED failed
       \/ /\ ~methods
          /\ payment' = [payment EXCEPT ![o] = "failed"]
          /\ failed' = failed \union {o}
          /\ UNCHANGED <<paid, syncs>>
    /\ UNCHANGED refunds

Begun(o) == Cardinality({q \in paying : q[1] = o})

\* Mutant: a row that is there is processed, completed or not.
ResubmitAny(o, c) ==
    /\ payment[o] # "none" /\ <<o, c>> \notin paying
    /\ paid[o] + Begun(o) < MaxPayments
    /\ paying' = paying \union {<<o, c>>}
    /\ UNCHANGED <<methods, ledger, refunding, syncs, orders>>

\* process_payment: the first creates the row, which its unique order_id holds
\* until the commit; one that finds it completed tells the order again; one
\* that finds it failed or refunded goes on from that read.
FirstPayment(o) ==
    /\ payment[o] = "none"
    /\ Pay(o)
    /\ UNCHANGED <<methods, paying, refunding, orders>>
PaidAlready(o) ==
    /\ payment[o] = "completed"
    /\ syncs' = [syncs EXCEPT ![o] = @ \union {"mark"}]
    /\ UNCHANGED <<money, orders>>
BeginPayment(o, c) ==
    /\ payment[o] \in {"failed", "refunded"} /\ <<o, c>> \notin paying
    /\ paid[o] + Begun(o) < MaxPayments
    /\ paying' = paying \union {<<o, c>>}
    /\ UNCHANGED <<methods, ledger, refunding, syncs, orders>>
CommitPayment(q) ==
    /\ Pay(q[1])
    /\ paying' = paying \ {q}
    /\ UNCHANGED <<methods, refunding, orders>>

BeginRefund(o, c) ==
    /\ payment[o] = "completed" /\ <<o, c>> \notin refunding
    /\ refunds[o] + Cardinality({r \in refunding : r[1] = o}) < MaxRefunds
    /\ refunding' = refunding \union {<<o, c>>}
    /\ UNCHANGED <<methods, ledger, paying, syncs, orders>>
CommitRefund(r) ==
    /\ payment' = [payment EXCEPT ![r[1]] = "refunded"]
    /\ refunds' = [refunds EXCEPT ![r[1]] = @ + 1]
    /\ refunding' = refunding \ {r}
    /\ UNCHANGED <<methods, paid, failed, paying, syncs, orders>>

------------------------------------------------------------------------------
\* order-service

Allowed ==
    [PENDING_PAYMENT |-> {"PAID", "CANCELLED"},
     PAID |-> {"PROCESSING", "REFUNDED"},
     PROCESSING |-> {"SHIPPING", "CANCELLED"},
     SHIPPING |-> {"DELIVERED", "RETURN_REQUESTED"},
     DELIVERED |-> {"RETURN_REQUESTED"},
     RETURN_REQUESTED |-> {"RETURNED"},
     RETURNED |-> {"REFUNDED"},
     CANCELLED |-> {},
     REFUNDED |-> {}]

Contest(o) ==
    contested' = IF o \in hearing \/ \E u \in updates : u.order = o
                 THEN contested \union {o} ELSE contested

\* update_status up to its check, which lets the present status pass.
Decide(o, to, staff) ==
    /\ to \in Allowed[order[o]] \union {order[o]}
    /\ Cardinality(updates) < MaxUpdates
    /\ Contest(o)
    /\ updates' = updates \union {[order |-> o, to |-> to, staff |-> staff]}

\* Staff write a status, of one order or of many, by name, as an approval or as
\* a cancellation; bulk_update_status leaves the last word to update_status.
StaffUpdate(o) ==
    /\ \E to \in OrderStatuses : Decide(o, to, TRUE)
    /\ UNCHANGED <<money, syncs, order, hearing, staffed>>
RequestReturn(o) ==
    /\ order[o] \in {"DELIVERED", "SHIPPING"}
    /\ Decide(o, "RETURN_REQUESTED", FALSE)
    /\ UNCHANGED <<money, syncs, order, hearing, staffed>>
CommitUpdate(u) ==
    /\ order' = [order EXCEPT ![u.order] = u.to]
    /\ updates' = updates \ {u}
    /\ staffed' = IF u.staff THEN staffed \union {u.order} ELSE staffed
    /\ UNCHANGED <<money, syncs, hearing, contested>>

\* mark-paid, which goes on with advance-processing also where it has nothing
\* to do; a call that is refused or lost ends the synchronisation.
MarkPaid(o) ==
    /\ "mark" \in syncs[o]
    /\ \/ order[o] # "PAID" /\ Decide(o, "PAID", FALSE)
       \/ order[o] = "PAID" /\ UNCHANGED <<updates, contested>>
    /\ syncs' = [syncs EXCEPT ![o] = (@ \ {"mark"}) \union {"advance"}]
    /\ UNCHANGED <<money, order, hearing, staffed>>
AdvanceToProcessing(o) ==
    /\ "advance" \in syncs[o]
    /\ order[o] = "PAID" /\ Decide(o, "PROCESSING", FALSE)
    /\ syncs' = [syncs EXCEPT ![o] = @ \ {"advance"}]
    /\ UNCHANGED <<money, order, hearing, staffed>>

\* Mutant: the status is not looked at.
HearAnyTime(o) ==
    /\ paid[o] > 0 /\ hearing = {}
    /\ hearing' = {o}
    /\ Contest(o)
    /\ UNCHANGED <<money, syncs, order, updates, staffed>>

\* consume_events, of which there is one, takes a payment.succeeded: it looks at
\* the status of the order, and writes another; it takes no look between.  The
\* event of a payment may come late, again, or never.
HearPaid(o) ==
    /\ paid[o] > 0 /\ hearing = {}
    /\ order[o] = "PENDING_PAYMENT"
    /\ hearing' = {o}
    /\ Contest(o)
    /\ UNCHANGED <<money, syncs, order, updates, staffed>>
SaveHeard(o) ==
    /\ o \in hearing
    /\ order' = [order EXCEPT ![o] = "PAID"]
    /\ hearing' = {}
    /\ UNCHANGED <<money, syncs, updates, contested, staffed>>
HearingFails(o) ==
    /\ o \in hearing
    /\ hearing' = {}
    /\ UNCHANGED <<money, syncs, order, updates, contested, staffed>>

SyncFails(o) ==
    /\ \E s \in syncs[o] : syncs' = [syncs EXCEPT ![o] = @ \ {s}]
    /\ UNCHANGED <<money, orders>>

------------------------------------------------------------------------------

Next ==
    \/ AddMethod
    \/ \E o \in Orders :
          \/ FirstPayment(o) \/ PaidAlready(o)
          \/ \E c \in Customers : BeginPayment(o, c) \/ BeginRefund(o, c)
          \/ StaffUpdate(o) \/ RequestReturn(o)
          \/ MarkPaid(o) \/ AdvanceToProcessing(o) \/ SyncFails(o)
          \/ HearPaid(o) \/ SaveHeard(o) \/ HearingFails(o)
    \/ \E q \in paying : CommitPayment(q)
    \/ \E r \in refunding : CommitRefund(r)
    \/ \E u \in updates : CommitUpdate(u)

Spec == Init /\ [][Next]_vars

------------------------------------------------------------------------------

\* However often a payment is submitted, repeated or reloaded, an order whose
\* payments never failed and were never refunded is charged once.
PaidOnce ==
    \A o \in Orders : o \notin failed /\ refunds[o] = 0 => paid[o] <= 1

\* No order gets past its payment that nobody paid for, unless staff moved it:
\* the synchronisation and the event follow the commit of a payment, and no update
\* that overtakes another makes up for one.
UnpaidStays ==
    \A o \in Orders :
        paid[o] = 0 /\ o \notin staffed => order[o] = "PENDING_PAYMENT"

\* An order moves as update_status allows, whoever writes its status and however
\* late an event or a call is: none that was cancelled or refunded comes back, none
\* that is processed is only paid again, unless two writes were decided at a time.
StatusMoves ==
    [][\A o \in Orders \ contested :
          order'[o] \in Allowed[order[o]] \union {order[o]}]_vars

\* Support for the proofs.  A charge is on record where a payment got anywhere,
\* or its order says that it failed or was paid back.
PaymentsFollow ==
    \A o \in Orders :
        /\ payment[o] = "none" => paid[o] = 0
        /\ payment[o] = "failed" => o \in failed
        /\ payment[o] = "refunded" => refunds[o] > 0
        /\ payment[o] = "completed" => paid[o] > 0
PayingAgain == \A q \in paying : q[1] \in failed \/ refunds[q[1]] > 0

\* What the synchronisation has to tell, and the updates that no member of staff
\* makes, are about orders that were paid or are in the hands of staff.
SyncsFollow ==
    /\ \A o \in Orders : syncs[o] # {} => paid[o] > 0
    /\ \A u \in updates : u.staff \/ paid[u.order] > 0 \/ u.order \in staffed
    /\ \A o \in hearing : paid[o] > 0

\* The one write of an uncontested order was decided on the status it has.
WritesFollow ==
    /\ \A u \in updates : u.order \notin contested =>
          /\ u.to \in Allowed[order[u.order]] \union {order[u.order]}
          /\ u.order \notin hearing
          /\ \A v \in updates : v.order = u.order => v = u
    /\ \A o \in hearing \ contested : order[o] = "PENDING_PAYMENT"
    /\ \A o, p \in hearing : o = p

\* The inductive invariant behind the theorems of ShopProofs.
IInv ==
    /\ TypeOK
    /\ PaymentsFollow
    /\ PayingAgain
    /\ SyncsFollow
    /\ WritesFollow
    /\ PaidOnce
    /\ UnpaidStays
=============================================================================
