--------------------------- MODULE PaymentIntents ---------------------------
(***************************************************************************)
(* payment-service, the intents of the UUID checkout: PaymentService and   *)
(* the worker that expires intents.  The provider and the customer are the *)
(* environment.                                                            *)
(*                                                                         *)
(* Each method is one transaction.  refund_payment reads the intent        *)
(* WITHOUT a lock and decides on that read, so it is two steps; its first  *)
(* save locks the row to the end.  process_webhook decides on nothing it   *)
(* reads and the expiry worker locks what it selects: one step each.       *)
(*                                                                         *)
(* No code writes PROCESSING, so payment_reconciliation_worker, which      *)
(* selects nothing else, takes no step.  A webhook names an intent that    *)
(* exists: only the answer to a committed create lets a customer pay.      *)
(***************************************************************************)
EXTENDS Naturals, Sequences, FiniteSets

CONSTANTS
    Orders,       \* order ids; PaymentIntent.order_id is unique
    Keys, NoKey,  \* idempotency keys of callers, and none
    Callers,      \* concurrent refund requests
    MaxAttempts,  \* bound: failed attempts of a customer to pay an order
    MaxRefunds    \* bound: refunds of an order, finished or not

VARIABLES
    status,      \* PaymentIntent.status, "NONE" before it is created
    charges,     \* number of SUCCEEDED CHARGE transactions of an intent
    refunds,     \* number of REFUND transactions by the key of the request
    outbox,      \* event types of an intent's OutboxEvents, oldest first
    processed,   \* ProcessedMessage rows
    webhooks,    \* ProcessedWebhook rows
    refunding,   \* refund requests past their unlocked read
    captured,    \* external: orders whose customer has been charged
    moneyBack,   \* external: how often the provider paid an order back
    events       \* external: events the provider has to report

intents == <<status, charges, refunds, outbox>>
provider == <<captured, moneyBack, events>>
vars == <<intents, processed, webhooks, refunding, provider>>

Statuses == {"NONE", "PENDING", "PROCESSING", "SUCCEEDED", "FAILED", "EXPIRED",
             "REFUND_PENDING", "REFUNDED"}
EventTypes == {"payment.succeeded", "payment.failed", "payment.expired",
               "payment.refunded", "payment.refund_failed"}
Kinds == {"succeeded", "failed", "refunded"}
EventIds == Orders \X Kinds \X Nat

TypeOK ==
    /\ status \in [Orders -> Statuses]
    /\ charges \in [Orders -> Nat]
    /\ refunds \in [Orders -> [Keys \union {NoKey} -> Nat]]
    /\ outbox \in [Orders -> Seq(EventTypes)]
    /\ processed \subseteq Keys \ {NoKey}
    /\ refunding \subseteq [order : Orders, key : Keys \union {NoKey}, caller : Callers]
    /\ captured \subseteq Orders
    /\ moneyBack \in [Orders -> Nat]
    /\ webhooks \subseteq events /\ events \subseteq EventIds

Init ==
    /\ status = [o \in Orders |-> "NONE"]
    /\ charges = [o \in Orders |-> 0]
    /\ refunds = [o \in Orders |-> [k \in Keys \union {NoKey} |-> 0]]
    /\ outbox = [o \in Orders |-> <<>>]
    /\ processed = {}
    /\ webhooks = {}
    /\ refunding = {}
    /\ captured = {}
    /\ moneyBack = [o \in Orders |-> 0]
    /\ events = {}

------------------------------------------------------------------------------

\* Mutant: keys are looked up, and nothing keeps two calls with one key apart.
KeyChecked(k) == k = NoKey \/ k \notin processed

\* A processed key makes a call answer without doing anything (or collide); one
\* in flight makes it wait on the primary key.
KeyFree(k) ==
    k = NoKey \/ (k \notin processed /\ \A r \in refunding : r.key # k)
UseKey(k) == processed' = processed \union ({k} \ {NoKey})

\* The status is saved and announced in one transaction.
Move(o, to, event) ==
    /\ status' = [status EXCEPT ![o] = to]
    /\ outbox' = [outbox EXCEPT ![o] = Append(@, event)]

CreatePayment(o, k) ==
    /\ status[o] = "NONE"
    /\ KeyFree(k)
    /\ status' = [status EXCEPT ![o] = "PENDING"]
    /\ UseKey(k)
    /\ UNCHANGED <<charges, refunds, outbox, webhooks, refunding, provider>>

\* What MockProvider, the one provider there is, makes of an event, and what
\* process_webhook makes of that: every event about a refund reads as a failure.
Moved(o, kind) ==
    CASE kind = "succeeded" -> Move(o, "SUCCEEDED", "payment.succeeded")
      [] kind = "failed"    -> Move(o, "FAILED", "payment.failed")
      [] kind = "refunded"  -> Move(o, "REFUND_PENDING", "payment.refund_failed")

\* Mutant: no look at ProcessedWebhook.
ProcessAgain(e) ==
    /\ webhooks' = webhooks \union {e}
    /\ charges' = [charges EXCEPT ![e[1]] = IF e[2] = "succeeded" THEN @ + 1 ELSE @]
    /\ Moved(e[1], e[2])
    /\ UNCHANGED <<refunds, processed, refunding, provider>>

\* Whatever the intent's status, the event's takes its place.
ProcessWebhook(e) ==
    /\ e \notin webhooks
    /\ webhooks' = webhooks \union {e}
    /\ charges' = [charges EXCEPT ![e[1]] = IF e[2] = "succeeded" THEN @ + 1 ELSE @]
    /\ Moved(e[1], e[2])
    /\ UNCHANGED <<refunds, processed, refunding, provider>>

\* Mutant: an intent that may have been paid without anyone here knowing.
RefundableExpired == {"SUCCEEDED", "PROCESSING", "EXPIRED"}

Refundable == {"SUCCEEDED", "PROCESSING"}

\* refund_payment up to its check of the status.
BeginRefund(c, o, k) ==
    /\ \A r \in refunding : r.caller # c
    /\ KeyFree(k)
    /\ status[o] \in Refundable
    /\ moneyBack[o] + Cardinality({r \in refunding : r.order = o}) < MaxRefunds
    /\ refunding' = refunding \union {[order |-> o, key |-> k, caller |-> c]}
    /\ UNCHANGED <<intents, processed, webhooks, provider>>

\* The provider pays the customer back.
PayBack(o) == moneyBack' = [moneyBack EXCEPT ![o] = @ + 1]

\* The rest of it: the provider's call, between the two saves, succeeds.
CommitRefund(r) ==
    /\ PayBack(r.order)
    /\ Move(r.order, "REFUNDED", "payment.refunded")
    /\ refunds' = [refunds EXCEPT ![r.order][r.key] = @ + 1]
    /\ UseKey(r.key)
    /\ refunding' = refunding \ {r}
    /\ UNCHANGED <<charges, webhooks, captured, events>>

\* It dies, before or after the provider's call; no trace of it is left here.
RefundDies(r) ==
    /\ PayBack(r.order) \/ UNCHANGED moneyBack
    /\ refunding' = refunding \ {r}
    /\ UNCHANGED <<intents, processed, webhooks, captured, events>>

\* Mutant: the expiry is not announced.
ExpireSilently(o) ==
    /\ status[o] = "PENDING"
    /\ status' = [status EXCEPT ![o] = "EXPIRED"]
    /\ UNCHANGED <<charges, refunds, outbox, processed, webhooks, refunding, provider>>

\* expire_payment_intents on one intent; any PENDING one may be past its time.
ExpireIntent(o) ==
    /\ status[o] = "PENDING"
    /\ Move(o, "EXPIRED", "payment.expired")
    /\ UNCHANGED <<charges, refunds, processed, webhooks, refunding, provider>>

\* The customer has the client_secret and pays, at the first attempt or a
\* later one, whatever has become of the intent; the provider's events about
\* it come in any order, or never.
Pay(o) ==
    /\ status[o] # "NONE" /\ o \notin captured
    /\ captured' = captured \union {o}
    /\ events' = events \union {<<o, "succeeded", 1>>}
    /\ UNCHANGED <<intents, processed, webhooks, refunding, moneyBack>>
FailToPay(o) ==
    /\ status[o] # "NONE" /\ o \notin captured
    /\ \E i \in 1..MaxAttempts : events' = events \union {<<o, "failed", i>>}
    /\ UNCHANGED <<intents, processed, webhooks, refunding, captured, moneyBack>>
ReportRefund(o) ==
    /\ \E i \in 1..moneyBack[o] : events' = events \union {<<o, "refunded", i>>}
    /\ UNCHANGED <<intents, processed, webhooks, refunding, captured, moneyBack>>

Next ==
    \/ \E o \in Orders : \/ \E k \in Keys \union {NoKey} :
                              \/ CreatePayment(o, k)
                              \/ \E c \in Callers : BeginRefund(c, o, k)
                         \/ ExpireIntent(o)
                         \/ Pay(o) \/ FailToPay(o) \/ ReportRefund(o)
    \/ \E e \in events : ProcessWebhook(e)
    \/ \E r \in refunding : CommitRefund(r) \/ RefundDies(r)

Spec == Init /\ [][Next]_vars

------------------------------------------------------------------------------

\* The event whose announcement goes with a status.
Announces ==
    [SUCCEEDED |-> "payment.succeeded", FAILED |-> "payment.failed",
     EXPIRED |-> "payment.expired", REFUNDED |-> "payment.refunded",
     REFUND_PENDING |-> "payment.refund_failed"]
Announced(o, event) == Cardinality({i \in DOMAIN outbox[o] : outbox[o][i] = event})

\* Who reads the events in their order knows the intent: whatever interleaves,
\* the newest event of an intent is the one of its status.
StatusAnnounced ==
    \A o \in Orders :
        IF status[o] \in {"NONE", "PENDING"} THEN outbox[o] = <<>>
        ELSE outbox[o] # <<>> /\ outbox[o][Len(outbox[o])] = Announces[status[o]]

\* However often the provider repeats an event, a charge is recorded and
\* announced once, and only if the customer was charged.
ChargedOnce ==
    \A o \in Orders :
        /\ charges[o] <= IF o \in captured THEN 1 ELSE 0
        /\ Announced(o, "payment.succeeded") = charges[o]

\* An intent that was paid does not expire, and one that expired was not.
PaidNeverExpires ==
    [][\A o \in Orders :
          status[o] # "EXPIRED" /\ status'[o] = "EXPIRED" => charges[o] = 0]_vars

\* Nobody is paid back who has not paid, although a refund decides on a status
\* that may be gone when it acts; and no refund is announced that was not made.
RefundNeedsCharge ==
    \A o \in Orders :
        /\ moneyBack[o] > 0 => charges[o] > 0
        /\ Announced(o, "payment.refunded") <= moneyBack[o]

\* However often a refund is retried under one key, and by however many at a
\* time, the key stands for one refund of one order.
KeyedRefundOnce ==
    \A k \in Keys \ {NoKey}, o, p \in Orders :
        refunds[o][k] > 0 /\ refunds[p][k] > 0 => o = p /\ refunds[o][k] = 1

\* An intent is refunded once: a second call is to raise "Cannot refund payment
\* in status REFUNDED" (payment_service.py:138-139).  It does not hold: two
\* calls both read SUCCEEDED.
RecordedRefundOnce ==
    \A o \in Orders : Announced(o, "payment.refunded") <= 1

\* An event is about an intent that exists; a customer's payment is one event,
\* and recorded when it has been processed.
ChargesFollowEvents ==
    /\ \A e \in events : status[e[1]] # "NONE"
    /\ \A e \in events : e[2] = "succeeded" => e[1] \in captured /\ e[3] = 1
    /\ \A o \in Orders :
          charges[o] = IF <<o, "succeeded", 1>> \in webhooks THEN 1 ELSE 0

\* Where money was paid back, or is about to be, or may be, it came in.
MoneyCameIn ==
    /\ \A o \in Orders : status[o] \in Refundable => charges[o] > 0
    /\ \A o \in Orders : status[o] = "PENDING" => charges[o] = 0
    /\ \A r \in refunding : charges[r.order] > 0

\* A key is in flight once, and not after it was used.
KeysExclusive ==
    /\ \A r, q \in refunding : r.key = q.key /\ r.key # NoKey => r = q
    /\ \A r \in refunding : r.key \notin processed
    /\ \A k \in Keys \ {NoKey}, o \in Orders : refunds[o][k] > 0 => k \in processed

\* The inductive invariant behind the theorems of PaymentIntentsProofs.
IInv ==
    /\ TypeOK
    /\ ChargesFollowEvents
    /\ MoneyCameIn
    /\ KeysExclusive
    /\ StatusAnnounced
    /\ ChargedOnce
    /\ RefundNeedsCharge
    /\ KeyedRefundOnce
==============================================================================
