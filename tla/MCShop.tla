------------------------------- MODULE MCShop -------------------------------
(***************************************************************************)
(* Six parts that share no state and of which only safety is asked,        *)
(* checked side by side: the behaviours of one part are those in which     *)
(* only that part takes steps.  A part that takes none stays in its        *)
(* initial state.                                                          *)
(*                                                                         *)
(* LegacyOrders: the orders want the last use of the voucher, the last     *)
(* unit of the flash sale and more of p1 than there is; o2 has two lines   *)
(* of it.  The intents of PaymentIntents are those of orders of the UUID   *)
(* shop.                                                                   *)
(***************************************************************************)
EXTENDS LegacyOrders, TLC

CONSTANTS
    o1, o2, p1, v1,
    OrdersPaid, Customers, MaxPayments, MaxRefunds, MaxUpdates,   \* OrderPayments
    Intents, Keys, NoKey, Callers, MaxFailures, MaxPayBacks,      \* PaymentIntents
    Requests, Names, MaxAttempts,                                 \* Accounts
    Units, Checkouts,                                             \* Carts
    Cats, Root, MaxRenames, MaxEdits                              \* Categories

VARIABLES
    part,
    methods, payment, paid, refunds, failed, paying, refunding, syncs, order,
    updates, hearing, contested, staffed,
    status, charges, returns, outbox, processed, webhooks, returning, captured,
    moneyBack, events,
    reg, users, profiles, creations,
    shop, cart, added, removed, expired, adding, raced, checkout, orders, earlier,
    live, parent, slug, path, changes, met

Pay == INSTANCE OrderPayments WITH Orders <- OrdersPaid
Intent == INSTANCE PaymentIntents
    WITH Orders <- Intents, MaxAttempts <- MaxFailures, MaxRefunds <- MaxPayBacks,
         refunds <- returns, refunding <- returning
Account == INSTANCE Accounts
Cart == INSTANCE Carts
Category == INSTANCE Categories WITH edits <- changes

ASSUME ShopAssumption == MaxAttempts \in Nat /\ Root \notin Cats

place == <<caller, stray, executed, shelf, promotions, staff>>
pay == <<methods, payment, paid, refunds, failed, paying, refunding, syncs, order,
         updates, hearing, contested, staffed>>
intent == <<status, charges, returns, outbox, processed, webhooks, returning, captured,
            moneyBack, events>>
account == <<reg, users, profiles, creations>>
basket == <<shop, cart, added, removed, expired, adding, raced, checkout, orders,
            earlier>>
catalogue == <<live, parent, slug, path, changes, met>>

MCPayload ==
    o1 :> [units |-> p1 :> 1, largest |-> p1 :> 1, flash |-> p1 :> 1, voucher |-> v1] @@
    o2 :> [units |-> p1 :> 2, largest |-> p1 :> 1, flash |-> p1 :> 1, voucher |-> v1]
MCStock == p1 :> 2
MCUsageLimit == v1 :> 1
MCSaleQuantity == p1 :> 1

MCInit ==
    /\ part \in {"place", "pay", "intent", "account", "basket", "catalogue"}
    /\ Init /\ Pay!Init /\ Intent!Init /\ Account!Init /\ Cart!Init /\ Category!Init
    /\ part # "pay" => ~methods
    /\ part # "basket" => shop = "uuid"

MCNext ==
    /\ UNCHANGED part
    /\ \/ /\ part = "place" /\ Next
          /\ UNCHANGED <<pay, intent, account, basket, catalogue>>
       \/ /\ part = "pay" /\ Pay!Next
          /\ UNCHANGED <<place, intent, account, basket, catalogue>>
       \/ /\ part = "intent" /\ Intent!Next
          /\ UNCHANGED <<place, pay, account, basket, catalogue>>
       \/ /\ part = "account" /\ Account!Next
          /\ UNCHANGED <<place, pay, intent, basket, catalogue>>
       \/ /\ part = "basket" /\ Cart!Next
          /\ UNCHANGED <<place, pay, intent, account, catalogue>>
       \/ /\ part = "catalogue" /\ Category!Next
          /\ UNCHANGED <<place, pay, intent, account, basket>>

parts == <<place, pay, intent, account, basket, catalogue>>
MCSpec == MCInit /\ [][MCNext]_<<part, parts>>

------------------------------------------------------------------------------

\* However often a payment is submitted, an order whose payments never failed
\* and were never refunded is charged once (process_payment).
PaidOnce == Pay!PaidOnce

\* No order gets past its payment that nobody paid for, unless staff moved it
\* (update_status, _sync_order_paid, consume_events).
UnpaidStays == Pay!UnpaidStays

\* An order moves as update_status allows, unless two writes of its status were
\* decided at a time (update_status, consume_events).
StatusMoves == Pay!StatusMoves

\* The newest event of an intent is the one of its status (process_webhook,
\* refund_payment, expire_payment_intents).
StatusAnnounced == Intent!StatusAnnounced

\* A charge is recorded and announced once, and only if the customer was charged
\* (process_webhook).
ChargedOnce == Intent!ChargedOnce

\* Nobody is paid back who has not paid, and no refund is announced that was not
\* made (refund_payment).
RefundNeedsCharge == Intent!RefundNeedsCharge

\* A key stands for one refund of one order (refund_payment).
KeyedRefundOnce == Intent!KeyedRefundOnce

\* Nobody is told of an account that is not whole, nor refused and left with a
\* user (register).
AccountWhole == Account!AccountWhole

\* A unit put in a cart stays, is taken out or ordered, but for the named losses.
UnitsKept == Cart!UnitsKept

\* A unit is ordered twice only by checkouts that overlapped, or in the integer
\* shop if an answer was lost.
OrderedOnce == Cart!OrderedOnce

\* The path of a category is its parent's with its own slug, as long as no two
\* edits overlap (update_category).
PathsAgree == Category!PathsAgree
=============================================================================
