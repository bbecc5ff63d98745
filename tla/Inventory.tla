------------------------------ MODULE Inventory ------------------------------
(***************************************************************************)
(* inventory-service: stock counters per variant, one reservation batch    *)
(* per order, and the transactions of InventoryService that move units     *)
(* between them (inventory/services/inventory_service.py).                 *)
(*                                                                         *)
(* Every method of the service is one database transaction at READ         *)
(* COMMITTED.  reserve, adjust and purchase act through conditional        *)
(* UPDATEs that hold their row locks to the commit, so each is one step.   *)
(* confirm and release first read the batch WITHOUT a lock and decide on   *)
(* that read; only batch.save() takes the row lock.  They are two steps:   *)
(* a read that leaves a call in flight, and a commit (or a rollback) that  *)
(* works on whatever the rows hold by then.                                *)
(*                                                                         *)
(* A request line of quantity 0 stands for a variant the request does not  *)
(* name.  A call that raises (out of stock, unknown variant, duplicate     *)
(* order, duplicate variant line, taken key) rolls back and is no step.    *)
(***************************************************************************)
EXTENDS Integers, FiniteSets

CONSTANTS
    Variants,      \* variant ids
    Orders,        \* order ids
    ClientKeys,    \* Idempotency-Key values chosen by HTTP callers
    MaxQty,        \* bound: largest quantity of one line
    Lots,          \* quantities an admin purchases
    Corrections,   \* signed quantities an admin adjusts by
    StockBound,    \* bound: |total_stock| of a variant
    MaxInFlight    \* bound: concurrent confirm/release transactions

ASSUME InventoryAssumption ==
    /\ IsFiniteSet(Orders)
    /\ MaxQty \in Nat
    /\ Lots \subseteq Nat \ {0}
    /\ Corrections \subseteq Int
    /\ StockBound \in Nat
    /\ MaxInFlight \in Nat
    \* HTTP callers do not invent the keys the consumer derives.
    /\ \A k \in ClientKeys : k \notin {"reserve", "confirm", "release"} \X Orders

VARIABLES
    known,      \* variants with an Inventory row
    total,      \* total_stock
    available,  \* available_stock
    reserved,   \* reserved_stock
    received,   \* sum of the PURCHASE and ADJUSTMENT movements of a variant
    batch,      \* ReservationBatch.status of an order, "NONE" before it exists
    qty,        \* StockReservation.quantity of an order's line
    line,       \* StockReservation.status of an order's line
    processed,  \* ProcessedMessage rows
    inflight,   \* confirm/release calls past their unlocked read
    emitted     \* OutboxEvent rows: how many of each type an order has

stock == <<known, total, available, reserved, received>>
reservations == <<batch, qty, line>>
vars == <<stock, reservations, processed, inflight, emitted>>

Reasons == {"RELEASED", "PAYMENT_FAILED", "EXPIRED"}
Outcomes == {"CONFIRMED"} \union Reasons
Statuses == {"NONE", "PENDING"} \union Outcomes
Events == {"reserved", "confirmed", "released", "expired"}

\* The keys the RabbitMQ consumer derives from a message: the correlation id
\* of a checkout, confirm-<order>, release-<order>.
ReserveKey(o) == <<"reserve", o>>

\* Mutant: one idempotency key per order for all its messages.
SharedKey(o) == ReserveKey(o)

ConfirmKey(o) == <<"confirm", o>>
ReleaseKey(o) == <<"release", o>>
MessageKeys == {"reserve", "confirm", "release"} \X Orders
Keys == ClientKeys \union MessageKeys

Calls == [order : Orders, to : Outcomes, key : Keys]
Requests == [Variants -> 0..MaxQty]

TypeOK ==
    /\ known \subseteq Variants
    /\ total \in [Variants -> Int]
    /\ available \in [Variants -> Int]
    /\ reserved \in [Variants -> Int]
    /\ received \in [Variants -> Int]
    /\ batch \in [Orders -> Statuses]
    /\ qty \in [Orders -> Requests]
    /\ line \in [Orders -> [Variants -> Statuses]]
    /\ processed \subseteq Keys
    /\ inflight \subseteq Calls
    /\ emitted \in [Orders -> [Events -> Nat]]

Init ==
    /\ known = {}
    /\ total = [v \in Variants |-> 0]
    /\ available = [v \in Variants |-> 0]
    /\ reserved = [v \in Variants |-> 0]
    /\ received = [v \in Variants |-> 0]
    /\ batch = [o \in Orders |-> "NONE"]
    /\ qty = [o \in Orders |-> [v \in Variants |-> 0]]
    /\ line = [o \in Orders |-> [v \in Variants |-> "NONE"]]
    /\ processed = {}
    /\ inflight = {}
    /\ emitted = [o \in Orders |-> [e \in Events |-> 0]]

------------------------------------------------------------------------------

\* A second transaction inserting a key that is in flight blocks on the primary
\* key until the first ends; a processed key makes the call a silent no-op.
KeyFree(k) == k \notin processed /\ \A c \in inflight : c.key # k

\* Mutant: every event goes out under one type.
EmitConfirmed(o, e) == emitted' = [emitted EXCEPT ![o]["confirmed"] = @ + 1]

Emit(o, e) == emitted' = [emitted EXCEPT ![o][e] = @ + 1]

\* The row catalog.variant.created or initialize_stock creates.
InitializeStock(v) ==
    /\ v \notin known
    /\ known' = known \union {v}
    /\ UNCHANGED <<total, available, reserved, received,
                   reservations, processed, inflight, emitted>>
\* Mutant: the UPDATE without its movement row.
RestockUnrecorded(v, n) ==
    /\ v \in known
    /\ total[v] + n \in (-StockBound)..StockBound
    /\ total' = [total EXCEPT ![v] = @ + n]
    /\ available' = [available EXCEPT ![v] = @ + n]
    /\ UNCHANGED <<known, reserved, received, reservations, processed, inflight, emitted>>

\* adjust_stock and purchase_stock: the same UPDATE, with a signed or a
\* positive quantity; neither looks at what is left available.
Restock(v, n) ==
    /\ v \in known
    /\ total[v] + n \in (-StockBound)..StockBound
    /\ total' = [total EXCEPT ![v] = @ + n]
    /\ available' = [available EXCEPT ![v] = @ + n]
    /\ received' = [received EXCEPT ![v] = @ + n]
    /\ UNCHANGED <<known, reserved, reservations, processed, inflight, emitted>>

Adjust(v) == \E n \in Corrections : Restock(v, n)
Purchase(v) == \E n \in Lots : Restock(v, n)

\* The WHERE clause of the conditional UPDATE, for every line of the request.
InStock(r) == \A v \in Variants : r[v] > 0 => v \in known /\ available[v] >= r[v]

\* Mutant: nothing keeps a second batch of an order out.
ReserveAgain(o, r, k) ==
    /\ KeyFree(k)
    /\ k \in MessageKeys => \E v \in Variants : r[v] > 0
    /\ InStock(r)
    /\ batch' = [batch EXCEPT ![o] = "PENDING"]
    /\ qty' = [qty EXCEPT ![o] = r]
    /\ line' = [line EXCEPT ![o] =
                  [v \in Variants |-> IF r[v] > 0 THEN "PENDING" ELSE "NONE"]]
    /\ available' = [v \in Variants |-> available[v] - r[v]]
    /\ reserved' = [v \in Variants |-> reserved[v] + r[v]]
    /\ processed' = processed \union {k}
    /\ Emit(o, "reserved")
    /\ UNCHANGED <<known, total, received, inflight>>

\* reserve_stock: the key, the batch, the counters and the lines in one
\* transaction.  The consumer refuses a message with no items; HTTP does not.
Reserve(o, r, k) ==
    /\ KeyFree(k)
    /\ k \in MessageKeys => \E v \in Variants : r[v] > 0
    /\ batch[o] = "NONE"
    /\ InStock(r)
    /\ batch' = [batch EXCEPT ![o] = "PENDING"]
    /\ qty' = [qty EXCEPT ![o] = r]
    /\ line' = [line EXCEPT ![o] =
                  [v \in Variants |-> IF r[v] > 0 THEN "PENDING" ELSE "NONE"]]
    /\ available' = [v \in Variants |-> available[v] - r[v]]
    /\ reserved' = [v \in Variants |-> reserved[v] + r[v]]
    /\ processed' = processed \union {k}
    /\ Emit(o, "reserved")
    /\ UNCHANGED <<known, total, received, inflight>>

\* A batch in one of these states makes the call return after the read.
Settled(to) == IF to = "CONFIRMED" THEN {"CONFIRMED"} ELSE {"RELEASED", "EXPIRED"}

\* confirm_reservation / release_reservation up to the unlocked read of the
\* batch.  Returning early still commits the ProcessedMessage row.
BeginSettle(o, to, k) ==
    /\ KeyFree(k)
    /\ \/ /\ batch[o] \in {"NONE"} \union Settled(to)
          /\ processed' = processed \union {k}
          /\ UNCHANGED inflight
       \/ /\ batch[o] \notin {"NONE"} \union Settled(to)
          /\ Cardinality(inflight) < MaxInFlight
          /\ inflight' = inflight \union {[order |-> o, to |-> to, key |-> k]}
          /\ UNCHANGED processed
    /\ UNCHANGED <<stock, reservations, emitted>>

\* Mutant: every line of the batch is moved, not only the PENDING ones.
AllLines(o, v) == qty[o][v]

\* Units of variant v that settling order o moves: its lines still PENDING when
\* they are re-read under the batch's row lock.
Pending(o, v) == IF line[o][v] = "PENDING" THEN qty[o][v] ELSE 0

OutcomeEvent(to) ==
    CASE to = "CONFIRMED" -> "confirmed"
      [] to = "EXPIRED"   -> "expired"
      [] OTHER            -> "released"

\* Mutant: a bulk update rewrites every line.
LineOverwritten(o, v, to) == IF line[o][v] # "NONE" THEN to ELSE line[o][v]

LineAfter(o, v, to) == IF line[o][v] = "PENDING" THEN to ELSE line[o][v]

\* The body of confirm and release from batch.save() on: the batch is
\* overwritten whatever it holds by now, the counters follow the lines.
Settle(o, to) ==
    /\ batch' = [batch EXCEPT ![o] = to]
    /\ line' = [line EXCEPT ![o] = [v \in Variants |-> LineAfter(o, v, to)]]
    /\ reserved' = [v \in Variants |-> reserved[v] - Pending(o, v)]
    /\ IF to = "CONFIRMED"
       THEN /\ total' = [v \in Variants |-> total[v] - Pending(o, v)]
            /\ UNCHANGED available
       ELSE /\ available' = [v \in Variants |-> available[v] + Pending(o, v)]
            /\ UNCHANGED total
    /\ Emit(o, OutcomeEvent(to))
    /\ UNCHANGED <<known, received, qty>>

CommitSettle(c) ==
    /\ c \in inflight
    /\ Settle(c.order, c.to)
    /\ inflight' = inflight \ {c}
    /\ processed' = processed \union {c.key}

\* The transaction fails or its process dies: nothing of it remains, not even
\* the key.
Rollback(c) ==
    /\ c \in inflight
    /\ inflight' = inflight \ {c}
    /\ UNCHANGED <<stock, reservations, processed, emitted>>

\* One batch of the expiry worker's sweep, which locks the rows it selects
\* (skip_locked) and so decides on fresh data.  Any PENDING batch may have
\* outlived its TTL.
Expire(o) ==
    /\ batch[o] = "PENDING"
    /\ Settle(o, "EXPIRED")
    /\ UNCHANGED <<processed, inflight>>

------------------------------------------------------------------------------

ReserveCall(o) ==
    \E r \in Requests, k \in ClientKeys \union {ReserveKey(o)} : Reserve(o, r, k)
ConfirmCall(o) ==
    \E k \in ClientKeys \union {ConfirmKey(o)} : BeginSettle(o, "CONFIRMED", k)
\* HTTP releases always carry the default reason; a message may name another.
ReleaseCall(o) ==
    \/ \E k \in ClientKeys : BeginSettle(o, "RELEASED", k)
    \/ \E reason \in {"RELEASED", "PAYMENT_FAILED"} :
          BeginSettle(o, reason, ReleaseKey(o))

Next ==
    \/ \E v \in Variants : InitializeStock(v) \/ Adjust(v) \/ Purchase(v)
    \/ \E o \in Orders : ReserveCall(o) \/ ConfirmCall(o) \/ ReleaseCall(o) \/ Expire(o)
    \/ \E c \in inflight : CommitSettle(c) \/ Rollback(c)

Spec == Init /\ [][Next]_vars

------------------------------------------------------------------------------

\* Units of variant v, one token <<order, i>> each, that reservations hold, and
\* that confirmed reservations have sold.
UnitsIn(s, v) ==
    {u \in Orders \X (1..MaxQty) : line[u[1]][v] = s /\ u[2] <= qty[u[1]][v]}
HeldUnits(v) == UnitsIn("PENDING", v)
SoldUnits(v) == UnitsIn("CONFIRMED", v)

\* The counters of a variant agree with each other: what is in the warehouse is
\* either on sale or reserved (three separate columns, five UPDATE statements).
StockBalances == \A v \in Variants : total[v] = available[v] + reserved[v]

\* reserved_stock is exactly the units of PENDING lines: no interleaving of
\* confirm, release, expiry and retries takes a reservation back twice or
\* leaves one behind.
ReservedIsHeld == \A v \in Variants : reserved[v] = Cardinality(HeldUnits(v))

\* Every unit the movements say came in is in the warehouse or was sold by a
\* confirmed line.
EveryUnitAccounted ==
    \A v \in Variants : received[v] = total[v] + Cardinality(SoldUnits(v))

\* A reservation is all or nothing: while the batch is PENDING every line it
\* has is PENDING, afterwards none is, and its lines agree on the outcome.
LinesMoveTogether ==
    \A o \in Orders : \A v \in Variants :
        qty[o][v] > 0 =>
            /\ batch[o] = "PENDING" <=> line[o][v] = "PENDING"
            /\ \A w \in Variants : qty[o][w] > 0 => line[o][w] = line[o][v]

\* inventory.stock.reserved goes out once per batch, however often the checkout
\* message is delivered, and never for a reservation that was rolled back.
ReservedAnnouncedOnce ==
    \A o \in Orders :
        emitted[o]["reserved"] = IF batch[o] = "NONE" THEN 0 ELSE 1

\* A failed reservation leaves its key unused, so a redelivered checkout is
\* tried again instead of being skipped as already done.
KeyMeansReserved ==
    \A o \in Orders : ReserveKey(o) \in processed => batch[o] # "NONE"

\* Once a line has left PENDING no later call, whatever stale status it read,
\* moves it again.
LineSettledOnce ==
    [][\A o \in Orders, v \in Variants :
          line[o][v] \in Outcomes => line'[o][v] = line[o][v]]_vars

\* Only a correction by an admin can push available_stock below zero; no
\* reservation, however many race for the last unit, oversells.
NeverOversold ==
    [][\A v \in Variants :
          available'[v] < available[v] /\ received'[v] = received[v]
             => available'[v] >= 0]_vars

\* A batch that reads CONFIRMED has sold its lines.  The service's own test of
\* confirm_reservation expects it (tests.py:80-92); confirm does not look for a
\* release or an expiry that came first, so it does not hold.
ConfirmedMeansSold ==
    \A o \in Orders, v \in Variants :
        batch[o] = "CONFIRMED" /\ qty[o][v] > 0 => line[o][v] = "CONFIRMED"

\* An order without a batch has no lines, and a line has units.
NoBatchNoLines ==
    \A o \in Orders :
        batch[o] = "NONE" => \A v \in Variants : qty[o][v] = 0 /\ line[o][v] = "NONE"
NoLineWithoutUnits ==
    \A o \in Orders, v \in Variants : qty[o][v] = 0 <=> line[o][v] = "NONE"

\* A confirm or release in flight has found a batch, and never holds the key of
\* a checkout.
InFlightFound ==
    \A c \in inflight : batch[c.order] # "NONE" /\ \A o \in Orders : c.key # ReserveKey(o)

\* The inductive invariant behind the theorems of InventoryProofs.
IInv ==
    /\ TypeOK
    /\ NoBatchNoLines
    /\ NoLineWithoutUnits
    /\ InFlightFound
    /\ StockBalances
    /\ ReservedIsHeld
    /\ EveryUnitAccounted
    /\ LinesMoveTogether
    /\ ReservedAnnouncedOnce
    /\ KeyMeansReserved

\* What an order's reservation amounts to: the batch says whether it is still
\* held, the lines (not the batch, which a late call may overwrite) say how it
\* ended.
Phase(o) ==
    IF batch[o] = "NONE" THEN "none"
    ELSE IF batch[o] = "PENDING" THEN "held"
    ELSE IF \E v \in Variants : line[o][v] = "CONFIRMED" THEN "sold"
    ELSE "returned"

Ledger == INSTANCE StockLedger
    WITH onSale <- available, supplied <- received, units <- qty,
         phase <- [o \in Orders |-> Phase(o)]

\* The transactions, with their stale reads, duplicates and rollbacks,
\* implement the ledger: an order's units move as one, and settle once.
LedgerSpec == Ledger!Spec
==============================================================================
