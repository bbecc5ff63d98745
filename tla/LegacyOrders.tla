---------------------------- MODULE LegacyOrders ----------------------------
(***************************************************************************)
(* order-service, placing an order of the integer-id shop: create_order    *)
(* with the calls it makes to promotion-service and product-service, which *)
(* are parts of this module.                                               *)
(*                                                                         *)
(* create_order is one transaction around up to four POSTs.  InternalClient*)
(* repeats a POST that is not answered; the service may still execute the  *)
(* repeated one, at any time, also after the order was rolled back.  No    *)
(* POST is idempotent and none is ever undone: nothing calls release-stock *)
(* (cancel_order raises before it does), nothing gives a voucher back, and *)
(* reconcile_stock is neither started nor does its URL exist.              *)
(*                                                                         *)
(* Data: of the lines of an order that name one product only the sum of    *)
(* their quantities and the largest matter.                                *)
(***************************************************************************)
EXTENDS Integers, FiniteSets

CONSTANTS
    Orders,        \* order ids; the sequence never gives one twice
    Products,
    Vouchers, NoVoucher,
    Payload,       \* of each order, as validate_create_order_payload lets it pass
    Stock,         \* Product.stock at the start
    UsageLimit,    \* Voucher.usage_limit
    SaleQuantity,  \* FlashSaleItem.quantity
    MaxTries,      \* attempts of a call: InternalClient.max_retries + 1
    MaxStray       \* bound: unanswered calls that reach their service

Payloads ==
    [units : [Products -> Nat],     \* of the product's lines together
     largest : [Products -> Nat],   \* of the product's largest line
     flash : [Products -> Nat],     \* of its lines at a flash sale price
     voucher : Vouchers \union {NoVoucher}]

ASSUME OrderAssumption ==
    /\ NoVoucher \notin Vouchers
    /\ Payload \in [Orders -> Payloads]
    /\ \A o \in Orders, p \in Products :
          /\ Payload[o].largest[p] <= Payload[o].units[p]
          /\ Payload[o].largest[p] = 0 => Payload[o].units[p] = 0
          /\ Payload[o].flash[p] <= Payload[o].units[p]
    /\ Stock \in [Products -> Nat]
    /\ UsageLimit \in [Vouchers -> Nat]
    /\ SaleQuantity \in [Products -> Nat]
    /\ MaxTries \in Nat \ {0} /\ MaxStray \in Nat

VARIABLES
    pc,         \* where the request for an order is
    tries,      \* attempts of the current call that were not answered
    stray,      \* calls the service has and whose answer will not be heard:
                \* order, call, attempt
    executed,   \* those of them that the service has executed
    stock,      \* product-service: Product.stock
    reserved,   \* product-service: how often an order's lines are RESERVED
    used,       \* promotion-service: Voucher.used_count
    sold,       \* promotion-service: FlashSaleItem.sold_count
    edits,      \* product-service: edits between their read and their save
    edited      \* products whose stock staff have written

caller == <<pc, tries>>
promotions == <<used, sold>>
shelf == <<stock, reserved>>
staff == <<edits, edited>>
vars == <<caller, stray, executed, shelf, promotions, staff>>

Calls == {"apply", "consume", "flash", "reserve"}
Posts == Calls \ {"apply"}   \* those that change the service
Ended == {"placed", "refused", "crashed"}

TypeOK ==
    /\ pc \in [Orders -> Calls \union Ended \union {"idle", "commit"}]
    /\ tries \in [Orders -> 0..(MaxTries - 1)]
    /\ stray \subseteq Orders \X Posts \X (1..MaxTries)
    /\ executed \subseteq stray
    /\ stock \in [Products -> Int]
    /\ reserved \in [Orders -> Nat]
    /\ used \in [Vouchers -> Nat]
    /\ sold \in [Products -> Nat]
    /\ edits \subseteq [product : Products, stock : Int]
    /\ edited \subseteq Products

Init ==
    /\ pc = [o \in Orders |-> "idle"]
    /\ tries = [o \in Orders |-> 0]
    /\ stray = {} /\ executed = {}
    /\ stock = Stock
    /\ reserved = [o \in Orders |-> 0]
    /\ used = [v \in Vouchers |-> 0]
    /\ sold = [p \in Products |-> 0]
    /\ edits = {} /\ edited = {}

------------------------------------------------------------------------------
\* promotion-service

\* validate_voucher accepts; the dates and the minimum of an order, which may
\* fail at any time, are in the caller's step.
VoucherLeft(v) == used[v] < UsageLimit[v]

\* Mutant: apply-voucher has checked the limit, so it is not checked again.
ConsumeUnchecked(v) ==
    used' = [used EXCEPT ![v] = @ + 1] \/ UNCHANGED used

\* consume_voucher, under the row's lock; the voucher may also have ended.
ConsumeVoucher(v) ==
    \/ VoucherLeft(v) /\ used' = [used EXCEPT ![v] = @ + 1]
    \/ UNCHANGED used

\* consume_flash_sale_items: all products on sale, or none at the first for
\* which too little is left.
ConsumeFlashSale(r) ==
    \/ \E onSale \in SUBSET Products :
          /\ \A p \in onSale : sold[p] + r.flash[p] <= SaleQuantity[p]
          /\ sold' = [p \in Products |-> IF p \in onSale THEN sold[p] + r.flash[p]
                                         ELSE sold[p]]
    \/ UNCHANGED sold

------------------------------------------------------------------------------
\* product-service

\* Each line is compared with the whole stock.
InStock(r) == \A p \in Products : r.units[p] > 0 => stock[p] >= r.largest[p]

\* Mutant: a repeated order id is taken for done, and its lines left alone,
\* but the log is not.
TakeOnce(o) ==
    /\ stock' = [p \in Products |-> IF reserved[o] > 0 THEN stock[p]
                                    ELSE stock[p] - Payload[o].units[p]]
    /\ reserved' = [reserved EXCEPT ![o] = @ + 1]

\* reserve_stock past its validation, under the locks of the products.
Take(o) ==
    /\ stock' = [p \in Products |-> stock[p] - Payload[o].units[p]]
    /\ reserved' = [reserved EXCEPT ![o] = @ + 1]

\* Mutant: the lines are taken one by one, and stay taken when one fails.
ReserveWithoutRollback(o) == Take(o)

ReserveStock(o) ==
    \/ InStock(Payload[o]) /\ Take(o)
    \/ ~InStock(Payload[o]) /\ UNCHANGED shelf

\* ProductService.update reads the product without a lock and saves all its
\* fields, stock included.
BeginEdit(p) ==
    /\ p \notin edited /\ \A e \in edits : e.product # p
    /\ edits' = edits \union {[product |-> p, stock |-> stock[p]]}
    /\ UNCHANGED <<caller, stray, executed, shelf, promotions, edited>>
SaveEdit(e) ==
    /\ stock' = [stock EXCEPT ![e.product] = e.stock]
    /\ edits' = edits \ {e}
    /\ edited' = edited \union {e.product}
    /\ UNCHANGED <<caller, stray, executed, reserved, promotions>>

\* A movement posted by staff says what the stock is after it; bound: as much
\* as at the start.
PostMovement(p) ==
    /\ p \notin edited
    /\ stock' = [stock EXCEPT ![p] = Stock[p]]
    /\ edited' = edited \union {p}
    /\ UNCHANGED <<caller, stray, executed, reserved, promotions, edits>>

------------------------------------------------------------------------------
\* order-service

Go(o, to) ==
    /\ pc' = [pc EXCEPT ![o] = to]
    /\ tries' = [tries EXCEPT ![o] = 0]

AfterVoucher(r) == IF \E p \in Products : r.flash[p] > 0 THEN "flash" ELSE "reserve"
FirstCall(r) == IF r.voucher = NoVoucher THEN AfterVoucher(r) ELSE "apply"
NextCall(o) ==
    CASE pc[o] = "apply"   -> "consume"
      [] pc[o] = "consume" -> AfterVoucher(Payload[o])
      [] pc[o] = "flash"   -> "reserve"
      [] pc[o] = "reserve" -> "commit"

\* The request comes in; the order's row is created in a transaction that is
\* open until Commit.
Place(o) ==
    /\ pc[o] = "idle"
    /\ Go(o, FirstCall(Payload[o]))
    /\ UNCHANGED <<stray, executed, shelf, promotions, staff>>

\* Answers.  A voucher that is not valid and stock that is not there end the
\* request; that a voucher or a sale could not be consumed is only logged.
ApplyAnswered(o) ==
    /\ pc[o] = "apply"
    /\ \/ VoucherLeft(Payload[o].voucher) /\ Go(o, NextCall(o))
       \/ Go(o, "refused")
    /\ UNCHANGED <<stray, executed, shelf, promotions, staff>>
ConsumeAnswered(o) ==
    /\ pc[o] = "consume"
    /\ ConsumeVoucher(Payload[o].voucher)
    /\ Go(o, NextCall(o))
    /\ UNCHANGED <<stray, executed, shelf, sold, staff>>
FlashAnswered(o) ==
    /\ pc[o] = "flash"
    /\ ConsumeFlashSale(Payload[o])
    /\ Go(o, NextCall(o))
    /\ UNCHANGED <<stray, executed, shelf, used, staff>>
ReserveAnswered(o) ==
    /\ pc[o] = "reserve"
    /\ ReserveStock(o)
    /\ Go(o, IF InStock(Payload[o]) THEN NextCall(o) ELSE "refused")
    /\ UNCHANGED <<stray, executed, promotions, staff>>

\* Mutant: a reservation that fails is only logged, as a consumption is.
GiveUpNothing(o) ==
    Go(o, IF pc[o] = "apply" THEN "refused" ELSE NextCall(o))

\* What follows when a call has failed for good.
GiveUp(o) ==
    Go(o, IF pc[o] \in {"apply", "reserve"} THEN "refused" ELSE NextCall(o))

\* Whether an attempt that gets no answer reached the service.
Lose(o) ==
    \/ UNCHANGED stray
    \/ /\ pc[o] \in Posts /\ Cardinality(stray) < MaxStray
       /\ stray' = stray \union {<<o, pc[o], tries[o] + 1>>}

\* No answer to an attempt, or a 5xx.
TimeOut(o) ==
    /\ pc[o] \in Calls
    /\ Lose(o)
    /\ IF tries[o] + 1 < MaxTries
       THEN tries' = [tries EXCEPT ![o] = @ + 1] /\ UNCHANGED pc
       ELSE GiveUp(o)
    /\ UNCHANGED <<executed, shelf, promotions, staff>>

\* The circuit of the host is open: the call fails before any attempt.
CircuitOpen(o) ==
    /\ pc[o] \in Calls /\ tries[o] = 0
    /\ GiveUp(o)
    /\ UNCHANGED <<stray, executed, shelf, promotions, staff>>

Commit(o) ==
    /\ pc[o] = "commit"
    /\ Go(o, "placed")
    /\ UNCHANGED <<stray, executed, shelf, promotions, staff>>

\* The process dies, or the commit fails: the order is rolled back.
Crash(o) ==
    /\ pc[o] \in Calls \union {"commit"}
    /\ Go(o, "crashed")
    /\ Lose(o)
    /\ UNCHANGED <<executed, shelf, promotions, staff>>

\* A service executes a call whose caller no longer listens.
ExecuteLate(c) ==
    /\ c \notin executed
    /\ executed' = executed \union {c}
    /\ \/ c[2] = "consume" /\ ConsumeVoucher(Payload[c[1]].voucher)
                           /\ UNCHANGED <<shelf, sold>>
       \/ c[2] = "flash" /\ ConsumeFlashSale(Payload[c[1]]) /\ UNCHANGED <<shelf, used>>
       \/ c[2] = "reserve" /\ ReserveStock(c[1]) /\ UNCHANGED promotions
    /\ UNCHANGED <<caller, stray, staff>>

Request(o) ==
    \/ ApplyAnswered(o) \/ ConsumeAnswered(o) \/ FlashAnswered(o) \/ ReserveAnswered(o)
    \/ TimeOut(o) \/ CircuitOpen(o) \/ Commit(o)

Next ==
    \/ \E o \in Orders : Place(o) \/ Request(o) \/ Crash(o)
    \/ \E c \in stray : ExecuteLate(c)
    \/ \E p \in Products : BeginEdit(p) \/ PostMovement(p)
    \/ \E e \in edits : SaveEdit(e)

Spec == Init /\ [][Next]_vars

------------------------------------------------------------------------------

StrayReserves(o) == {c \in stray : c[1] = o /\ c[2] = "reserve"}

\* An order that was placed has its lines reserved, although a reservation may
\* have been repeated, answered late or refused.
OrderHasStock == \A o \in Orders : pc[o] = "placed" => reserved[o] > 0

\* Stock is taken for an order that does not exist, or taken again for one that
\* does, only by calls whose answer was lost, or if the order died before its
\* commit.
LeaksNeedLoss ==
    \A o \in Orders :
        reserved[o] <= Cardinality(StrayReserves(o)) +
                       IF pc[o] \in {"commit", "placed", "crashed"} THEN 1 ELSE 0

\* Orders that check a voucher or a flash sale before they consume it, and
\* repeat what was not answered, never take more than there is.
PromotionsBounded ==
    /\ \A v \in Vouchers : used[v] <= UsageLimit[v]
    /\ \A p \in Products : sold[p] <= SaleQuantity[p]

\* The units of p in the reservations of the log, one token each.
TakenUnits(p) ==
    UNION {({o} \X (1..reserved[o])) \X (1..Payload[o].units[p]) : o \in Orders}

\* Below zero by no more than what the lines of one order that name p add to the
\* largest of them.
NotTooLow(p, n) ==
    n >= 0 \/ \E o \in Orders : n >= Payload[o].largest[p] - Payload[o].units[p]

\* A product's stock is what was there less what the log says, unless staff
\* wrote it, and never lower than the check of single lines allows.
StockAccounted ==
    \A p \in Products :
        /\ p \notin edited => stock[p] = Stock[p] - Cardinality(TakenUnits(p))
        /\ NotTooLow(p, stock[p])

\* Support for the proofs.  The reservation precedes the commit.
ReservedFirst ==
    \A o \in Orders : pc[o] \in {"commit", "placed"} => reserved[o] > 0

\* Each reservation was answered to its caller, or is a stray call's.
LateReserves(o) == {c \in executed : c[1] = o /\ c[2] = "reserve"}
LeaksFollow ==
    /\ IsFiniteSet(stray)
    /\ \A o \in Orders :
          reserved[o] <= Cardinality(LateReserves(o)) +
                         IF pc[o] \in {"commit", "placed", "crashed"} THEN 1 ELSE 0

\* The inductive invariant behind the theorems of LegacyOrdersProofs.
IInv == TypeOK /\ ReservedFirst /\ LeaksFollow /\ PromotionsBounded

\* And what has to be added for StockAccounted: an edit that waits to be saved
\* holds a stock that was there.
StockInv ==
    /\ StockAccounted
    /\ \A p \in Products : IsFiniteSet(TakenUnits(p))
    /\ \A e \in edits : NotTooLow(e.product, e.stock)
=============================================================================
