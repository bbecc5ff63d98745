------------------------------ MODULE MCOrders ------------------------------
(***************************************************************************)
(* Three parts, checked side by side: the checkout saga (OrderSaga),       *)
(* shipping a paid order of the integer-id shop, and the circuit breaker   *)
(* of the calls between services.  They share no state; the behaviours of  *)
(* one part are those in which only that part takes steps, and a part that *)
(* takes none stays in its initial state.                                  *)
(***************************************************************************)
EXTENDS OrderSaga

CONSTANTS
    OrdersShipped, RetryLimit, MaxDuplicates,   \* Shipping
    Callers, FailThreshold, MaxRetries          \* CircuitBreaker

VARIABLES
    part,
    due, events, handling, running, unheard, shipStatus, retries, selected,
    shipment, stage, calls,
    hostUp, circuit, rested, call, copy

Ship == INSTANCE Shipping WITH Orders <- OrdersShipped
Circuit == INSTANCE CircuitBreaker

ASSUME OrdersAssumption ==
    RetryLimit \in Nat /\ FailThreshold \in Nat \ {0} /\ MaxRetries \in Nat

ship == <<due, events, handling, running, unheard, shipStatus, retries, selected,
          shipment, stage, calls>>
host == <<hostUp, circuit, rested, call, copy>>

MCInit ==
    /\ part \in {"saga", "ship", "host"}
    /\ Init /\ Ship!Init /\ Circuit!Init

MCNext ==
    /\ UNCHANGED part
    /\ \/ part = "saga" /\ Next /\ UNCHANGED <<ship, host>>
       \/ part = "ship" /\ Ship!Next /\ UNCHANGED <<vars, host>>
       \/ part = "host" /\ Circuit!Next /\ UNCHANGED <<vars, ship>>

\* In the initial state of a part none of its fair actions is enabled: a part
\* that takes no step is fair.
MCSpec ==
    /\ MCInit /\ [][MCNext]_<<part, vars, ship, host>>
    /\ Fairness /\ Ship!Fairness /\ Circuit!Fairness

------------------------------------------------------------------------------

\* payment-service shows "processing" only for a shipment that exists
\* (consume_payments, retry_failed_shipping).
ProcessingShips == Ship!ProcessingShips

\* The shipment of a paid order comes about if consumer and worker stay up in the
\* end, or the retries are used up, or the one call that tells of the failure was
\* lost (consume_payments, retry_failed_shipping).
PaidShips == Ship!PaidShips

\* The circuit of a host that stays well is closed for good (InternalClient).
Recovers == Circuit!Recovers
=============================================================================
