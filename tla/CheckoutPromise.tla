--------------------------- MODULE CheckoutPromise ---------------------------
(***************************************************************************)
(* What a checkout promises about an order, to the customer and to the     *)
(* shop, whatever order-service, inventory-service and the payments do in  *)
(* between.  Goods are held only for an order that is running, nobody pays *)
(* before, and nothing is completed or sold that was not paid; units are   *)
(* sold or given back once, and an order that was completed is undone only *)
(* by a payment that failed.                                               *)
(*                                                                         *)
(* That a cancelled order sells nothing, or a completed one gives nothing  *)
(* back, is not promised: units may be given back at any time, for a       *)
(* reservation expires whether or not its order goes on.                   *)
(***************************************************************************)

CONSTANT Orders

VARIABLES
    order,    \* how far the order is
    goods,    \* what became of its units
    paid,     \* orders that were paid
    refused   \* orders of which a payment failed

promise == <<order, goods, paid, refused>>

Init ==
    /\ order = [o \in Orders |-> "none"]
    /\ goods = [o \in Orders |-> "none"]
    /\ paid = {} /\ refused = {}

Place(o) ==
    /\ order[o] = "none"
    /\ order' = [order EXCEPT ![o] = "running"]
    /\ UNCHANGED <<goods, paid, refused>>

Hold(o) ==
    /\ order[o] = "running" /\ goods[o] = "none"
    /\ goods' = [goods EXCEPT ![o] = "held"]
    /\ UNCHANGED <<order, paid, refused>>
GiveBack(o) ==
    /\ goods[o] = "held"
    /\ goods' = [goods EXCEPT ![o] = "returned"]
    /\ UNCHANGED <<order, paid, refused>>
Sell(o) ==
    /\ goods[o] = "held" /\ o \in paid
    /\ goods' = [goods EXCEPT ![o] = "sold"]
    /\ UNCHANGED <<order, paid, refused>>

\* A customer may fail to pay, and pay after all, and be slow.
Pay(o) ==
    /\ goods[o] # "none"
    /\ paid' = paid \union {o}
    /\ UNCHANGED <<order, goods, refused>>
Refuse(o) ==
    /\ goods[o] # "none"
    /\ refused' = refused \union {o}
    /\ UNCHANGED <<order, goods, paid>>

Complete(o) ==
    /\ order[o] = "running" /\ o \in paid
    /\ order' = [order EXCEPT ![o] = "completed"]
    /\ UNCHANGED <<goods, paid, refused>>
Cancel(o) ==
    /\ goods[o] # "none"
    /\ order[o] = "running" \/ (order[o] = "completed" /\ o \in refused)
    /\ order' = [order EXCEPT ![o] = "cancelled"]
    /\ UNCHANGED <<goods, paid, refused>>

Next ==
    \E o \in Orders :
        \/ Place(o) \/ Complete(o) \/ Cancel(o)
        \/ Hold(o) \/ GiveBack(o) \/ Sell(o)
        \/ Pay(o) \/ Refuse(o)

Spec == Init /\ [][Next]_promise
=============================================================================
