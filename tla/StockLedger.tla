----------------------------- MODULE StockLedger -----------------------------
(***************************************************************************)
(* What inventory-service promises its callers about an order, however its *)
(* transactions interleave: the units an order asked for leave the shelf   *)
(* together, and then either all of them are sold or all of them are put   *)
(* back, once and for good.  No keys, no retries, no statuses to overwrite.*)
(***************************************************************************)
EXTENDS Integers

CONSTANTS
    Variants,
    Orders,
    MaxQty     \* largest quantity an order may ask of a variant

VARIABLES
    onSale,    \* units of a variant anyone may still reserve
    supplied,  \* units of a variant that purchases and corrections brought in
    units,     \* units of a variant an order reserved
    phase      \* what became of them

ledger == <<onSale, supplied, units, phase>>

Phases == {"none", "held", "sold", "returned"}

Init ==
    /\ onSale = [v \in Variants |-> 0]
    /\ supplied = [v \in Variants |-> 0]
    /\ units = [o \in Orders |-> [v \in Variants |-> 0]]
    /\ phase = [o \in Orders |-> "none"]

\* Goods arrive or are written off; the shelf follows.
Supply(v) ==
    /\ onSale' = [onSale EXCEPT ![v] = onSale[v] + (supplied'[v] - supplied[v])]
    /\ supplied' = [supplied EXCEPT ![v] = supplied'[v]]
    /\ UNCHANGED <<units, phase>>

\* Only units that are on the shelf can be held.
Hold(o) ==
    /\ phase[o] = "none"
    /\ \E r \in [Variants -> 0..MaxQty] :
          /\ \A v \in Variants : r[v] > 0 => onSale[v] >= r[v]
          /\ onSale' = [v \in Variants |-> onSale[v] - r[v]]
          /\ units' = [units EXCEPT ![o] = r]
    /\ phase' = [phase EXCEPT ![o] = "held"]
    /\ UNCHANGED supplied

Sell(o) ==
    /\ phase[o] = "held"
    /\ phase' = [phase EXCEPT ![o] = "sold"]
    /\ UNCHANGED <<onSale, supplied, units>>

GiveBack(o) ==
    /\ phase[o] = "held"
    /\ phase' = [phase EXCEPT ![o] = "returned"]
    /\ onSale' = [v \in Variants |-> onSale[v] + units[o][v]]
    /\ UNCHANGED <<supplied, units>>

Next ==
    \/ \E v \in Variants : Supply(v)
    \/ \E o \in Orders : Hold(o) \/ Sell(o) \/ GiveBack(o)

Spec == Init /\ [][Next]_ledger
==============================================================================
