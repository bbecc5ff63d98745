------------------------------- MODULE Carts -------------------------------
(***************************************************************************)
(* The cart of a customer and the checkouts that turn it into orders, in   *)
(* either shop.                                                            *)
(*                                                                         *)
(* The UUID shop keeps it in Redis, seven days from the last addition: how *)
(* long that is, the model does not say.  Its checkout reads the cart, and *)
(* start_checkout clears it inside the transaction that creates the order  *)
(* and may still roll back.  The integer-id shop keeps rows in             *)
(* cart-service.  Its gateway reads the cart, posts an order, and deletes  *)
(* the cart if the answer says that the order is there.                    *)
(*                                                                         *)
(* Data: one product.  Each unit of it that a request adds is told apart   *)
(* from the others; the code only knows how many they are, in cart-service *)
(* by adding to the number it read.                                        *)
(***************************************************************************)
EXTENDS FiniteSets

CONSTANTS
    Units,       \* each is added once at most
    Checkouts    \* submissions of the checkout page

VARIABLES
    shop,       \* "uuid" or "integer"
    cart,       \* the units in it
    added,      \* the units that were ever put in
    removed,    \* those the customer took out
    expired,    \* those that were in a cart of Redis when it expired
    adding,     \* integer shop: add_item between its read and its save
    raced,      \* units whose addition met another one of the same row
    checkout,   \* of each checkout: its step, what it read, whether it cleared
    orders,     \* what each checkout has ordered
    earlier     \* the checkouts that were over when it read

adds == <<added, removed, expired, adding, raced>>
checkouts == <<checkout, orders, earlier>>
vars == <<shop, cart, adds, checkouts>>

Steps == {"idle", "read", "cleared", "placed", "done", "failed"}
Over == {"done", "failed"}

TypeOK ==
    /\ shop \in {"uuid", "integer"}
    /\ cart \subseteq Units /\ added \subseteq Units
    /\ removed \subseteq Units /\ expired \subseteq Units /\ raced \subseteq Units
    /\ adding \subseteq [unit : Units, read : SUBSET Units, row : BOOLEAN]
    /\ checkout \in [Checkouts -> [at : Steps, items : SUBSET Units, cleared : BOOLEAN]]
    /\ orders \in [Checkouts -> SUBSET Units]
    /\ earlier \in [Checkouts -> SUBSET Checkouts]

Init ==
    /\ shop \in {"uuid", "integer"}
    /\ cart = {} /\ added = {} /\ removed = {} /\ expired = {}
    /\ adding = {} /\ raced = {}
    /\ checkout = [c \in Checkouts |-> [at |-> "idle", items |-> {}, cleared |-> FALSE]]
    /\ orders = [c \in Checkouts |-> {}]
    /\ earlier = [c \in Checkouts |-> {}]

------------------------------------------------------------------------------
\* Adding and removing

\* hincrby; also the row that add_item creates, whose key is unique.
AddAtOnce(u) ==
    /\ u \notin added
    /\ shop = "uuid" \/ cart = {}
    /\ cart' = cart \union {u}
    /\ added' = added \union {u}
    /\ UNCHANGED <<shop, removed, expired, adding, raced, checkouts>>

\* add_item of a product that has a row: read, then written with the sum, unless
\* the row was deleted.
BeginAdd(u) ==
    /\ shop = "integer" /\ cart # {}
    /\ u \notin added /\ \A a \in adding : a.unit # u
    /\ adding' = adding \union {[unit |-> u, read |-> cart, row |-> TRUE]}
    /\ raced' = IF adding = {} THEN raced
                ELSE raced \union cart \union {u} \union {a.unit : a \in adding}
    /\ UNCHANGED <<shop, cart, added, removed, expired, checkouts>>

\* Mutant: a row that was deleted is inserted again.
SaveDeleted(a) ==
    /\ cart' = a.read \union {a.unit}
    /\ added' = added \union {a.unit}
    /\ adding' = adding \ {a}
    /\ UNCHANGED <<shop, removed, expired, raced, checkouts>>

SaveAdd(a) ==
    /\ a.row
    /\ cart' = a.read \union {a.unit}
    /\ added' = added \union {a.unit}
    /\ adding' = adding \ {a}
    /\ UNCHANGED <<shop, removed, expired, raced, checkouts>>
AddFails(a) ==
    /\ adding' = adding \ {a}
    /\ UNCHANGED <<shop, cart, added, removed, expired, raced, checkouts>>

\* The rows are gone, and with them those that an add_item has read.
Emptied ==
    /\ cart' = {}
    /\ adding' = {[a EXCEPT !.row = FALSE] : a \in adding}

\* hdel and remove_item; clearing the cart by hand is no different.
Remove ==
    /\ cart # {}
    /\ Emptied
    /\ removed' = removed \union cart
    /\ UNCHANGED <<shop, added, expired, raced, checkouts>>

\* Redis drops the key, the whole cart, when nothing was added for long enough.
Expire ==
    /\ shop = "uuid" /\ cart # {}
    /\ Emptied
    /\ expired' = expired \union cart
    /\ UNCHANGED <<shop, added, removed, raced, checkouts>>

\* update_item writes the number it is given, lower or higher, whatever it has
\* become meanwhile; the sum of an add_item that has read the row writes over it.
SetQuantity ==
    /\ shop = "integer" /\ cart # {}
    /\ \/ \E kept \in (SUBSET cart) \ {{}} :
             /\ cart' = kept
             /\ removed' = removed \union (cart \ kept)
             /\ UNCHANGED <<added, raced>>
       \/ \E more \in SUBSET {u \in Units \ added : \A a \in adding : a.unit # u} :
             /\ cart' = cart \union more
             /\ added' = added \union more
             /\ raced' = IF adding = {} THEN raced ELSE raced \union more
             /\ UNCHANGED removed
    /\ UNCHANGED <<shop, expired, adding, checkouts>>

------------------------------------------------------------------------------
\* Checkout

Go(c, step) == checkout' = [checkout EXCEPT ![c].at = step]

\* The cart is read; an empty one is refused.
ReadCart(c) ==
    /\ checkout[c].at = "idle" /\ cart # {}
    /\ checkout' = [checkout EXCEPT ![c].at = "read", ![c].items = cart]
    /\ earlier' = [earlier EXCEPT ![c] = {d \in Checkouts : checkout[d].at \in Over}]
    /\ UNCHANGED <<shop, cart, adds, orders>>

\* Mutant: the cart is deleted whatever became of the order.
FailAndClear(c) ==
    /\ checkout[c].at = "read"
    /\ cart' = {}
    /\ Go(c, "failed")
    /\ UNCHANGED <<shop, adds, orders, earlier>>

\* A price or a variant is missing, the order is refused, the process dies.
Fail(c) ==
    /\ checkout[c].at = "read"
    /\ Go(c, "failed")
    /\ UNCHANGED <<shop, cart, adds, orders, earlier>>

Clear(c, step) ==
    /\ Emptied
    /\ checkout' = [checkout EXCEPT ![c].at = step, ![c].cleared = TRUE]
    /\ UNCHANGED <<shop, added, removed, expired, raced, earlier>>

\* UUID shop: clear_cart is the last statement of the transaction.
ClearInTransaction(c) ==
    /\ shop = "uuid" /\ checkout[c].at = "read"
    /\ Clear(c, "cleared")
    /\ UNCHANGED orders
CommitCheckout(c) ==
    /\ checkout[c].at = "cleared"
    /\ orders' = [orders EXCEPT ![c] = checkout[c].items]
    /\ Go(c, "done")
    /\ UNCHANGED <<shop, cart, adds, earlier>>
RollBack(c) ==
    /\ checkout[c].at = "cleared"
    /\ Go(c, "failed")
    /\ UNCHANGED <<shop, cart, adds, orders, earlier>>

\* Integer shop: the order is placed, and the gateway hears of it, or not, or
\* dies before it deletes the cart.
PlaceOrder(c) ==
    /\ shop = "integer" /\ checkout[c].at = "read"
    /\ orders' = [orders EXCEPT ![c] = checkout[c].items]
    /\ \E step \in {"placed", "failed"} : Go(c, step)
    /\ UNCHANGED <<shop, cart, adds, earlier>>
DeleteCart(c) ==
    /\ checkout[c].at = "placed"
    /\ \/ Clear(c, "done") /\ UNCHANGED orders
       \/ Go(c, "failed") /\ UNCHANGED <<shop, cart, adds, orders, earlier>>

Next ==
    \/ \E u \in Units : AddAtOnce(u) \/ BeginAdd(u)
    \/ \E a \in adding : SaveAdd(a) \/ AddFails(a)
    \/ Remove \/ Expire \/ SetQuantity
    \/ \E c \in Checkouts :
          \/ ReadCart(c) \/ Fail(c)
          \/ ClearInTransaction(c) \/ CommitCheckout(c) \/ RollBack(c)
          \/ PlaceOrder(c) \/ DeleteCart(c)

Spec == Init /\ [][Next]_vars

------------------------------------------------------------------------------

Ordered(u) == \E c \in Checkouts : u \in orders[c]

\* A unit that was put in the cart is still there, was taken out by the customer,
\* expired with the cart of the UUID shop, or was ordered; it is lost only to a
\* checkout that cleared the cart and had not seen it or, in the UUID shop, failed
\* after that, or to two additions that met.
UnitsKept ==
    \A u \in added :
        \/ u \in cart \union removed \union expired \union raced \/ Ordered(u)
        \/ \E c \in Checkouts :
              /\ checkout[c].cleared
              /\ \/ u \notin checkout[c].items
                 \/ shop = "uuid" /\ checkout[c].at \in {"cleared", "failed"}

\* A unit is ordered twice only by checkouts that overlapped or, in the integer
\* shop, one whose answer was lost.
OrderedOnce ==
    \A c, d \in Checkouts :
        c # d /\ orders[c] \intersect orders[d] # {} =>
            \/ c \notin earlier[d] /\ d \notin earlier[c]
            \/ shop = "integer" /\ (~checkout[c].cleared \/ ~checkout[d].cleared)

\* Support for the proofs.  What the step of a checkout says of its order.
StepsFollow ==
    \A c \in Checkouts :
        LET k == checkout[c]
        IN  /\ k.items \subseteq added /\ orders[c] \subseteq k.items
            /\ k.at \in {"idle", "read", "cleared"} => orders[c] = {}
            /\ k.at \in {"idle", "read", "placed"} => ~k.cleared
            /\ k.at = "cleared" => k.cleared /\ shop = "uuid"
            /\ k.at = "placed" => orders[c] = k.items /\ shop = "integer"
            /\ shop = "uuid" /\ orders[c] # {} => k.cleared

\* An add_item whose row is still there adds a unit that was never in the cart.
AddsFollow ==
    /\ cart \subseteq added
    /\ \A a \in adding :
          /\ shop = "integer" /\ a.read \subseteq added
          /\ a.row => cart # {} /\ a.unit \notin added
    /\ \A a, b \in adding : a.unit = b.unit => a = b

\* What it has read and what the others have made of the cart since differ only
\* by what was taken out or raced.
ReadsAgree ==
    \A a \in {x \in adding : x.row} :
        /\ cart \subseteq a.read \union raced \union removed
        /\ a.read \subseteq cart \union raced \union removed
        /\ \A b \in {x \in adding : x.row} \ {a} :
              a.unit \in raced /\ b.read \subseteq a.read \union raced \union removed

\* A checkout that cleared the cart has taken its units out for good: no later
\* one reads them.
ClearedGone ==
    \A c \in Checkouts : checkout[c].cleared =>
        /\ checkout[c].items \intersect cart = {}
        /\ \A a \in adding : a.row => checkout[c].items \intersect a.read = {}
        /\ \A d \in Checkouts :
              c \in earlier[d] => checkout[c].items \intersect checkout[d].items = {}
EarlierOver == \A c, d \in Checkouts : c \in earlier[d] => checkout[c].at \in Over

\* The inductive invariant behind the theorems of ShopProofs.
IInv ==
    /\ TypeOK
    /\ StepsFollow
    /\ AddsFollow
    /\ ReadsAgree
    /\ ClearedGone
    /\ EarlierOver
    /\ UnitsKept
=============================================================================
