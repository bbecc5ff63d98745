--------------------------- MODULE InventoryProofs ---------------------------
(***************************************************************************)
(* Proofs about Inventory, for any number of variants, orders, keys and    *)
(* concurrent transactions.                                                *)
(*                                                                         *)
(* The counters are related to the reservations by counting unit tokens:   *)
(* HeldUnits(v) and SoldUnits(v) are finite sets, a reservation adds the   *)
(* disjoint block {o} \X (1..n), a settlement removes it, and the library's*)
(* cardinality facts turn that into the arithmetic of the UPDATEs.         *)
(***************************************************************************)
EXTENDS Inventory, FiniteSetTheorems, TLAPS

\* The tokens of n units of order o.
Block(o, n) == {o} \X (1..n)

\* A block of n tokens has n elements.
LEMMA BlockCardinality ==
    ASSUME NEW o, NEW n \in Nat
    PROVE  IsFiniteSet(Block(o, n)) /\ Cardinality(Block(o, n)) = n
<1>1. IsFiniteSet({o}) /\ Cardinality({o}) = 1
  BY FS_Singleton
<1>2. IsFiniteSet(1..n) /\ Cardinality(1..n) = n
  BY FS_Interval
<1>3. Cardinality(Block(o, n)) = 1 * n
  BY <1>1, <1>2, FS_Product DEF Block
<1>4. IsFiniteSet(Block(o, n))
  BY <1>1, <1>2, FS_Product DEF Block
<1> QED
  BY <1>3, <1>4

\* Adding a block that was absent, and removing one that was there.
LEMMA AddBlock ==
    ASSUME NEW S, IsFiniteSet(S), NEW o, NEW n \in Nat, S \cap Block(o, n) = {}
    PROVE  Cardinality(S \cup Block(o, n)) = Cardinality(S) + n
<1>1. Cardinality(S \cup Block(o, n)) =
        Cardinality(S) + Cardinality(Block(o, n)) - Cardinality({})
  BY BlockCardinality, FS_Union
<1>2. Cardinality(S) \in Nat
  BY FS_CardinalityType
<1> QED
  BY <1>1, <1>2, BlockCardinality, FS_EmptySet

LEMMA RemoveBlock ==
    ASSUME NEW S, IsFiniteSet(S), NEW o, NEW n \in Nat, Block(o, n) \subseteq S
    PROVE  Cardinality(S \ Block(o, n)) = Cardinality(S) - n
<1>1. S \cap Block(o, n) = Block(o, n)
  OBVIOUS
<1>2. Cardinality(S \ Block(o, n)) = Cardinality(S) - Cardinality(S \cap Block(o, n))
  BY FS_Difference
<1> QED
  BY <1>1, <1>2, BlockCardinality

\* The tokens of one status and variant are finitely many.
LEMMA UnitsFinite ==
    ASSUME NEW s, NEW v
    PROVE  IsFiniteSet(UnitsIn(s, v)) /\ Cardinality(UnitsIn(s, v)) \in Nat
<1>1. IsFiniteSet(1..MaxQty)
  BY FS_Interval, InventoryAssumption
<1>2. IsFiniteSet(Orders \X (1..MaxQty))
  BY <1>1, FS_Product, InventoryAssumption
<1>3. UnitsIn(s, v) \subseteq Orders \X (1..MaxQty)
  BY DEF UnitsIn
<1> QED
  BY <1>2, <1>3, FS_Subset, FS_CardinalityType

------------------------------------------------------------------------------

\* Type correctness, one action at a time.
LEMMA SettleType ==
    ASSUME TypeOK, NEW o \in Orders, NEW to \in Outcomes, Settle(o, to)
    PROVE  /\ known' \subseteq Variants
           /\ total' \in [Variants -> Int]
           /\ available' \in [Variants -> Int]
           /\ reserved' \in [Variants -> Int]
           /\ received' \in [Variants -> Int]
           /\ batch' \in [Orders -> Statuses]
           /\ qty' \in [Orders -> Requests]
           /\ line' \in [Orders -> [Variants -> Statuses]]
           /\ emitted' \in [Orders -> [Events -> Nat]]
<1>1. \A v \in Variants : Pending(o, v) \in Nat
  BY InventoryAssumption DEF TypeOK, Pending, Requests
<1>2. batch' \in [Orders -> Statuses] /\ line' \in [Orders -> [Variants -> Statuses]]
  BY DEF TypeOK, Settle, LineAfter, Statuses
<1>3. reserved' \in [Variants -> Int]
  BY <1>1 DEF TypeOK, Settle, LineAfter
<1>4. total' \in [Variants -> Int] /\ available' \in [Variants -> Int]
  BY <1>1 DEF TypeOK, Settle, LineAfter
<1>5. OutcomeEvent(to) \in Events
  BY DEF OutcomeEvent, Events
<1>6. emitted' \in [Orders -> [Events -> Nat]]
  BY <1>5 DEF TypeOK, Settle, LineAfter, Emit
<1> QED
  BY <1>2, <1>3, <1>4, <1>6 DEF TypeOK, Settle, LineAfter

LEMMA ReserveType ==
    ASSUME TypeOK, NEW o \in Orders, NEW r \in Requests, NEW k \in Keys, Reserve(o, r, k)
    PROVE  TypeOK'
<1>1. available' \in [Variants -> Int] /\ reserved' \in [Variants -> Int]
  BY InventoryAssumption DEF TypeOK, Reserve, Requests
<1>2. /\ batch' \in [Orders -> Statuses]
      /\ qty' \in [Orders -> Requests]
      /\ line' \in [Orders -> [Variants -> Statuses]]
  BY DEF TypeOK, Reserve, Statuses
<1>3. emitted' \in [Orders -> [Events -> Nat]]
  BY DEF TypeOK, Reserve, Emit, Events
<1> QED
  BY <1>1, <1>2, <1>3 DEF TypeOK, Reserve

LEMMA BeginSettleType ==
    ASSUME TypeOK, NEW o \in Orders, NEW to \in Outcomes, NEW k \in Keys,
           BeginSettle(o, to, k)
    PROVE  TypeOK'
BY DEF TypeOK, BeginSettle, Calls, stock, reservations

LEMMA RestockType ==
    ASSUME TypeOK, NEW v \in Variants, NEW n \in Int, Restock(v, n)
    PROVE  TypeOK'
BY DEF TypeOK, Restock, reservations

\* The keys and targets the calls use are the declared ones.
LEMMA CallKeys ==
    ASSUME NEW o \in Orders
    PROVE  /\ ClientKeys \union {ReserveKey(o)} \subseteq Keys
           /\ ClientKeys \union {ConfirmKey(o)} \subseteq Keys
           /\ ClientKeys \union {ReleaseKey(o)} \subseteq Keys
BY DEF Keys, MessageKeys, ReserveKey, ConfirmKey, ReleaseKey

\* A step of Next is one of seven steps on named data.
LEMMA NextCases ==
    ASSUME Next
    PROVE  \/ \E v \in Variants : InitializeStock(v)
           \/ \E v \in Variants, n \in Int : Restock(v, n)
           \/ \E o \in Orders, r \in Requests :
                 \E k \in ClientKeys \union {ReserveKey(o)} : Reserve(o, r, k)
           \/ \E o \in Orders, to \in Outcomes :
                 \E k \in ClientKeys \union {ConfirmKey(o), ReleaseKey(o)} :
                    BeginSettle(o, to, k)
           \/ \E c \in inflight : CommitSettle(c)
           \/ \E c \in inflight : Rollback(c)
           \/ \E o \in Orders : Expire(o)
<1>1. ASSUME NEW v \in Variants, Adjust(v) \/ Purchase(v)
      PROVE  \E n \in Int : Restock(v, n)
  BY <1>1, InventoryAssumption DEF Adjust, Purchase
<1>2. ASSUME NEW o \in Orders, ConfirmCall(o) \/ ReleaseCall(o)
      PROVE  \E to \in Outcomes :
                \E k \in ClientKeys \union {ConfirmKey(o), ReleaseKey(o)} :
                   BeginSettle(o, to, k)
  BY <1>2 DEF ConfirmCall, ReleaseCall, Outcomes, Reasons
<1> QED
  BY <1>1, <1>2 DEF Next, ReserveCall

LEMMA NextType ==
    ASSUME TypeOK, [Next]_vars
    PROVE  TypeOK'
<1>1. CASE UNCHANGED vars
  BY <1>1 DEF TypeOK, vars, stock, reservations
<1>2. ASSUME NEW v \in Variants, InitializeStock(v)
      PROVE  TypeOK'
  BY <1>2 DEF TypeOK, InitializeStock, reservations
<1>3. ASSUME NEW v \in Variants, NEW n \in Int, Restock(v, n)
      PROVE  TypeOK'
  BY <1>3, RestockType
<1>4. ASSUME NEW o \in Orders, NEW r \in Requests,
             NEW k \in ClientKeys \union {ReserveKey(o)}, Reserve(o, r, k)
      PROVE  TypeOK'
  BY <1>4, CallKeys, ReserveType
<1>5. ASSUME NEW o \in Orders, NEW to \in Outcomes,
             NEW k \in ClientKeys \union {ConfirmKey(o), ReleaseKey(o)},
             BeginSettle(o, to, k)
      PROVE  TypeOK'
  BY <1>5, CallKeys, BeginSettleType
<1>6. ASSUME NEW c \in inflight, CommitSettle(c)
      PROVE  TypeOK'
  <2>1. c.order \in Orders /\ c.to \in Outcomes /\ c.key \in Keys
    BY DEF TypeOK, Calls
  <2>2. Settle(c.order, c.to)
    BY <1>6 DEF CommitSettle
  <2>3. processed' \subseteq Keys /\ inflight' \subseteq Calls
    BY <1>6, <2>1 DEF TypeOK, CommitSettle
  <2> QED
    BY <2>1, <2>2, <2>3, SettleType DEF TypeOK
<1>7. ASSUME NEW c \in inflight, Rollback(c)
      PROVE  TypeOK'
  BY <1>7 DEF TypeOK, Rollback, stock, reservations
<1>8. ASSUME NEW o \in Orders, Expire(o)
      PROVE  TypeOK'
  <2>1. Settle(o, "EXPIRED") /\ processed' = processed /\ inflight' = inflight
    BY <1>8 DEF Expire
  <2> QED
    BY <2>1, SettleType DEF TypeOK, Outcomes, Reasons
<1> QED
  BY <1>1, <1>2, <1>3, <1>4, <1>5, <1>6, <1>7, <1>8, NextCases

LEMMA InitType == Init => TypeOK
BY InventoryAssumption DEF Init, TypeOK, Statuses, Requests

\* Every variable keeps its type, whatever the transactions do.
THEOREM TypeCorrect == Spec => []TypeOK
BY InitType, NextType, PTL DEF Spec

------------------------------------------------------------------------------

\* A settlement takes the block of its order out of the held tokens, and a
\* confirmation puts it into the sold ones.
LEMMA SettleTokens ==
    ASSUME TypeOK, NEW o \in Orders, NEW to \in Outcomes, Settle(o, to),
           NEW v \in Variants
    PROVE  /\ Pending(o, v) \in Nat
           /\ Block(o, Pending(o, v)) \subseteq HeldUnits(v)
           /\ HeldUnits(v)' = HeldUnits(v) \ Block(o, Pending(o, v))
           /\ SoldUnits(v) \cap Block(o, Pending(o, v)) = {}
           /\ SoldUnits(v)' = IF to = "CONFIRMED"
                              THEN SoldUnits(v) \cup Block(o, Pending(o, v))
                              ELSE SoldUnits(v)
<1>1. /\ qty[o][v] \in 0..MaxQty
      /\ MaxQty \in Nat
      /\ qty' = qty
  BY InventoryAssumption DEF TypeOK, Requests, Settle, LineAfter
<1>2. Pending(o, v) \in Nat
  BY <1>1 DEF Pending
<1>3. /\ line'[o][v] = IF line[o][v] = "PENDING" THEN to ELSE line[o][v]
      /\ \A p \in Orders : p # o => line'[p][v] = line[p][v]
  BY DEF TypeOK, Settle, LineAfter
<1>4. to # "PENDING"
  BY DEF Outcomes, Reasons
<1>5. CASE line[o][v] = "PENDING"
  <2>1. Block(o, Pending(o, v)) = {u \in Orders \X (1..MaxQty) : u[1] = o /\ u[2] <= qty[o][v]}
    BY <1>1, <1>5 DEF Block, Pending
  <2> QED
    BY <1>1, <1>2, <1>3, <1>4, <1>5, <2>1 DEF HeldUnits, SoldUnits, UnitsIn
<1>6. CASE line[o][v] # "PENDING"
  <2>1. Block(o, Pending(o, v)) = {}
    BY <1>6 DEF Block, Pending
  <2> QED
    BY <1>1, <1>2, <1>3, <1>6, <2>1 DEF HeldUnits, SoldUnits, UnitsIn
<1> QED
  BY <1>5, <1>6

\* A reservation adds its block to the held tokens, which had none of it.
LEMMA ReserveTokens ==
    ASSUME TypeOK, NoBatchNoLines, NEW o \in Orders, NEW r \in Requests, NEW k,
           Reserve(o, r, k), NEW v \in Variants
    PROVE  /\ r[v] \in Nat
           /\ HeldUnits(v) \cap Block(o, r[v]) = {}
           /\ HeldUnits(v)' = HeldUnits(v) \cup Block(o, r[v])
           /\ SoldUnits(v)' = SoldUnits(v)
<1>1. r[v] \in 0..MaxQty /\ MaxQty \in Nat
  BY InventoryAssumption DEF Requests
<1>2. line[o][v] = "NONE"
  BY DEF NoBatchNoLines, Reserve
<1>3. /\ line'[o][v] = IF r[v] > 0 THEN "PENDING" ELSE "NONE"
      /\ qty'[o][v] = r[v]
      /\ \A p \in Orders : p # o => line'[p][v] = line[p][v] /\ qty'[p][v] = qty[p][v]
  BY DEF TypeOK, Reserve
<1>4. Block(o, r[v]) = {u \in Orders \X (1..MaxQty) : u[1] = o /\ u[2] <= r[v]}
  BY <1>1 DEF Block
<1> QED
  BY <1>1, <1>2, <1>3, <1>4 DEF HeldUnits, SoldUnits, UnitsIn

\* The invariant survives a settlement of an order that has a batch.
LEMMA SettleInv ==
    ASSUME IInv, NEW o \in Orders, NEW to \in Outcomes, Settle(o, to),
           batch[o] # "NONE"
    PROVE  /\ NoBatchNoLines'
           /\ NoLineWithoutUnits'
           /\ StockBalances'
           /\ ReservedIsHeld'
           /\ EveryUnitAccounted'
           /\ LinesMoveTogether'
           /\ ReservedAnnouncedOnce'
<1> USE DEF IInv
<1>1. \A p \in Orders : batch'[p] = IF p = o THEN to ELSE batch[p]
  BY DEF TypeOK, Settle, LineAfter
<1>2. to \notin {"NONE", "PENDING"}
  BY DEF Outcomes, Reasons
<1>3. NoBatchNoLines' /\ NoLineWithoutUnits'
  BY <1>1, <1>2 DEF NoBatchNoLines, NoLineWithoutUnits, Settle, LineAfter, TypeOK
<1>4. ASSUME NEW v \in Variants
      PROVE  /\ Pending(o, v) \in Nat
             /\ Cardinality(HeldUnits(v)') = Cardinality(HeldUnits(v)) - Pending(o, v)
             /\ Cardinality(SoldUnits(v)') = IF to = "CONFIRMED"
                                             THEN Cardinality(SoldUnits(v)) + Pending(o, v)
                                             ELSE Cardinality(SoldUnits(v))
  <2>1. IsFiniteSet(HeldUnits(v)) /\ IsFiniteSet(SoldUnits(v))
    BY UnitsFinite DEF HeldUnits, SoldUnits
  <2> QED
    BY <2>1, SettleTokens, AddBlock, RemoveBlock
<1>5. ASSUME NEW v \in Variants
      PROVE  /\ total[v] \in Int /\ available[v] \in Int /\ reserved[v] \in Int
             /\ reserved'[v] = reserved[v] - Pending(o, v)
             /\ total'[v] = IF to = "CONFIRMED" THEN total[v] - Pending(o, v) ELSE total[v]
             /\ available'[v] = IF to = "CONFIRMED" THEN available[v]
                                ELSE available[v] + Pending(o, v)
             /\ received'[v] = received[v] /\ received[v] \in Int
  BY DEF TypeOK, Settle, LineAfter
<1>6. StockBalances'
  BY <1>4, <1>5 DEF StockBalances
<1>7. ReservedIsHeld'
  BY <1>4, <1>5 DEF ReservedIsHeld
<1>8. EveryUnitAccounted'
  <2> SUFFICES ASSUME NEW v \in Variants
               PROVE  received'[v] = total'[v] + Cardinality(SoldUnits(v)')
    BY DEF EveryUnitAccounted
  <2>1. received[v] = total[v] + Cardinality(SoldUnits(v))
    BY DEF EveryUnitAccounted
  <2>2. Cardinality(SoldUnits(v)) \in Nat
    BY UnitsFinite DEF SoldUnits
  <2> QED
    BY <1>4, <1>5, <2>1, <2>2
<1>9. LinesMoveTogether'
  BY <1>1, <1>2 DEF LinesMoveTogether, Settle, LineAfter, TypeOK
<1>10. ReservedAnnouncedOnce'
  <2>1. OutcomeEvent(to) # "reserved"
    BY DEF OutcomeEvent
  <2>2. \A p \in Orders : emitted'[p]["reserved"] = emitted[p]["reserved"]
    BY <2>1 DEF Settle, LineAfter, Emit, TypeOK, Events
  <2> QED
    BY <1>1, <1>2, <2>2 DEF ReservedAnnouncedOnce
<1> QED
  BY <1>3, <1>6, <1>7, <1>8, <1>9, <1>10

\* The invariant survives a reservation.
LEMMA ReserveInv ==
    ASSUME IInv, NEW o \in Orders, NEW r \in Requests,
           NEW k \in ClientKeys \union {ReserveKey(o)}, Reserve(o, r, k)
    PROVE  IInv'
<1> USE DEF IInv
<1>1. TypeOK'
  BY CallKeys, ReserveType
<1>2. \A p \in Orders : batch'[p] = IF p = o THEN "PENDING" ELSE batch[p]
  BY DEF TypeOK, Reserve
<1>3. NoBatchNoLines' /\ NoLineWithoutUnits'
  BY <1>2, InventoryAssumption DEF NoBatchNoLines, NoLineWithoutUnits, Reserve, Requests, TypeOK
<1>4. InFlightFound'
  BY <1>2 DEF InFlightFound, Reserve, TypeOK, Calls
<1>5. ASSUME NEW v \in Variants
      PROVE  /\ r[v] \in Nat
             /\ Cardinality(HeldUnits(v)') = Cardinality(HeldUnits(v)) + r[v]
             /\ SoldUnits(v)' = SoldUnits(v)
  <2>1. IsFiniteSet(HeldUnits(v))
    BY UnitsFinite DEF HeldUnits
  <2> QED
    BY <2>1, ReserveTokens, AddBlock
<1>6. ASSUME NEW v \in Variants
      PROVE  /\ available[v] \in Int /\ reserved[v] \in Int
             /\ available'[v] = available[v] - r[v] /\ reserved'[v] = reserved[v] + r[v]
             /\ total'[v] = total[v] /\ received'[v] = received[v]
  BY DEF TypeOK, Reserve
<1>7. StockBalances'
  BY <1>5, <1>6 DEF StockBalances
<1>8. ReservedIsHeld'
  BY <1>5, <1>6 DEF ReservedIsHeld
<1>9. EveryUnitAccounted'
  BY <1>5, <1>6 DEF EveryUnitAccounted
<1>10. LinesMoveTogether'
  BY <1>2 DEF LinesMoveTogether, Reserve, TypeOK
<1>11. ReservedAnnouncedOnce'
  <2>1. \A p \in Orders : emitted'[p]["reserved"] =
           IF p = o THEN emitted[o]["reserved"] + 1 ELSE emitted[p]["reserved"]
    BY DEF Reserve, Emit, TypeOK, Events
  <2>2. emitted[o]["reserved"] = 0
    BY DEF ReservedAnnouncedOnce, Reserve
  <2> QED
    BY <1>2, <2>1, <2>2 DEF ReservedAnnouncedOnce
<1>12. KeyMeansReserved'
  <2>1. \A p \in Orders : k = ReserveKey(p) => p = o
    BY InventoryAssumption DEF ReserveKey
  <2> QED
    BY <1>2, <2>1 DEF KeyMeansReserved, Reserve
<1> QED
  BY <1>1, <1>3, <1>4, <1>7, <1>8, <1>9, <1>10, <1>11, <1>12

\* What the steps that touch neither lines nor counters need.
LEMMA QuietInv ==
    ASSUME IInv, UNCHANGED <<reservations, emitted, reserved>>,
           \A v \in Variants : /\ total'[v] - total[v] = available'[v] - available[v]
                               /\ total'[v] - total[v] = received'[v] - received[v],
           TypeOK'
    PROVE  /\ NoBatchNoLines'
           /\ NoLineWithoutUnits'
           /\ StockBalances'
           /\ ReservedIsHeld'
           /\ EveryUnitAccounted'
           /\ LinesMoveTogether'
           /\ ReservedAnnouncedOnce'
<1> USE DEF IInv, reservations
<1>1. /\ NoBatchNoLines' /\ NoLineWithoutUnits'
      /\ LinesMoveTogether' /\ ReservedAnnouncedOnce'
  BY DEF NoBatchNoLines, NoLineWithoutUnits, LinesMoveTogether, ReservedAnnouncedOnce
<1>2. \A v \in Variants : HeldUnits(v)' = HeldUnits(v) /\ SoldUnits(v)' = SoldUnits(v)
  BY DEF HeldUnits, SoldUnits, UnitsIn
<1>3. ReservedIsHeld'
  BY <1>2 DEF ReservedIsHeld
<1>4. StockBalances'
  <2> SUFFICES ASSUME NEW v \in Variants
               PROVE  total'[v] = available'[v] + reserved'[v]
    BY DEF StockBalances
  <2>1. total[v] = available[v] + reserved[v]
    BY DEF StockBalances
  <2>2. /\ total[v] \in Int /\ total'[v] \in Int
        /\ available[v] \in Int /\ available'[v] \in Int /\ reserved[v] \in Int
    BY DEF TypeOK
  <2>3. reserved'[v] = reserved[v] /\ total'[v] - total[v] = available'[v] - available[v]
    OBVIOUS
  <2> HIDE DEF IInv, reservations
  <2> QED
    BY <2>1, <2>2, <2>3
<1>5. EveryUnitAccounted'
  <2> SUFFICES ASSUME NEW v \in Variants
               PROVE  received'[v] = total'[v] + Cardinality(SoldUnits(v)')
    BY DEF EveryUnitAccounted
  <2>1. received[v] = total[v] + Cardinality(SoldUnits(v))
    BY DEF EveryUnitAccounted
  <2>2. Cardinality(SoldUnits(v)) \in Nat
    BY UnitsFinite DEF SoldUnits
  <2>3. /\ total[v] \in Int /\ total'[v] \in Int
        /\ received[v] \in Int /\ received'[v] \in Int
    BY DEF TypeOK
  <2> QED
    BY <1>2, <2>1, <2>2, <2>3
<1> QED
  BY <1>1, <1>3, <1>4, <1>5

\* The inductive step, one case per kind of transaction.
LEMMA NextInv ==
    ASSUME IInv, [Next]_vars
    PROVE  IInv'
<1>0. TypeOK'
  BY NextType DEF IInv
<1>1. CASE UNCHANGED vars
  <2>1. InFlightFound' /\ KeyMeansReserved'
    BY <1>1 DEF IInv, InFlightFound, KeyMeansReserved, vars, stock, reservations
  <2>2. /\ UNCHANGED <<reservations, emitted, reserved>>
        /\ \A v \in Variants : /\ total'[v] - total[v] = available'[v] - available[v]
                               /\ total'[v] - total[v] = received'[v] - received[v]
    BY <1>1 DEF IInv, TypeOK, vars, stock, reservations
  <2> QED
    BY <1>0, <2>1, <2>2, QuietInv DEF IInv
<1>2. ASSUME NEW v \in Variants, InitializeStock(v)
      PROVE  IInv'
  <2>1. InFlightFound' /\ KeyMeansReserved'
    BY <1>2 DEF IInv, InFlightFound, KeyMeansReserved, InitializeStock, reservations
  <2>2. /\ UNCHANGED <<reservations, emitted, reserved>>
        /\ \A w \in Variants : /\ total'[w] - total[w] = available'[w] - available[w]
                               /\ total'[w] - total[w] = received'[w] - received[w]
    BY <1>2 DEF IInv, TypeOK, InitializeStock, reservations
  <2> QED
    BY <1>0, <2>1, <2>2, QuietInv DEF IInv
<1>3. ASSUME NEW v \in Variants, NEW n \in Int, Restock(v, n)
      PROVE  IInv'
  <2>1. InFlightFound' /\ KeyMeansReserved'
    BY <1>3 DEF IInv, InFlightFound, KeyMeansReserved, Restock, reservations
  <2>2. /\ UNCHANGED <<reservations, emitted, reserved>>
        /\ \A w \in Variants : /\ total'[w] - total[w] = available'[w] - available[w]
                               /\ total'[w] - total[w] = received'[w] - received[w]
    BY <1>3 DEF IInv, TypeOK, Restock, reservations
  <2> QED
    BY <1>0, <2>1, <2>2, QuietInv DEF IInv
<1>4. ASSUME NEW o \in Orders, NEW r \in Requests,
             NEW k \in ClientKeys \union {ReserveKey(o)}, Reserve(o, r, k)
      PROVE  IInv'
  BY <1>4, ReserveInv
<1>5. ASSUME NEW o \in Orders, NEW to \in Outcomes,
             NEW k \in ClientKeys \union {ConfirmKey(o), ReleaseKey(o)},
             BeginSettle(o, to, k)
      PROVE  IInv'
  <2>1. \A p \in Orders : k # ReserveKey(p)
    BY InventoryAssumption DEF ReserveKey, ConfirmKey, ReleaseKey
  <2>2. InFlightFound'
    BY <1>5, <2>1 DEF IInv, InFlightFound, BeginSettle, reservations
  <2>3. KeyMeansReserved'
    BY <1>5, <2>1 DEF IInv, KeyMeansReserved, BeginSettle, reservations
  <2>4. /\ UNCHANGED <<reservations, emitted, reserved>>
        /\ \A v \in Variants : /\ total'[v] - total[v] = available'[v] - available[v]
                               /\ total'[v] - total[v] = received'[v] - received[v]
    BY <1>5 DEF IInv, TypeOK, BeginSettle, reservations, stock
  <2> QED
    BY <1>0, <2>2, <2>3, <2>4, QuietInv DEF IInv
<1>6. ASSUME NEW c \in inflight, CommitSettle(c)
      PROVE  IInv'
  <2>1. c.order \in Orders /\ c.to \in Outcomes /\ batch[c.order] # "NONE"
    BY DEF IInv, TypeOK, Calls, InFlightFound
  <2>2. Settle(c.order, c.to)
    BY <1>6 DEF CommitSettle
  <2>3. \A p \in Orders : batch[p] # "NONE" => batch'[p] # "NONE"
    BY <2>1, <2>2 DEF IInv, TypeOK, Settle, LineAfter, Outcomes, Reasons
  <2>4. InFlightFound' /\ KeyMeansReserved'
    BY <1>6, <2>3 DEF IInv, TypeOK, Calls, InFlightFound, KeyMeansReserved, CommitSettle
  <2> QED
    BY <1>0, <2>1, <2>2, <2>4, SettleInv DEF IInv
<1>7. ASSUME NEW c \in inflight, Rollback(c)
      PROVE  IInv'
  <2>1. InFlightFound' /\ KeyMeansReserved'
    BY <1>7 DEF IInv, InFlightFound, KeyMeansReserved, Rollback, reservations
  <2>2. /\ UNCHANGED <<reservations, emitted, reserved>>
        /\ \A v \in Variants : /\ total'[v] - total[v] = available'[v] - available[v]
                               /\ total'[v] - total[v] = received'[v] - received[v]
    BY <1>7 DEF IInv, TypeOK, Rollback, reservations, stock
  <2> QED
    BY <1>0, <2>1, <2>2, QuietInv DEF IInv
<1>8. ASSUME NEW o \in Orders, Expire(o)
      PROVE  IInv'
  <2>1. /\ Settle(o, "EXPIRED") /\ batch[o] = "PENDING"
        /\ UNCHANGED <<processed, inflight>>
    BY <1>8 DEF Expire
  <2>2. "EXPIRED" \in Outcomes
    BY DEF Outcomes, Reasons
  <2>3. \A p \in Orders : batch[p] # "NONE" => batch'[p] # "NONE"
    BY <2>1 DEF IInv, TypeOK, Settle, LineAfter
  <2>4. InFlightFound' /\ KeyMeansReserved'
    BY <2>1, <2>3 DEF IInv, TypeOK, Calls, InFlightFound, KeyMeansReserved
  <2> QED
    BY <1>0, <2>1, <2>2, <2>4, SettleInv DEF IInv
<1> QED
  BY <1>1, <1>2, <1>3, <1>4, <1>5, <1>6, <1>7, <1>8, NextCases

LEMMA InitInv == Init => IInv
<1> SUFFICES ASSUME Init PROVE IInv
  OBVIOUS
<1>1. \A v \in Variants : HeldUnits(v) = {} /\ SoldUnits(v) = {}
  BY DEF Init, HeldUnits, SoldUnits, UnitsIn
<1>2. \A v \in Variants : Cardinality(HeldUnits(v)) = 0 /\ Cardinality(SoldUnits(v)) = 0
  BY <1>1, FS_EmptySet
<1>3. StockBalances /\ ReservedIsHeld /\ EveryUnitAccounted
  BY <1>2 DEF Init, StockBalances, ReservedIsHeld, EveryUnitAccounted
<1>4. /\ NoBatchNoLines /\ NoLineWithoutUnits /\ InFlightFound
      /\ LinesMoveTogether /\ KeyMeansReserved
  BY DEF Init, NoBatchNoLines, NoLineWithoutUnits, InFlightFound, LinesMoveTogether, KeyMeansReserved
<1>5. ReservedAnnouncedOnce
  BY DEF Init, ReservedAnnouncedOnce, Events
<1> QED
  BY <1>3, <1>4, <1>5, InitType DEF IInv

LEMMA Inductive == Spec => []IInv
BY InitInv, NextInv, PTL DEF Spec

\* The counters agree: what the warehouse holds is on sale or reserved.
THEOREM CountersBalance == Spec => []StockBalances
BY Inductive, PTL DEF IInv

\* reserved_stock counts exactly the units of PENDING lines, through every race
\* of confirm, release, expiry and their retries.
THEOREM ReservationsExact == Spec => []ReservedIsHeld
BY Inductive, PTL DEF IInv

\* No unit is lost or invented: movements in = stock on hand + confirmed lines.
THEOREM NothingLost == Spec => []EveryUnitAccounted
BY Inductive, PTL DEF IInv

\* The lines of an order leave PENDING together and with one outcome.
THEOREM AllOrNothing == Spec => []LinesMoveTogether
BY Inductive, PTL DEF IInv

\* A reservation is announced once and only once it exists, however often its
\* message is delivered.
THEOREM AnnouncedOnce == Spec => []ReservedAnnouncedOnce
BY Inductive, PTL DEF IInv

\* A checkout's idempotency key is used only once its reservation exists.
THEOREM KeysHonest == Spec => []KeyMeansReserved
BY Inductive, PTL DEF IInv

\* A line that was confirmed or given back keeps its outcome, whatever stale
\* batch status a later call acted on.
THEOREM SettledForGood == Spec => LineSettledOnce
<1>1. ASSUME TypeOK, [Next]_vars, NEW o \in Orders, NEW v \in Variants,
             line[o][v] \in Outcomes, NoBatchNoLines
      PROVE  line'[o][v] = line[o][v]
  <2> USE <1>1 DEF reservations
  <2>1. CASE UNCHANGED reservations
    BY <2>1
  <2>2. ASSUME NEW p \in Orders, NEW to \in Outcomes, Settle(p, to)
        PROVE  line'[o][v] = line[o][v]
    BY <2>2 DEF Settle, LineAfter, TypeOK, Outcomes, Reasons
  <2>3. ASSUME NEW p \in Orders, NEW r \in Requests,
               NEW k \in ClientKeys \union {ReserveKey(p)}, Reserve(p, r, k)
        PROVE  line'[o][v] = line[o][v]
    <3>1. p # o
      BY <2>3 DEF NoBatchNoLines, Reserve, Outcomes, Reasons
    <3> QED
      BY <2>3, <3>1 DEF Reserve, TypeOK
  <2>4. ASSUME NEW c \in inflight, CommitSettle(c)
        PROVE  line'[o][v] = line[o][v]
    BY <2>2, <2>4 DEF CommitSettle, TypeOK, Calls
  <2>5. ASSUME NEW p \in Orders, Expire(p)
        PROVE  line'[o][v] = line[o][v]
    BY <2>2, <2>5 DEF Expire, Outcomes, Reasons
  <2>6. CASE UNCHANGED vars
    BY <2>1, <2>6 DEF vars
  <2>7. ASSUME NEW w \in Variants, InitializeStock(w)
        PROVE  line'[o][v] = line[o][v]
    BY <2>7 DEF InitializeStock
  <2>8. ASSUME NEW w \in Variants, NEW n \in Int, Restock(w, n)
        PROVE  line'[o][v] = line[o][v]
    BY <2>8 DEF Restock
  <2>9. ASSUME NEW p \in Orders, NEW to \in Outcomes,
               NEW k \in ClientKeys \union {ConfirmKey(p), ReleaseKey(p)},
               BeginSettle(p, to, k)
        PROVE  line'[o][v] = line[o][v]
    BY <2>9 DEF BeginSettle
  <2>10. ASSUME NEW c \in inflight, Rollback(c)
         PROVE  line'[o][v] = line[o][v]
    BY <2>10 DEF Rollback
  <2> QED
    BY <2>3, <2>4, <2>5, <2>6, <2>7, <2>8, <2>9, <2>10, NextCases
<1>2. IInv /\ [Next]_vars
        => [\A o \in Orders, v \in Variants :
               line[o][v] \in Outcomes => line'[o][v] = line[o][v]]_vars
  BY <1>1 DEF IInv
<1> QED
  BY <1>2, Inductive, PTL DEF Spec, LineSettledOnce

\* No order takes the last unit twice: only an admin's correction can push
\* available_stock below zero.
THEOREM NoOversell == Spec => NeverOversold
<1>1. ASSUME TypeOK, [Next]_vars, NEW v \in Variants,
             available'[v] < available[v], received'[v] = received[v]
      PROVE  available'[v] >= 0
  <2> USE <1>1
  <2>1. available[v] \in Int /\ received[v] \in Int /\ MaxQty \in Nat
    BY InventoryAssumption DEF TypeOK
  <2>2. CASE UNCHANGED available
    BY <2>1, <2>2
  <2>3. ASSUME NEW p \in Orders, NEW to \in Outcomes, Settle(p, to)
        PROVE  FALSE
    <3>1. Pending(p, v) \in Nat
      BY InventoryAssumption DEF Pending, TypeOK, Requests
    <3>2. available'[v] = available[v] \/ available'[v] = available[v] + Pending(p, v)
      BY <2>3 DEF Settle, LineAfter
    <3> QED
      BY <2>1, <3>1, <3>2
  <2>4. ASSUME NEW p \in Orders, NEW r \in Requests,
               NEW k \in ClientKeys \union {ReserveKey(p)}, Reserve(p, r, k)
        PROVE  available'[v] >= 0
    <3>1. available'[v] = available[v] - r[v] /\ r[v] \in Nat
      BY <2>4, InventoryAssumption DEF Reserve, Requests
    <3>2. r[v] > 0 => available[v] >= r[v]
      BY <2>4 DEF Reserve, InStock
    <3> QED
      BY <2>1, <3>1, <3>2
  <2>5. ASSUME NEW w \in Variants, NEW n \in Int, Restock(w, n)
        PROVE  FALSE
    <3>1. \/ available'[v] = available[v]
          \/ available'[v] = available[v] + n /\ received'[v] = received[v] + n
      BY <2>5 DEF Restock, TypeOK
    <3> QED
      BY <2>1, <3>1
  <2>6. ASSUME NEW c \in inflight, CommitSettle(c)
        PROVE  FALSE
    BY <2>3, <2>6 DEF CommitSettle, TypeOK, Calls
  <2>7. ASSUME NEW p \in Orders, Expire(p)
        PROVE  FALSE
    BY <2>3, <2>7 DEF Expire, Outcomes, Reasons
  <2>8. CASE UNCHANGED vars
    BY <2>2, <2>8 DEF vars, stock
  <2>9. ASSUME NEW w \in Variants, InitializeStock(w)
        PROVE  available'[v] >= 0
    BY <2>2, <2>9 DEF InitializeStock
  <2>10. ASSUME NEW p \in Orders, NEW to \in Outcomes,
                NEW k \in ClientKeys \union {ConfirmKey(p), ReleaseKey(p)},
                BeginSettle(p, to, k)
         PROVE  available'[v] >= 0
    BY <2>2, <2>10 DEF BeginSettle, stock
  <2>11. ASSUME NEW c \in inflight, Rollback(c)
         PROVE  available'[v] >= 0
    BY <2>2, <2>11 DEF Rollback, stock
  <2> QED
    BY <2>4, <2>5, <2>6, <2>7, <2>8, <2>9, <2>10, <2>11, NextCases
<1>2. TypeOK /\ [Next]_vars
        => [\A v \in Variants :
               available'[v] < available[v] /\ received'[v] = received[v]
                  => available'[v] >= 0]_vars
  BY <1>1
<1> QED
  BY <1>2, TypeCorrect, PTL DEF Spec, NeverOversold

------------------------------------------------------------------------------

\* Refinement of StockLedger: a settlement of a PENDING batch sells or gives
\* back, one of a batch that was settled before changes nothing a reader of
\* the ledger can see.
LEMMA SettleRefines ==
    ASSUME IInv, NEW o \in Orders, NEW to \in Outcomes, Settle(o, to),
           batch[o] # "NONE"
    PROVE  [Ledger!Next]_(Ledger!ledger)
<1> USE DEF IInv
<1>1. \A p \in Orders : p # o => Phase(p)' = Phase(p)
  BY DEF Phase, Settle, LineAfter, TypeOK
<1>2. /\ batch'[o] = to
      /\ qty' = qty /\ received' = received
      /\ to \notin {"NONE", "PENDING"}
  BY DEF Settle, LineAfter, TypeOK, Outcomes, Reasons
<1>3. CASE batch[o] # "PENDING"
  <2>1. \A v \in Variants : Pending(o, v) = 0
    <3>1. \A v \in Variants : qty[o][v] \in Nat
      BY InventoryAssumption DEF TypeOK, Requests
    <3> QED
      BY <1>3, <3>1 DEF Pending, LinesMoveTogether
  <2>2. available' = available
    <3>1. \A v \in Variants : available[v] + Pending(o, v) = available[v]
      BY <2>1 DEF TypeOK
    <3>2. available' = available \/ available' = [v \in Variants |-> available[v] + Pending(o, v)]
      BY DEF Settle, LineAfter
    <3> QED
      BY <3>1, <3>2 DEF TypeOK
  <2>3. \A v \in Variants : line[o][v] = "CONFIRMED" <=> line'[o][v] = "CONFIRMED"
    <3> SUFFICES ASSUME NEW v \in Variants
                 PROVE  line[o][v] = "CONFIRMED" <=> line'[o][v] = "CONFIRMED"
      OBVIOUS
    <3>1. line[o][v] # "PENDING"
      <4>1. qty[o][v] \in Nat
        BY InventoryAssumption DEF TypeOK, Requests
      <4>2. CASE qty[o][v] = 0
        BY <4>2 DEF NoLineWithoutUnits
      <4>3. CASE qty[o][v] > 0
        BY <1>3, <4>3 DEF LinesMoveTogether
      <4> QED
        BY <4>1, <4>2, <4>3
    <3> QED
      BY <3>1 DEF Settle, LineAfter, TypeOK
  <2>4. Phase(o)' = Phase(o)
    BY <1>2, <1>3, <2>3 DEF Phase
  <2>5. [p \in Orders |-> Phase(p)]' = [p \in Orders |-> Phase(p)]
    BY <1>1, <2>4
  <2> QED
    BY <1>2, <2>2, <2>5 DEF Ledger!ledger
<1>4. CASE batch[o] = "PENDING"
  <2>1. Phase(o) = "held"
    BY <1>4 DEF Phase
  <2>2. \A v \in Variants : /\ Pending(o, v) = qty[o][v] /\ qty[o][v] \in Nat
                            /\ line'[o][v] = IF line[o][v] = "PENDING" THEN to ELSE line[o][v]
                            /\ qty[o][v] > 0 => line[o][v] = "PENDING"
                            /\ qty[o][v] = 0 => line[o][v] = "NONE"
    BY <1>4, InventoryAssumption
       DEF TypeOK, Requests, Settle, LineAfter, Pending, LinesMoveTogether, NoLineWithoutUnits
  <2>3. CASE to = "CONFIRMED" /\ \E v \in Variants : qty[o][v] > 0
    <3>1. Phase(o)' = "sold"
      BY <1>2, <2>2, <2>3 DEF Phase
    <3>2. [p \in Orders |-> Phase(p)]' = [[p \in Orders |-> Phase(p)] EXCEPT ![o] = "sold"]
      BY <1>1, <3>1
    <3>3. available' = available
      BY <2>3 DEF Settle, LineAfter
    <3> QED
      BY <1>2, <2>1, <3>2, <3>3 DEF Ledger!Next, Ledger!Sell
  <2>4. CASE to # "CONFIRMED" \/ \A v \in Variants : qty[o][v] = 0
    <3>1. Phase(o)' = "returned"
      BY <1>2, <2>2, <2>4 DEF Phase
    <3>2. [p \in Orders |-> Phase(p)]' = [[p \in Orders |-> Phase(p)] EXCEPT ![o] = "returned"]
      BY <1>1, <3>1
    <3>3. available' = [v \in Variants |-> available[v] + qty[o][v]]
      <4>1. CASE to # "CONFIRMED"
        BY <2>2, <4>1 DEF Settle, LineAfter
      <4>2. CASE to = "CONFIRMED"
        <5>1. \A v \in Variants : available[v] + qty[o][v] = available[v]
          BY <2>4, <4>2 DEF TypeOK
        <5> QED
          BY <4>2, <5>1 DEF Settle, LineAfter, TypeOK
      <4> QED
        BY <4>1, <4>2
    <3> QED
      BY <1>2, <2>1, <3>2, <3>3 DEF Ledger!Next, Ledger!GiveBack
  <2> QED
    BY <2>2, <2>3, <2>4
<1> QED
  BY <1>3, <1>4

\* The transactions of inventory-service implement the stock ledger.
THEOREM ImplementsLedger == Spec => LedgerSpec
<1>1. Init => Ledger!Init
  BY DEF Init, Ledger!Init, Phase
<1>2. ASSUME IInv, [Next]_vars
      PROVE  [Ledger!Next]_(Ledger!ledger)
  <2> USE <1>2 DEF IInv
  <2>1. ASSUME UNCHANGED <<available, received, reservations>>
        PROVE  [Ledger!Next]_(Ledger!ledger)
    BY <2>1 DEF Ledger!ledger, reservations, Phase
  <2>2. CASE UNCHANGED vars
    BY <2>1, <2>2 DEF vars, stock
  <2>3. ASSUME NEW v \in Variants, InitializeStock(v)
        PROVE  [Ledger!Next]_(Ledger!ledger)
    BY <2>1, <2>3 DEF InitializeStock
  <2>4. ASSUME NEW v \in Variants, NEW n \in Int, Restock(v, n)
        PROVE  [Ledger!Next]_(Ledger!ledger)
    <3>1. /\ available' = [available EXCEPT ![v] = available[v] + (received'[v] - received[v])]
          /\ received' = [received EXCEPT ![v] = received'[v]]
      <4>1. /\ available[v] \in Int /\ received[v] \in Int
            /\ received \in [Variants -> Int]
        BY DEF TypeOK
      <4>2. received' = [received EXCEPT ![v] = received[v] + n]
        BY <2>4 DEF Restock
      <4>3. received'[v] = received[v] + n
        BY <4>1, <4>2
      <4>4. received'[v] - received[v] = n
        BY <4>1, <4>3
      <4>5. available' = [available EXCEPT ![v] = available[v] + n]
        BY <2>4 DEF Restock
      <4> HIDE DEF IInv
      <4> QED
        BY <4>2, <4>3, <4>4, <4>5
    <3>2. UNCHANGED <<qty, [p \in Orders |-> Phase(p)]>>
      BY <2>4 DEF Restock, reservations, Phase
    <3> QED
      BY <3>1, <3>2 DEF Ledger!Next, Ledger!Supply
  <2>5. ASSUME NEW o \in Orders, NEW r \in Requests,
               NEW k \in ClientKeys \union {ReserveKey(o)}, Reserve(o, r, k)
        PROVE  [Ledger!Next]_(Ledger!ledger)
    <3>1. /\ Phase(o) = "none" /\ Phase(o)' = "held"
          /\ \A p \in Orders : p # o => Phase(p)' = Phase(p)
      BY <2>5 DEF Reserve, Phase, TypeOK
    <3>2. [p \in Orders |-> Phase(p)]' = [[p \in Orders |-> Phase(p)] EXCEPT ![o] = "held"]
      BY <3>1
    <3>3. /\ r \in [Variants -> 0..MaxQty]
          /\ \A v \in Variants : r[v] > 0 => available[v] >= r[v]
          /\ available' = [v \in Variants |-> available[v] - r[v]]
          /\ qty' = [qty EXCEPT ![o] = r]
          /\ received' = received
      BY <2>5 DEF Reserve, InStock, Requests
    <3> QED
      BY <3>1, <3>2, <3>3 DEF Ledger!Next, Ledger!Hold
  <2>6. ASSUME NEW o \in Orders, NEW to \in Outcomes,
               NEW k \in ClientKeys \union {ConfirmKey(o), ReleaseKey(o)},
               BeginSettle(o, to, k)
        PROVE  [Ledger!Next]_(Ledger!ledger)
    BY <2>1, <2>6 DEF BeginSettle, stock
  <2>7. ASSUME NEW c \in inflight, CommitSettle(c)
        PROVE  [Ledger!Next]_(Ledger!ledger)
    BY <2>7, SettleRefines DEF CommitSettle, InFlightFound, TypeOK, Calls
  <2>8. ASSUME NEW c \in inflight, Rollback(c)
        PROVE  [Ledger!Next]_(Ledger!ledger)
    BY <2>1, <2>8 DEF Rollback, stock
  <2>9. ASSUME NEW o \in Orders, Expire(o)
        PROVE  [Ledger!Next]_(Ledger!ledger)
    BY <2>9, SettleRefines DEF Expire, Outcomes, Reasons
  <2> QED
    BY <2>2, <2>3, <2>4, <2>5, <2>6, <2>7, <2>8, <2>9, NextCases
<1> QED
  BY <1>1, <1>2, Inductive, PTL DEF Spec, LedgerSpec, Ledger!Spec
==============================================================================
