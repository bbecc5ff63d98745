------------------------- MODULE LegacyOrdersProofs -------------------------
(***************************************************************************)
(* Proofs about LegacyOrders: for any orders, products and vouchers, any   *)
(* stock and limits, and any number of attempts and of lost answers.       *)
(***************************************************************************)
EXTENDS LegacyOrders, FiniteSetTheorems, TLAPS

Places == Calls \union Ended \union {"idle", "commit"}
Counted(o) == IF pc[o] \in {"commit", "placed", "crashed"} THEN 1 ELSE 0

LEMMA PayloadTypes ==
    ASSUME NEW o \in Orders
    PROVE  /\ Payload[o].units \in [Products -> Nat]
           /\ Payload[o].flash \in [Products -> Nat]
BY OrderAssumption DEF Payloads

LEMMA InitInv == Init => IInv
<1> SUFFICES ASSUME Init PROVE IInv
  OBVIOUS
<1>1. TypeOK
  <2>1. \A o \in Orders : 0 \in 0..(MaxTries - 1)
    BY OrderAssumption
  <2>2. stock \in [Products -> Int]
    BY OrderAssumption DEF Init
  <2> QED
    BY <2>1, <2>2 DEF Init, TypeOK
<1>2. ReservedFirst
  BY DEF Init, ReservedFirst
<1>3. LeaksFollow
  <2>1. IsFiniteSet(stray)
    BY FS_EmptySet DEF Init
  <2>2. \A o \in Orders : LateReserves(o) = {} /\ Cardinality(LateReserves(o)) = 0
    BY FS_EmptySet DEF Init, LateReserves
  <2> QED
    BY <2>1, <2>2 DEF Init, LeaksFollow
<1>4. PromotionsBounded
  BY OrderAssumption DEF Init, PromotionsBounded
<1> QED
  BY <1>1, <1>2, <1>3, <1>4 DEF IInv

\* How many reservations of an order came late is a number.
LEMMA LateFinite ==
    ASSUME TypeOK, IsFiniteSet(stray), NEW o \in Orders
    PROVE  IsFiniteSet(LateReserves(o)) /\ Cardinality(LateReserves(o)) \in Nat
BY FS_Subset, FS_CardinalityType DEF TypeOK, LateReserves

\* A request goes from one place to another.
LEMMA GoTypes ==
    ASSUME TypeOK, NEW o \in Orders, NEW to \in Places, Go(o, to)
    PROVE  /\ pc' \in [Orders -> Places]
           /\ tries' \in [Orders -> 0..(MaxTries - 1)]
           /\ pc'[o] = to
           /\ \A q \in Orders \ {o} : pc'[q] = pc[q]
<1>1. 0 \in 0..(MaxTries - 1)
  BY OrderAssumption
<1> QED
  BY <1>1 DEF TypeOK, Go, Places

\* A call whose answer is lost leaves the strays finite and well typed.
LEMMA LoseTypes ==
    ASSUME TypeOK, IsFiniteSet(stray), NEW o \in Orders, Lose(o)
    PROVE  /\ stray \subseteq stray' /\ IsFiniteSet(stray')
           /\ stray' \subseteq Orders \X Posts \X (1..MaxTries)
<1>1. tries[o] + 1 \in 1..MaxTries
  <2>1. tries[o] \in 0..(MaxTries - 1)
    BY DEF TypeOK
  <2> QED
    BY <2>1, OrderAssumption
<1>2. CASE UNCHANGED stray
  BY <1>2 DEF TypeOK
<1>3. CASE pc[o] \in Posts /\ stray' = stray \union {<<o, pc[o], tries[o] + 1>>}
  <2> DEFINE call == <<o, pc[o], tries[o] + 1>>
  <2>1. call \in Orders \X Posts \X (1..MaxTries)
    BY <1>1, <1>3
  <2>2. stray \subseteq Orders \X Posts \X (1..MaxTries) /\ stray' = stray \union {call}
    BY <1>3 DEF TypeOK
  <2>3. IsFiniteSet(stray')
    <3> HIDE DEF call
    <3> QED
      BY <2>2, FS_AddElement
  <2> QED
    BY <2>1, <2>2, <2>3
<1> QED
  BY <1>2, <1>3 DEF Lose

\* A step of the caller alone: what other services hold stays as it is.
LEMMA CallerInv ==
    ASSUME IInv, NEW o \in Orders,
           pc' \in [Orders -> Places],
           tries' \in [Orders -> 0..(MaxTries - 1)],
           \A q \in Orders \ {o} : pc'[q] = pc[q],
           stray \subseteq stray', IsFiniteSet(stray'),
           stray' \subseteq Orders \X Posts \X (1..MaxTries),
           UNCHANGED <<executed, shelf, promotions, staff>>,
           pc'[o] \in {"commit", "placed"} => pc[o] \in {"commit", "placed"},
           pc[o] \in {"commit", "placed", "crashed"}
              => pc'[o] \in {"commit", "placed", "crashed"}
    PROVE  IInv'
<1> USE DEF IInv, shelf, promotions, staff
<1>1. TypeOK'
  BY DEF TypeOK, Places
<1>2. ReservedFirst'
  BY DEF ReservedFirst
<1>3. LeaksFollow'
  <2> SUFFICES ASSUME NEW q \in Orders
               PROVE  reserved'[q] <= Cardinality(LateReserves(q))' + Counted(q)'
    BY DEF LeaksFollow, Counted
  <2>1. reserved[q] <= Cardinality(LateReserves(q)) + Counted(q)
    BY DEF LeaksFollow, Counted
  <2>2. LateReserves(q)' = LateReserves(q) /\ reserved' = reserved
    BY DEF LateReserves
  <2>3. Counted(q) <= Counted(q)' /\ Counted(q) \in {0, 1} /\ Counted(q)' \in {0, 1}
    BY DEF Counted
  <2>4. Cardinality(LateReserves(q)) \in Nat /\ reserved[q] \in Nat
    BY LateFinite DEF LeaksFollow, TypeOK
  <2> QED
    BY <2>1, <2>2, <2>3, <2>4
<1>4. PromotionsBounded'
  BY DEF PromotionsBounded
<1> QED
  BY <1>1, <1>2, <1>3, <1>4

\* What promotion-service and product-service do keeps their own bounds.
LEMMA ConsumeKeeps ==
    ASSUME TypeOK, PromotionsBounded, NEW v, ConsumeVoucher(v)
    PROVE  /\ used' \in [Vouchers -> Nat]
           /\ \A w \in Vouchers : used'[w] <= UsageLimit[w]
<1>1. CASE VoucherLeft(v) /\ used' = [used EXCEPT ![v] = @ + 1]
  <2>1. used' \in [Vouchers -> Nat]
    <3>1. CASE v \in Vouchers
      <4>1. used[v] + 1 \in Nat
        BY <3>1 DEF TypeOK
      <4> QED
        BY <1>1, <4>1 DEF TypeOK
    <3>2. CASE v \notin Vouchers
      <4>1. used' = used
        BY <1>1, <3>2 DEF TypeOK
      <4> QED
        BY <4>1 DEF TypeOK
    <3> QED
      BY <3>1, <3>2
  <2>2. ASSUME NEW w \in Vouchers PROVE used'[w] <= UsageLimit[w]
    <3>1. used[w] \in Nat /\ UsageLimit[w] \in Nat /\ used[w] <= UsageLimit[w]
      BY OrderAssumption DEF TypeOK, PromotionsBounded
    <3>2. CASE w = v
      BY <1>1, <3>1, <3>2 DEF VoucherLeft, TypeOK
    <3>3. CASE w # v
      BY <1>1, <3>1, <3>3 DEF TypeOK
    <3> QED
      BY <3>2, <3>3
  <2> QED
    BY <2>1, <2>2
<1>2. CASE UNCHANGED used
  BY <1>2 DEF TypeOK, PromotionsBounded
<1> QED
  BY <1>1, <1>2 DEF ConsumeVoucher

LEMMA FlashKeeps ==
    ASSUME TypeOK, PromotionsBounded, NEW o \in Orders, ConsumeFlashSale(Payload[o])
    PROVE  /\ sold' \in [Products -> Nat]
           /\ \A p \in Products : sold'[p] <= SaleQuantity[p]
<1>1. CASE UNCHANGED sold
  BY <1>1 DEF TypeOK, PromotionsBounded
<1>2. ASSUME NEW onSale \in SUBSET Products,
             \A p \in onSale : sold[p] + Payload[o].flash[p] <= SaleQuantity[p],
             sold' = [p \in Products |-> IF p \in onSale THEN sold[p] + Payload[o].flash[p]
                                         ELSE sold[p]]
      PROVE  /\ sold' \in [Products -> Nat]
             /\ \A p \in Products : sold'[p] <= SaleQuantity[p]
  BY <1>2, PayloadTypes DEF TypeOK, PromotionsBounded
<1> QED
  BY <1>1, <1>2 DEF ConsumeFlashSale

LEMMA ReserveKeeps ==
    ASSUME TypeOK, NEW o \in Orders, ReserveStock(o)
    PROVE  /\ stock' \in [Products -> Int]
           /\ reserved' \in [Orders -> Nat]
           /\ \A q \in Orders \ {o} : reserved'[q] = reserved[q]
           /\ InStock(Payload[o]) => reserved'[o] = reserved[o] + 1
           /\ ~InStock(Payload[o]) => reserved'[o] = reserved[o]
<1>1. CASE InStock(Payload[o]) /\ Take(o)
  <2>1. reserved' = [reserved EXCEPT ![o] = @ + 1]
    BY <1>1 DEF Take
  <2>2. stock' \in [Products -> Int]
    BY <1>1, PayloadTypes DEF Take, TypeOK
  <2> QED
    BY <1>1, <2>1, <2>2 DEF TypeOK
<1>2. CASE ~InStock(Payload[o]) /\ UNCHANGED shelf
  BY <1>2 DEF TypeOK, shelf
<1> QED
  BY <1>1, <1>2 DEF ReserveStock

\* An answer that moves the request and changes the promotions only.
LEMMA PromotionInv ==
    ASSUME IInv, NEW o \in Orders, NEW to \in Places \ {"commit", "placed"}, Go(o, to),
           pc[o] \in Calls,
           UNCHANGED <<stray, executed, shelf, staff>>,
           used' \in [Vouchers -> Nat], sold' \in [Products -> Nat],
           \A v \in Vouchers : used'[v] <= UsageLimit[v],
           \A p \in Products : sold'[p] <= SaleQuantity[p]
    PROVE  IInv'
<1> USE DEF IInv, shelf, staff
<1>1. /\ pc' \in [Orders -> Places]
      /\ tries' \in [Orders -> 0..(MaxTries - 1)]
      /\ pc'[o] = to
      /\ \A q \in Orders \ {o} : pc'[q] = pc[q]
  BY GoTypes
<1>2. TypeOK'
  BY <1>1 DEF TypeOK, Places
<1>3. ReservedFirst'
  BY <1>1 DEF ReservedFirst
<1>4. LeaksFollow'
  <2> SUFFICES ASSUME NEW q \in Orders
               PROVE  reserved'[q] <= Cardinality(LateReserves(q))' + Counted(q)'
    BY DEF LeaksFollow, Counted
  <2>1. reserved[q] <= Cardinality(LateReserves(q)) + Counted(q)
    BY DEF LeaksFollow, Counted
  <2>2. LateReserves(q)' = LateReserves(q) /\ reserved' = reserved
    BY DEF LateReserves
  <2>3. Counted(q) <= Counted(q)' /\ Counted(q) \in {0, 1} /\ Counted(q)' \in {0, 1}
    BY <1>1 DEF Counted, Calls
  <2>4. Cardinality(LateReserves(q)) \in Nat /\ reserved[q] \in Nat
    BY LateFinite DEF LeaksFollow, TypeOK
  <2> QED
    BY <2>1, <2>2, <2>3, <2>4
<1>5. PromotionsBounded'
  BY DEF PromotionsBounded
<1> QED
  BY <1>2, <1>3, <1>4, <1>5

\* What a call leads to.
LEMMA NextPlaces ==
    ASSUME NEW o \in Orders, pc[o] \in Calls
    PROVE  /\ NextCall(o) \in Places
           /\ pc[o] # "reserve" => NextCall(o) \in Calls
           /\ pc[o] = "reserve" => NextCall(o) = "commit"
BY DEF Calls, NextCall, AfterVoucher, Places

LEMMA FirstPlace == \A o \in Orders : FirstCall(Payload[o]) \in Calls
BY DEF FirstCall, AfterVoucher, Calls

\* Giving up ends the request, or goes on without what was asked.
LEMMA GiveUpPlace ==
    ASSUME NEW o \in Orders, pc[o] \in Calls, GiveUp(o)
    PROVE  \E to \in Calls \union {"refused"} : Go(o, to)
<1>1. CASE pc[o] \in {"apply", "reserve"}
  BY <1>1 DEF GiveUp
<1>2. CASE pc[o] \notin {"apply", "reserve"}
  BY <1>2, NextPlaces DEF GiveUp
<1> QED
  BY <1>1, <1>2

\* A call whose answer is not heard changes the promotions.
LEMMA LatePromotionInv ==
    ASSUME IInv, NEW c \in stray, c[2] # "reserve", executed' = executed \union {c},
           UNCHANGED <<caller, stray, shelf, staff>>,
           used' \in [Vouchers -> Nat], sold' \in [Products -> Nat],
           \A v \in Vouchers : used'[v] <= UsageLimit[v],
           \A p \in Products : sold'[p] <= SaleQuantity[p]
    PROVE  IInv'
<1> USE DEF IInv, caller, shelf, staff
<1>1. TypeOK'
  BY DEF TypeOK
<1>2. ReservedFirst'
  BY DEF ReservedFirst
<1>3. LeaksFollow'
  <2>1. ASSUME NEW q \in Orders PROVE LateReserves(q)' = LateReserves(q)
    BY DEF LateReserves
  <2> QED
    BY <2>1 DEF LeaksFollow
<1>4. PromotionsBounded'
  BY DEF PromotionsBounded
<1> QED
  BY <1>1, <1>2, <1>3, <1>4

\* Or it reserves, which is what LateReserves counts.
LEMMA LateReserveInv ==
    ASSUME IInv, NEW c \in stray, c \notin executed, c[1] \in Orders,
           c[2] = "reserve", ReserveStock(c[1]), executed' = executed \union {c},
           UNCHANGED <<caller, stray, promotions, staff>>
    PROVE  IInv'
<1> USE DEF IInv, caller, promotions, staff
<1>1. /\ stock' \in [Products -> Int] /\ reserved' \in [Orders -> Nat]
      /\ \A q \in Orders \ {c[1]} : reserved'[q] = reserved[q]
      /\ reserved'[c[1]] \in {reserved[c[1]], reserved[c[1]] + 1}
  BY ReserveKeeps
<1>2. TypeOK'
  BY <1>1 DEF TypeOK
<1>3. ReservedFirst'
  BY <1>1 DEF ReservedFirst, TypeOK
<1>4. LeaksFollow'
  <2> SUFFICES ASSUME NEW q \in Orders
               PROVE  reserved'[q] <= Cardinality(LateReserves(q)') + Counted(q)'
    BY DEF LeaksFollow, Counted
  <2>1. reserved[q] <= Cardinality(LateReserves(q)) + Counted(q)
    BY DEF LeaksFollow, Counted
  <2>2. /\ IsFiniteSet(LateReserves(q)) /\ Cardinality(LateReserves(q)) \in Nat
        /\ reserved[q] \in Nat
    BY LateFinite DEF LeaksFollow, TypeOK
  <2>3. Counted(q)' = Counted(q) /\ Counted(q) \in {0, 1}
    BY DEF Counted
  <2>4. CASE q = c[1]
    <3>1. LateReserves(q)' = LateReserves(q) \union {c} /\ c \notin LateReserves(q)
      BY <2>4 DEF LateReserves
    <3>2. Cardinality(LateReserves(q)') = Cardinality(LateReserves(q)) + 1
      BY <2>2, <3>1, FS_AddElement
    <3> QED
      BY <1>1, <2>1, <2>2, <2>3, <2>4, <3>2
  <2>5. CASE q # c[1]
    <3>1. LateReserves(q)' = LateReserves(q)
      BY <2>5 DEF LateReserves
    <3> QED
      BY <1>1, <2>1, <2>2, <2>3, <2>5, <3>1
  <2> QED
    BY <2>4, <2>5
<1>5. PromotionsBounded'
  BY DEF PromotionsBounded
<1> QED
  BY <1>2, <1>3, <1>4, <1>5

\* What staff do touches neither reservations nor promotions.
LEMMA ShelfInv ==
    ASSUME IInv, UNCHANGED <<caller, stray, executed, reserved, promotions>>,
           stock' \in [Products -> Int],
           edits' \subseteq [product : Products, stock : Int],
           edited' \subseteq Products
    PROVE  IInv'
<1> USE DEF IInv, caller, promotions
<1>1. TypeOK'
  BY DEF TypeOK
<1>2. ReservedFirst' /\ PromotionsBounded'
  BY DEF ReservedFirst, PromotionsBounded
<1>3. LeaksFollow'
  <2>1. ASSUME NEW q \in Orders PROVE LateReserves(q)' = LateReserves(q)
    BY DEF LateReserves
  <2> QED
    BY <2>1 DEF LeaksFollow
<1> QED
  BY <1>1, <1>2, <1>3

LEMMA NextInv == IInv /\ [Next]_vars => IInv'
<1> SUFFICES ASSUME IInv, [Next]_vars PROVE IInv'
  OBVIOUS
<1> USE DEF IInv
<1>0. IsFiniteSet(stray) /\ stray \subseteq Orders \X Posts \X (1..MaxTries)
  BY DEF LeaksFollow, TypeOK
<1>a. ASSUME NEW o \in Orders, NEW to \in Places, Go(o, to),
             UNCHANGED <<stray, executed, shelf, promotions, staff>>,
             to \in {"commit", "placed"} => pc[o] \in {"commit", "placed"},
             pc[o] \in {"commit", "placed", "crashed"}
                => to \in {"commit", "placed", "crashed"}
      PROVE  IInv'
  BY <1>0, <1>a, GoTypes, CallerInv
<1>1. ASSUME NEW o \in Orders, Place(o)
      PROVE  IInv'
  BY <1>1, <1>a, FirstPlace DEF Place, Places, Calls
<1>2. ASSUME NEW o \in Orders, ApplyAnswered(o)
      PROVE  IInv'
  <2>1. CASE Go(o, NextCall(o))
    BY <1>2, <2>1, <1>a, NextPlaces DEF ApplyAnswered, Places, Calls
  <2>2. CASE Go(o, "refused")
    BY <1>2, <2>2, <1>a DEF ApplyAnswered, Places, Ended
  <2> QED
    BY <1>2, <2>1, <2>2 DEF ApplyAnswered
<1>3. ASSUME NEW o \in Orders, ConsumeAnswered(o)
      PROVE  IInv'
  <2>1. /\ used' \in [Vouchers -> Nat]
        /\ \A w \in Vouchers : used'[w] <= UsageLimit[w]
    BY <1>3, ConsumeKeeps DEF ConsumeAnswered
  <2>2. sold' \in [Products -> Nat] /\ \A p \in Products : sold'[p] <= SaleQuantity[p]
    BY <1>3 DEF ConsumeAnswered, TypeOK, PromotionsBounded
  <2>3. NextCall(o) \in Places \ {"commit", "placed"} /\ pc[o] \in Calls
    BY <1>3, NextPlaces DEF ConsumeAnswered, Calls, Places
  <2> QED
    BY <1>3, <2>1, <2>2, <2>3, PromotionInv DEF ConsumeAnswered
<1>4. ASSUME NEW o \in Orders, FlashAnswered(o)
      PROVE  IInv'
  <2>1. sold' \in [Products -> Nat] /\ \A p \in Products : sold'[p] <= SaleQuantity[p]
    BY <1>4, FlashKeeps DEF FlashAnswered
  <2>2. /\ used' \in [Vouchers -> Nat]
        /\ \A w \in Vouchers : used'[w] <= UsageLimit[w]
    BY <1>4 DEF FlashAnswered, TypeOK, PromotionsBounded
  <2>3. NextCall(o) \in Places \ {"commit", "placed"} /\ pc[o] \in Calls
    BY <1>4, NextPlaces DEF FlashAnswered, Calls, Places
  <2> QED
    BY <1>4, <2>1, <2>2, <2>3, PromotionInv DEF FlashAnswered
<1>5. ASSUME NEW o \in Orders, ReserveAnswered(o)
      PROVE  IInv'
  <2>1. CASE ~InStock(Payload[o])
    <3>1. UNCHANGED shelf
      BY <1>5, <2>1 DEF ReserveAnswered, ReserveStock
    <3> QED
      BY <1>5, <2>1, <3>1, <1>a DEF ReserveAnswered, Places, Ended
  <2>2. CASE InStock(Payload[o])
    <3>1. pc[o] = "reserve" /\ NextCall(o) = "commit" /\ Go(o, "commit")
      BY <1>5, <2>2, NextPlaces DEF ReserveAnswered, Calls
    <3>2. /\ pc' \in [Orders -> Places]
          /\ tries' \in [Orders -> 0..(MaxTries - 1)]
          /\ pc'[o] = "commit"
          /\ \A q \in Orders \ {o} : pc'[q] = pc[q]
      BY <3>1, GoTypes DEF Places
    <3>3. /\ stock' \in [Products -> Int] /\ reserved' \in [Orders -> Nat]
          /\ \A q \in Orders \ {o} : reserved'[q] = reserved[q]
          /\ reserved'[o] = reserved[o] + 1
      BY <1>5, <2>2, ReserveKeeps DEF ReserveAnswered
    <3>4. TypeOK'
      BY <1>5, <3>2, <3>3 DEF ReserveAnswered, promotions, staff, TypeOK, Places
    <3>5. ReservedFirst'
      BY <3>2, <3>3 DEF ReservedFirst, TypeOK
    <3>6. LeaksFollow'
      <4>1. ASSUME NEW q \in Orders
            PROVE  reserved'[q] <= Cardinality(LateReserves(q))' + Counted(q)'
        <5>1. reserved[q] <= Cardinality(LateReserves(q)) + Counted(q)
          BY DEF LeaksFollow, Counted
        <5>2. LateReserves(q)' = LateReserves(q)
          BY <1>5 DEF LateReserves, ReserveAnswered
        <5>3. Cardinality(LateReserves(q)) \in Nat /\ reserved[q] \in Nat
          BY LateFinite DEF LeaksFollow, TypeOK
        <5>4. CASE q = o
          <6>1. Counted(q) = 0 /\ Counted(q)' = 1
            BY <3>1, <3>2, <5>4 DEF Counted
          <6> QED
            BY <3>3, <5>1, <5>2, <5>3, <5>4, <6>1
        <5>5. CASE q # o
          <6>1. Counted(q)' = Counted(q) /\ Counted(q) \in {0, 1}
            BY <3>2, <5>5 DEF Counted
          <6> QED
            BY <3>3, <5>1, <5>2, <5>3, <5>5, <6>1
        <5> QED
          BY <5>4, <5>5
      <4> QED
        BY <1>0, <1>5, <4>1 DEF LeaksFollow, Counted, ReserveAnswered
    <3>7. PromotionsBounded'
      BY <1>5 DEF PromotionsBounded, ReserveAnswered, promotions
    <3> QED
      BY <3>4, <3>5, <3>6, <3>7
  <2> QED
    BY <2>1, <2>2
<1>6. ASSUME NEW o \in Orders, TimeOut(o)
      PROVE  IInv'
  <2>1. /\ stray \subseteq stray' /\ IsFiniteSet(stray')
        /\ stray' \subseteq Orders \X Posts \X (1..MaxTries)
    BY <1>0, <1>6, LoseTypes DEF TimeOut
  <2>2. CASE tries[o] + 1 < MaxTries
    <3>1. tries[o] + 1 \in 0..(MaxTries - 1)
      <4>1. tries[o] \in 0..(MaxTries - 1)
        BY DEF TypeOK
      <4> QED
        BY <2>2, <4>1, OrderAssumption
    <3>2. /\ tries' = [tries EXCEPT ![o] = @ + 1] /\ UNCHANGED pc
      BY <1>6, <2>2 DEF TimeOut
    <3>3. tries' \in [Orders -> 0..(MaxTries - 1)] /\ pc' \in [Orders -> Places]
      BY <3>1, <3>2 DEF TypeOK, Places
    <3> QED
      BY <1>6, <2>1, <3>2, <3>3, CallerInv DEF TimeOut
  <2>3. CASE ~(tries[o] + 1 < MaxTries)
    <3>1. PICK to \in Calls \union {"refused"} : Go(o, to)
      BY <1>6, <2>3, GiveUpPlace DEF TimeOut
    <3>2. /\ pc' \in [Orders -> Places]
          /\ tries' \in [Orders -> 0..(MaxTries - 1)]
          /\ pc'[o] = to
          /\ \A q \in Orders \ {o} : pc'[q] = pc[q]
      BY <3>1, GoTypes DEF Places, Ended
    <3> QED
      BY <1>6, <2>1, <3>2, CallerInv DEF TimeOut, Calls
  <2> QED
    BY <2>2, <2>3
<1>7. ASSUME NEW o \in Orders, CircuitOpen(o)
      PROVE  IInv'
  <2>1. PICK to \in Calls \union {"refused"} : Go(o, to)
    BY <1>7, GiveUpPlace DEF CircuitOpen
  <2> QED
    BY <1>7, <2>1, <1>a DEF CircuitOpen, Calls, Places, Ended
<1>8. ASSUME NEW o \in Orders, Commit(o)
      PROVE  IInv'
  BY <1>8, <1>a DEF Commit, Places, Ended
<1>9. ASSUME NEW o \in Orders, Crash(o)
      PROVE  IInv'
  <2>1. /\ stray \subseteq stray' /\ IsFiniteSet(stray')
        /\ stray' \subseteq Orders \X Posts \X (1..MaxTries)
    BY <1>0, <1>9, LoseTypes DEF Crash
  <2>2. /\ pc' \in [Orders -> Places]
        /\ tries' \in [Orders -> 0..(MaxTries - 1)]
        /\ pc'[o] = "crashed"
        /\ \A q \in Orders \ {o} : pc'[q] = pc[q]
    BY <1>9, GoTypes DEF Crash, Places, Ended
  <2> QED
    BY <1>9, <2>1, <2>2, CallerInv DEF Crash
<1>10. ASSUME NEW c \in stray, ExecuteLate(c)
       PROVE  IInv'
  <2>0. c[1] \in Orders
    BY <1>0
  <2>1. CASE c[2] = "reserve" /\ ReserveStock(c[1]) /\ UNCHANGED promotions
    BY <1>0, <1>10, <2>0, <2>1, LateReserveInv DEF ExecuteLate
  <2>2. CASE c[2] = "consume" /\ ConsumeVoucher(Payload[c[1]].voucher)
                              /\ UNCHANGED <<shelf, sold>>
    <3>1. /\ used' \in [Vouchers -> Nat]
          /\ \A w \in Vouchers : used'[w] <= UsageLimit[w]
      BY <2>2, ConsumeKeeps
    <3>2. sold' \in [Products -> Nat]
          /\ \A p \in Products : sold'[p] <= SaleQuantity[p]
      BY <2>2 DEF TypeOK, PromotionsBounded
    <3> QED
      BY <1>0, <1>10, <2>2, <3>1, <3>2, LatePromotionInv DEF ExecuteLate
  <2>3. CASE c[2] = "flash" /\ ConsumeFlashSale(Payload[c[1]]) /\ UNCHANGED <<shelf, used>>
    <3>1. sold' \in [Products -> Nat]
          /\ \A p \in Products : sold'[p] <= SaleQuantity[p]
      BY <2>0, <2>3, FlashKeeps
    <3>2. /\ used' \in [Vouchers -> Nat]
          /\ \A w \in Vouchers : used'[w] <= UsageLimit[w]
      BY <2>3 DEF TypeOK, PromotionsBounded
    <3> QED
      BY <1>0, <1>10, <2>3, <3>1, <3>2, LatePromotionInv DEF ExecuteLate
  <2> QED
    BY <1>10, <2>1, <2>2, <2>3 DEF ExecuteLate
<1>11. ASSUME NEW p \in Products, BeginEdit(p)
       PROVE  IInv'
  <2>1. stock[p] \in Int
    BY DEF TypeOK
  <2> QED
    BY <1>11, <2>1, ShelfInv DEF BeginEdit, shelf, TypeOK
<1>12. ASSUME NEW p \in Products, PostMovement(p)
       PROVE  IInv'
  <2>1. Stock[p] \in Int
    BY OrderAssumption
  <2> QED
    BY <1>12, <2>1, ShelfInv DEF PostMovement, TypeOK
<1>13. ASSUME NEW e \in edits, SaveEdit(e)
       PROVE  IInv'
  <2>1. e.product \in Products /\ e.stock \in Int
    BY DEF TypeOK
  <2> QED
    BY <1>13, <2>1, ShelfInv DEF SaveEdit, TypeOK
<1>14. CASE UNCHANGED vars
  BY <1>14, ShelfInv DEF vars, caller, shelf, promotions, staff, TypeOK
<1> QED
  BY <1>1, <1>2, <1>3, <1>4, <1>5, <1>6, <1>7, <1>8, <1>9, <1>10, <1>11, <1>12, <1>13,
     <1>14 DEF Next, Request

LEMMA Inductive == Spec => []IInv
BY InitInv, NextInv, PTL DEF Spec

\* An order that was placed has its lines reserved.
THEOREM PlacedHasStock == Spec => []OrderHasStock
<1>1. IInv => OrderHasStock
  BY DEF IInv, ReservedFirst, OrderHasStock
<1> QED
  BY <1>1, Inductive, PTL

\* Every reservation that no order stands behind was made by a call whose answer
\* was lost, or by an order that died.
THEOREM LeaksExplained == Spec => []LeaksNeedLoss
<1>1. IInv => LeaksNeedLoss
  <2> SUFFICES ASSUME IInv, NEW o \in Orders
               PROVE  reserved[o] <= Cardinality(StrayReserves(o)) + Counted(o)
    BY DEF LeaksNeedLoss, Counted
  <2> USE DEF IInv
  <2>1. LateReserves(o) \subseteq StrayReserves(o) /\ StrayReserves(o) \subseteq stray
    BY DEF TypeOK, LateReserves, StrayReserves
  <2>2. /\ Cardinality(LateReserves(o)) <= Cardinality(StrayReserves(o))
        /\ Cardinality(StrayReserves(o)) \in Nat
    BY <2>1, FS_Subset, FS_CardinalityType DEF LeaksFollow
  <2>3. reserved[o] <= Cardinality(LateReserves(o)) + Counted(o)
    BY DEF LeaksFollow, Counted
  <2>4. /\ Cardinality(LateReserves(o)) \in Nat /\ reserved[o] \in Nat
        /\ Counted(o) \in {0, 1}
    BY LateFinite DEF LeaksFollow, TypeOK, Counted
  <2> QED
    BY <2>2, <2>3, <2>4
<1> QED
  BY <1>1, Inductive, PTL

\* Vouchers and flash sales are never used beyond their limits.
THEOREM LimitsKept == Spec => []PromotionsBounded
<1>1. IInv => PromotionsBounded
  BY DEF IInv
<1> QED
  BY <1>1, Inductive, PTL

------------------------------------------------------------------------------
\* The stock

\* One more reservation of an order adds a block of tokens that was not there.
LEMMA TokensAdded ==
    ASSUME TypeOK, NEW o \in Orders, NEW p \in Products, IsFiniteSet(TakenUnits(p)),
           reserved' = [reserved EXCEPT ![o] = @ + 1]
    PROVE  /\ IsFiniteSet(TakenUnits(p)')
           /\ Cardinality(TakenUnits(p)') = Cardinality(TakenUnits(p)) + Payload[o].units[p]
<1> DEFINE n == reserved[o] + 1
           u == Payload[o].units[p]
           Head == {<<o, n>>}
           Block == Head \X (1..u)
<1>0. u \in Nat /\ n \in Nat \ {0}
  BY PayloadTypes DEF TypeOK
<1>1. /\ \A q \in Orders \ {o} : reserved'[q] = reserved[q]
      /\ reserved'[o] = n
  BY DEF TypeOK
<1>2. 1..n = (1..reserved[o]) \union {n} /\ n \notin 1..reserved[o]
  BY DEF TypeOK
<1>3. TakenUnits(p)' = TakenUnits(p) \union Block
  <2>1. ASSUME NEW t
        PROVE  t \in TakenUnits(p)' <=>
                  \E q \in Orders : t \in ({q} \X (1..reserved'[q])) \X (1..Payload[q].units[p])
    BY DEF TakenUnits
  <2>2. ASSUME NEW t
        PROVE  t \in TakenUnits(p) <=>
                  \E q \in Orders : t \in ({q} \X (1..reserved[q])) \X (1..Payload[q].units[p])
    BY DEF TakenUnits
  <2>3. ASSUME NEW t
        PROVE  t \in ({o} \X (1..n)) \X (1..u) <=>
                  t \in ({o} \X (1..reserved[o])) \X (1..u) \/ t \in Block
    <3> HIDE DEF n, u
    <3> QED
      BY <1>2
  <2> HIDE DEF n, u, Block
  <2>4. ASSUME NEW t
        PROVE  t \in TakenUnits(p)' <=> t \in TakenUnits(p) \/ t \in Block
    BY <1>1, <2>1, <2>2, <2>3 DEF u
  <2> QED
    BY <2>4
<1>4. TakenUnits(p) \cap Block = {}
  <2> SUFFICES ASSUME NEW t \in Block, t \in TakenUnits(p)
               PROVE  FALSE
    OBVIOUS
  <2>1. PICK q \in Orders : t \in ({q} \X (1..reserved[q])) \X (1..Payload[q].units[p])
    BY DEF TakenUnits
  <2>2. t[1] = <<o, n>> /\ t[1] \in {q} \X (1..reserved[q])
    BY <2>1
  <2> QED
    BY <1>2, <2>2
<1>5. IsFiniteSet(Block) /\ Cardinality(Block) = u
  <2> HIDE DEF n, u
  <2>1. IsFiniteSet(Head) /\ Cardinality(Head) = 1
    BY FS_Singleton
  <2>2. IsFiniteSet(1..u) /\ Cardinality(1..u) = u
    BY <1>0, FS_Interval
  <2> HIDE DEF Head
  <2>3. IsFiniteSet(Block) /\ Cardinality(Block) = 1 * u
    BY <2>1, <2>2, FS_Product
  <2> QED
    BY <1>0, <2>3
<1> HIDE DEF Head, Block, u, n
<1>6. Cardinality(TakenUnits(p)') =
        Cardinality(TakenUnits(p)) + Cardinality(Block) - Cardinality({})
  BY <1>3, <1>4, <1>5, FS_Union
<1>7. IsFiniteSet(TakenUnits(p)')
  BY <1>3, <1>5, FS_Union
<1>8. Cardinality(TakenUnits(p)) \in Nat
  BY FS_CardinalityType
<1> QED
  BY <1>0, <1>5, <1>6, <1>7, <1>8, FS_EmptySet DEF u

\* What one reservation does to the stock, checked or refused.
LEMMA ReserveStockInv ==
    ASSUME TypeOK, StockInv, NEW o \in Orders, ReserveStock(o), UNCHANGED staff
    PROVE  StockInv'
<1> USE DEF StockInv
<1>1. CASE UNCHANGED shelf
  BY <1>1 DEF shelf, staff, StockAccounted, TakenUnits, NotTooLow
<1>2. CASE InStock(Payload[o]) /\ Take(o)
  <2>1. ASSUME NEW p \in Products
        PROVE  /\ IsFiniteSet(TakenUnits(p)')
               /\ Cardinality(TakenUnits(p)') =
                     Cardinality(TakenUnits(p)) + Payload[o].units[p]
    BY <1>2, TokensAdded DEF Take
  <2>2. ASSUME NEW p \in Products
        PROVE  /\ p \notin edited => stock'[p] = Stock[p] - Cardinality(TakenUnits(p)')
               /\ NotTooLow(p, stock'[p])
    <3>1. /\ stock'[p] = stock[p] - Payload[o].units[p]
          /\ stock[p] \in Int /\ Stock[p] \in Nat
          /\ Payload[o].units[p] \in Nat /\ Payload[o].largest[p] \in Nat
      BY <1>2, OrderAssumption DEF Take, TypeOK, Payloads
    <3>2. Cardinality(TakenUnits(p)) \in Nat
      BY FS_CardinalityType
    <3>3. p \notin edited => stock[p] = Stock[p] - Cardinality(TakenUnits(p))
      BY DEF StockAccounted
    <3>4. NotTooLow(p, stock[p])
      BY DEF StockAccounted
    <3>5. CASE Payload[o].units[p] = 0
      BY <2>1, <3>1, <3>2, <3>3, <3>4, <3>5
    <3>6. CASE Payload[o].units[p] > 0
      <4>1. stock'[p] >= Payload[o].largest[p] - Payload[o].units[p]
        BY <1>2, <3>1, <3>6 DEF InStock
      <4> QED
        BY <2>1, <3>1, <3>2, <3>3, <4>1 DEF NotTooLow
    <3> QED
      BY <3>1, <3>5, <3>6
  <2> QED
    BY <2>1, <2>2 DEF staff, StockAccounted, NotTooLow
<1> QED
  BY <1>1, <1>2 DEF ReserveStock

\* Who touches the stock: a reservation, heard or not, and staff.
LEMMA ShelfSteps ==
    ASSUME [Next]_vars, TypeOK
    PROVE  \/ UNCHANGED <<shelf, staff>>
           \/ \E o \in Orders : ReserveStock(o) /\ UNCHANGED staff
           \/ \E p \in Products : BeginEdit(p) \/ PostMovement(p)
           \/ \E e \in edits : SaveEdit(e)
<1>1. CASE UNCHANGED vars
  BY <1>1 DEF vars
<1>2. ASSUME NEW o \in Orders, Place(o) \/ Crash(o) \/ TimeOut(o) \/ CircuitOpen(o)
             \/ Commit(o) \/ ApplyAnswered(o)
      PROVE  UNCHANGED <<shelf, staff>>
  BY <1>2 DEF Place, Crash, TimeOut, CircuitOpen, Commit, ApplyAnswered
<1>3. ASSUME NEW o \in Orders, ConsumeAnswered(o) \/ FlashAnswered(o)
      PROVE  UNCHANGED <<shelf, staff>>
  BY <1>3 DEF ConsumeAnswered, FlashAnswered
<1>4. ASSUME NEW o \in Orders, ReserveAnswered(o)
      PROVE  ReserveStock(o) /\ UNCHANGED staff
  BY <1>4 DEF ReserveAnswered
<1>5. ASSUME NEW c \in stray, ExecuteLate(c)
      PROVE  UNCHANGED staff /\ (UNCHANGED shelf \/ ReserveStock(c[1]))
  BY <1>5 DEF ExecuteLate
<1>6. \A c \in stray : c[1] \in Orders
  BY DEF TypeOK
<1> QED
  BY <1>1, <1>2, <1>3, <1>4, <1>5, <1>6 DEF Next, Request

\* Staff write a stock that is not too low.
LEMMA StaffWriteInv ==
    ASSUME TypeOK, StockInv, NEW p \in Products, NEW n \in Int, NotTooLow(p, n),
           stock' = [stock EXCEPT ![p] = n], edited' = edited \union {p},
           edits' \subseteq edits, UNCHANGED reserved
    PROVE  StockInv'
<1> USE DEF StockInv
<1>1. \A q \in Products : stock'[q] = IF q = p THEN n ELSE stock[q]
  BY DEF TypeOK
<1>2. \A q \in Products : TakenUnits(q)' = TakenUnits(q)
  BY DEF TakenUnits
<1>3. \A q \in Products : NotTooLow(q, stock[q])'
  BY <1>1 DEF StockAccounted, NotTooLow
<1>4. (\A e \in edits : NotTooLow(e.product, e.stock))'
  BY DEF NotTooLow
<1>5. StockAccounted'
  BY <1>1, <1>2, <1>3 DEF StockAccounted
<1>6. (\A q \in Products : IsFiniteSet(TakenUnits(q)))'
  BY <1>2
<1> QED
  BY <1>4, <1>5, <1>6

LEMMA StockNext == TypeOK /\ StockInv /\ [Next]_vars => StockInv'
<1> SUFFICES ASSUME TypeOK, StockInv, [Next]_vars PROVE StockInv'
  OBVIOUS
<1>1. CASE UNCHANGED <<shelf, staff>>
  BY <1>1 DEF shelf, staff, StockInv, StockAccounted, TakenUnits, NotTooLow
<1>2. ASSUME NEW p \in Products, BeginEdit(p)
      PROVE  StockInv'
  <2>1. \A e \in edits' : NotTooLow(e.product, e.stock)
    BY <1>2 DEF BeginEdit, StockInv, StockAccounted
  <2> QED
    BY <1>2, <2>1 DEF BeginEdit, shelf, StockInv, StockAccounted, TakenUnits, NotTooLow
<1>3. ASSUME NEW p \in Products, PostMovement(p)
      PROVE  StockInv'
  <2>1. Stock[p] \in Nat /\ Stock[p] \in Int
    BY OrderAssumption
  <2>2. NotTooLow(p, Stock[p])
    BY <2>1 DEF NotTooLow
  <2>3. /\ stock' = [stock EXCEPT ![p] = Stock[p]] /\ edited' = edited \union {p}
        /\ edits' \subseteq edits /\ UNCHANGED reserved
    BY <1>3 DEF PostMovement
  <2> QED
    BY <2>1, <2>2, <2>3, StaffWriteInv
<1>4. ASSUME NEW e \in edits, SaveEdit(e)
      PROVE  StockInv'
  <2>1. e.product \in Products /\ e.stock \in Int /\ NotTooLow(e.product, e.stock)
    BY DEF TypeOK, StockInv
  <2> QED
    BY <1>4, <2>1, StaffWriteInv DEF SaveEdit
<1> QED
  BY <1>1, <1>2, <1>3, <1>4, ShelfSteps, ReserveStockInv

LEMMA StockInit == Init => StockInv
<1> SUFFICES ASSUME Init PROVE StockInv
  OBVIOUS
<1>1. ASSUME NEW p \in Products PROVE TakenUnits(p) = {}
  BY DEF Init, TakenUnits
<1>2. IsFiniteSet({}) /\ Cardinality({}) = 0
  BY FS_EmptySet
<1>3. \A p \in Products : stock[p] \in Nat /\ stock[p] = Stock[p] - 0
  BY OrderAssumption DEF Init
<1>4. StockAccounted
  BY <1>1, <1>2, <1>3 DEF StockAccounted, NotTooLow
<1> QED
  BY <1>1, <1>2, <1>4 DEF Init, StockInv

\* Stock and log agree, whatever was repeated or executed late, and what staff
\* save is never lower than what they have read.
THEOREM StockBooked == Spec => []StockAccounted
<1>1. IInv /\ StockInv /\ [Next]_vars => StockInv'
  BY StockNext DEF IInv
<1>2. StockInv => StockAccounted
  BY DEF StockInv
<1> QED
  BY <1>1, <1>2, StockInit, Inductive, PTL DEF Spec
=============================================================================
