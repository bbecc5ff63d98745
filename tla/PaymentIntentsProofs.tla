------------------------ MODULE PaymentIntentsProofs ------------------------
(***************************************************************************)
(* Theorems about PaymentIntents, for any orders, keys, callers and bounds.*)
(*                                                                         *)
(* The invariant is inductive conjunct by conjunct: Step has one step per  *)
(* action and under it one per group of conjuncts.  Counting announcements *)
(* is done once, in AppendCounts; after that Announced is opaque.          *)
(***************************************************************************)
EXTENDS PaymentIntents, FiniteSetTheorems, TLAPS

Plus(b) == IF b THEN 1 ELSE 0
Places(s, e) == {i \in DOMAIN s : s[i] = e}

\* Appending to a sequence adds to the count of one value.
LEMMA AppendCounts ==
    ASSUME NEW s \in Seq(EventTypes), NEW x \in EventTypes, NEW e
    PROVE  /\ Cardinality(Places(s, e)) \in Nat
           /\ Cardinality(Places(Append(s, x), e)) = Cardinality(Places(s, e)) + Plus(x = e)
<1> DEFINE n == Len(s)
<1>1. n \in Nat /\ DOMAIN s = 1..n
  OBVIOUS
<1>2. DOMAIN Append(s, x) = 1..(n + 1)
      /\ Append(s, x)[n + 1] = x
      /\ \A i \in 1..n : Append(s, x)[i] = s[i]
  OBVIOUS
<1>3. IsFiniteSet(Places(s, e)) /\ Cardinality(Places(s, e)) \in Nat
  <2>1. IsFiniteSet(1..n)
    BY <1>1, FS_Interval
  <2>2. Places(s, e) \subseteq 1..n
    BY <1>1 DEF Places
  <2> QED
    BY <2>1, <2>2, FS_Subset, FS_CardinalityType
<1>4. CASE x = e
  <2>1. Places(Append(s, x), e) = Places(s, e) \union {n + 1}
    BY <1>1, <1>2, <1>4 DEF Places
  <2>2. n + 1 \notin Places(s, e)
    BY <1>1 DEF Places
  <2>3. Cardinality(Places(s, e) \union {n + 1}) = Cardinality(Places(s, e)) + 1
    BY <1>3, <2>2, FS_AddElement
  <2> QED
    BY <1>3, <1>4, <2>1, <2>3 DEF Plus
<1>5. CASE x # e
  <2>1. Places(Append(s, x), e) = Places(s, e)
    BY <1>1, <1>2, <1>5 DEF Places
  <2> QED
    BY <1>3, <1>5, <2>1 DEF Plus
<1> QED
  BY <1>3, <1>4, <1>5

\* What saving and announcing a status does to the announcements.
LEMMA MoveCounts ==
    ASSUME TypeOK, NEW o \in Orders, NEW to, NEW event \in EventTypes,
           Move(o, to, event)
    PROVE  /\ outbox' \in [Orders -> Seq(EventTypes)]
           /\ \A p \in Orders, e \in EventTypes :
                /\ Announced(p, e) \in Nat
                /\ Announced(p, e)' = Announced(p, e) + Plus(p = o /\ e = event)
           /\ outbox'[o] # <<>> /\ outbox'[o][Len(outbox'[o])] = event
           /\ \A p \in Orders \ {o} : outbox'[p] = outbox[p]
<1>1. outbox' = [outbox EXCEPT ![o] = Append(outbox[o], event)]
      /\ outbox[o] \in Seq(EventTypes)
  BY DEF Move, TypeOK
<1>2. outbox' \in [Orders -> Seq(EventTypes)]
      /\ outbox'[o] = Append(outbox[o], event)
      /\ \A p \in Orders \ {o} : outbox'[p] = outbox[p]
  BY <1>1 DEF TypeOK
<1>3. outbox'[o] # <<>> /\ outbox'[o][Len(outbox'[o])] = event
  BY <1>1, <1>2
<1>4. ASSUME NEW p \in Orders, NEW e \in EventTypes
      PROVE  /\ Announced(p, e) \in Nat
             /\ Announced(p, e)' = Announced(p, e) + Plus(p = o /\ e = event)
  <2>1. outbox[p] \in Seq(EventTypes)
    BY DEF TypeOK
  <2>2. Announced(p, e) = Cardinality(Places(outbox[p], e))
        /\ Announced(p, e)' = Cardinality(Places(outbox'[p], e))
    BY DEF Announced, Places
  <2>3. Cardinality(Places(outbox[p], e)) \in Nat
        /\ Cardinality(Places(Append(outbox[p], event), e))
             = Cardinality(Places(outbox[p], e)) + Plus(event = e)
    BY <2>1, AppendCounts
  <2>4. CASE p = o
    BY <1>2, <2>2, <2>3, <2>4 DEF Plus
  <2>5. CASE p # o
    BY <1>2, <2>2, <2>3, <2>5 DEF Plus
  <2> QED
    BY <2>4, <2>5
<1> QED
  BY <1>2, <1>3, <1>4

\* Without a new event the counts stay.
LEMMA SameCounts ==
    ASSUME TypeOK, UNCHANGED outbox
    PROVE  \A p \in Orders, e \in EventTypes :
             Announced(p, e) \in Nat /\ Announced(p, e)' = Announced(p, e)
<1> SUFFICES ASSUME NEW p \in Orders, NEW e \in EventTypes
             PROVE  Announced(p, e) \in Nat /\ Announced(p, e)' = Announced(p, e)
  OBVIOUS
<1>1. outbox[p] \in Seq(EventTypes)
  BY DEF TypeOK
<1>2. Announced(p, e) = Cardinality(Places(outbox[p], e))
      /\ Announced(p, e)' = Cardinality(Places(outbox'[p], e))
  BY DEF Announced, Places
<1>3. Cardinality(Places(outbox[p], e)) \in Nat
  BY <1>1, AppendCounts
<1> QED
  BY <1>2, <1>3

LEMMA InitHolds == Init => IInv
<1> SUFFICES ASSUME Init PROVE IInv
  OBVIOUS
<1>1. TypeOK
  BY DEF Init, TypeOK, Statuses
<1>2. \A o \in Orders : \A e : Announced(o, e) = 0
  <2>1. \A o \in Orders : \A e : {i \in DOMAIN outbox[o] : outbox[o][i] = e} = {}
    BY DEF Init
  <2> QED
    BY <2>1, FS_EmptySet DEF Announced
<1>3. ChargesFollowEvents /\ MoneyCameIn /\ KeysExclusive /\ StatusAnnounced
  BY DEF Init, ChargesFollowEvents, MoneyCameIn, Refundable, KeysExclusive,
         StatusAnnounced
<1>4. ChargedOnce /\ RefundNeedsCharge /\ KeyedRefundOnce
  BY <1>2 DEF Init, ChargedOnce, RefundNeedsCharge, KeyedRefundOnce
<1> QED
  BY <1>1, <1>3, <1>4 DEF IInv
\* Every step keeps the invariant.
LEMMA StepHolds == IInv /\ [Next]_vars => IInv'
<1> SUFFICES ASSUME IInv, [Next]_vars PROVE IInv'
  OBVIOUS
<1> USE DEF IInv
<1>1. ASSUME NEW o \in Orders, NEW k \in Keys \union {NoKey}, CreatePayment(o, k)
      PROVE  IInv'
  <2>0. \A p \in Orders, e \in EventTypes :
          Announced(p, e) \in Nat /\ Announced(p, e)' = Announced(p, e)
    BY <1>1, SameCounts DEF CreatePayment
  <2>1. TypeOK'
    <3>1. status' \in [Orders -> Statuses] /\ charges' \in [Orders -> Nat]
      BY <1>1, <2>0 DEF TypeOK, CreatePayment, KeyFree, UseKey, Statuses, vars,
                        intents, provider
    <3>2. refunds' \in [Orders -> [Keys \union {NoKey} -> Nat]]
      BY <1>1, <2>0 DEF TypeOK, CreatePayment, KeyFree, UseKey, Statuses, vars,
                        intents, provider
    <3>3. outbox' \in [Orders -> Seq(EventTypes)]
      BY <1>1, <2>0 DEF TypeOK, CreatePayment, KeyFree, UseKey, Statuses, vars,
                        intents, provider
    <3>4. /\ processed' \subseteq Keys \ {NoKey}
          /\ refunding' \subseteq [order : Orders, key : Keys \union {NoKey}, caller : Callers]
      BY <1>1, <2>0 DEF TypeOK, CreatePayment, KeyFree, UseKey, Statuses, vars,
                        intents, provider
    <3>5. captured' \subseteq Orders /\ moneyBack' \in [Orders -> Nat]
      BY <1>1, <2>0 DEF TypeOK, CreatePayment, KeyFree, UseKey, Statuses, vars,
                        intents, provider
    <3>6. webhooks' \subseteq events' /\ events' \subseteq EventIds
      BY <1>1, <2>0 DEF TypeOK, CreatePayment, KeyFree, UseKey, Statuses, vars,
                        intents, provider
    <3> QED
      BY <3>1, <3>2, <3>3, <3>4, <3>5, <3>6 DEF TypeOK
  <2>2. ChargesFollowEvents'
    BY <1>1 DEF TypeOK, ChargesFollowEvents, CreatePayment, KeyFree, UseKey,
                Statuses, vars, intents, provider
  <2>3. MoneyCameIn'
    BY <1>1 DEF TypeOK, MoneyCameIn, Refundable, ChargesFollowEvents, CreatePayment,
                KeyFree, UseKey, Statuses, vars, intents, provider
  <2>4. KeysExclusive'
    BY <1>1 DEF TypeOK, KeysExclusive, CreatePayment, KeyFree, UseKey, Statuses,
                vars, intents, provider
  <2>5. StatusAnnounced'
    BY <1>1, <2>0 DEF TypeOK, StatusAnnounced, Statuses, Announces, CreatePayment,
                      KeyFree, UseKey, Statuses, vars, intents, provider
  <2>6. ChargedOnce'
    BY <1>1, <2>0 DEF TypeOK, ChargedOnce, ChargesFollowEvents, EventTypes, Plus,
                      CreatePayment, KeyFree, UseKey, Statuses, vars, intents,
                      provider
  <2>7. RefundNeedsCharge'
    BY <1>1, <2>0 DEF TypeOK, RefundNeedsCharge, MoneyCameIn, EventTypes, Plus,
                      CreatePayment, KeyFree, UseKey, Statuses, vars, intents,
                      provider
  <2>8. KeyedRefundOnce'
    BY <1>1 DEF TypeOK, KeyedRefundOnce, KeysExclusive, CreatePayment, KeyFree,
                UseKey, Statuses, vars, intents, provider
  <2> QED
    BY <2>1, <2>2, <2>3, <2>4, <2>5, <2>6, <2>7, <2>8 DEF IInv
<1>2. ASSUME NEW o \in Orders, NEW k \in Keys \union {NoKey}, NEW c \in Callers,
             BeginRefund(c, o, k)
      PROVE  IInv'
  <2>0. \A p \in Orders, e \in EventTypes :
          Announced(p, e) \in Nat /\ Announced(p, e)' = Announced(p, e)
    BY <1>2, SameCounts DEF BeginRefund, intents
  <2>1. TypeOK'
    <3>1. status' \in [Orders -> Statuses] /\ charges' \in [Orders -> Nat]
      BY <1>2, <2>0 DEF TypeOK, BeginRefund, KeyFree, Refundable, vars, intents,
                        provider
    <3>2. refunds' \in [Orders -> [Keys \union {NoKey} -> Nat]]
      BY <1>2, <2>0 DEF TypeOK, BeginRefund, KeyFree, Refundable, vars, intents,
                        provider
    <3>3. outbox' \in [Orders -> Seq(EventTypes)]
      BY <1>2, <2>0 DEF TypeOK, BeginRefund, KeyFree, Refundable, vars, intents,
                        provider
    <3>4. /\ processed' \subseteq Keys \ {NoKey}
          /\ refunding' \subseteq [order : Orders, key : Keys \union {NoKey}, caller : Callers]
      BY <1>2, <2>0 DEF TypeOK, BeginRefund, KeyFree, Refundable, vars, intents,
                        provider
    <3>5. captured' \subseteq Orders /\ moneyBack' \in [Orders -> Nat]
      BY <1>2, <2>0 DEF TypeOK, BeginRefund, KeyFree, Refundable, vars, intents,
                        provider
    <3>6. webhooks' \subseteq events' /\ events' \subseteq EventIds
      BY <1>2, <2>0 DEF TypeOK, BeginRefund, KeyFree, Refundable, vars, intents,
                        provider
    <3> QED
      BY <3>1, <3>2, <3>3, <3>4, <3>5, <3>6 DEF TypeOK
  <2>2. ChargesFollowEvents'
    BY <1>2 DEF TypeOK, ChargesFollowEvents, BeginRefund, KeyFree, Refundable, vars,
                intents, provider
  <2>3. MoneyCameIn'
    BY <1>2 DEF TypeOK, MoneyCameIn, ChargesFollowEvents, BeginRefund, KeyFree,
                Refundable, vars, intents, provider
  <2>4. KeysExclusive'
    <3>1. \A q, p \in refunding' : q.key = p.key /\ q.key # NoKey => q = p
      BY <1>2 DEF TypeOK, KeysExclusive, BeginRefund, KeyFree, Refundable, vars,
                  intents, provider
    <3>2. \A q \in refunding' : q.key \notin processed'
      BY <1>2 DEF TypeOK, KeysExclusive, BeginRefund, KeyFree, Refundable, vars,
                  intents, provider
    <3>3. \A j \in Keys \ {NoKey} : \A p \in Orders : refunds'[p][j] > 0 => j \in processed'
      BY <1>2 DEF TypeOK, KeysExclusive, BeginRefund, KeyFree, Refundable, vars,
                  intents, provider
    <3> QED
      BY <3>1, <3>2, <3>3 DEF KeysExclusive
  <2>5. StatusAnnounced'
    BY <1>2, <2>0 DEF TypeOK, StatusAnnounced, Statuses, Announces, BeginRefund,
                      KeyFree, Refundable, vars, intents, provider
  <2>6. ChargedOnce'
    BY <1>2, <2>0 DEF TypeOK, ChargedOnce, ChargesFollowEvents, EventTypes, Plus,
                      BeginRefund, KeyFree, Refundable, vars, intents, provider
  <2>7. RefundNeedsCharge'
    BY <1>2, <2>0 DEF TypeOK, RefundNeedsCharge, MoneyCameIn, EventTypes, Plus,
                      BeginRefund, KeyFree, Refundable, vars, intents, provider
  <2>8. KeyedRefundOnce'
    BY <1>2 DEF TypeOK, KeyedRefundOnce, KeysExclusive, BeginRefund, KeyFree,
                Refundable, vars, intents, provider
  <2> QED
    BY <2>1, <2>2, <2>3, <2>4, <2>5, <2>6, <2>7, <2>8 DEF IInv
<1>3. ASSUME NEW o \in Orders, ExpireIntent(o)
      PROVE  IInv'
  <2>0. /\ outbox' \in [Orders -> Seq(EventTypes)]
        /\ \A p \in Orders, e \in EventTypes :
             /\ Announced(p, e) \in Nat
             /\ Announced(p, e)' = Announced(p, e) + Plus(p = o /\ e = "payment.expired")
        /\ outbox'[o] # <<>> /\ outbox'[o][Len(outbox'[o])] = "payment.expired"
        /\ \A p \in Orders \ {o} : outbox'[p] = outbox[p]
    <3>1. "payment.expired" \in EventTypes
      BY DEF EventTypes
    <3> HIDE DEF IInv
    <3> QED
      BY <1>3, <3>1, MoveCounts DEF ExpireIntent, IInv
  <2>1. TypeOK'
    <3>1. status' \in [Orders -> Statuses] /\ charges' \in [Orders -> Nat]
      BY <1>3 DEF TypeOK, Statuses, ExpireIntent, Move
    <3>2. refunds' \in [Orders -> [Keys \union {NoKey} -> Nat]]
      BY <1>3, <2>0 DEF TypeOK, ExpireIntent, Move, vars, intents, provider
    <3>3. outbox' \in [Orders -> Seq(EventTypes)]
      BY <1>3, <2>0 DEF TypeOK, ExpireIntent, Move, vars, intents, provider
    <3>4. /\ processed' \subseteq Keys \ {NoKey}
          /\ refunding' \subseteq [order : Orders, key : Keys \union {NoKey}, caller : Callers]
      BY <1>3, <2>0 DEF TypeOK, ExpireIntent, Move, vars, intents, provider
    <3>5. captured' \subseteq Orders /\ moneyBack' \in [Orders -> Nat]
      BY <1>3, <2>0 DEF TypeOK, ExpireIntent, Move, vars, intents, provider
    <3>6. webhooks' \subseteq events' /\ events' \subseteq EventIds
      BY <1>3, <2>0 DEF TypeOK, ExpireIntent, Move, vars, intents, provider
    <3> QED
      BY <3>1, <3>2, <3>3, <3>4, <3>5, <3>6 DEF TypeOK
  <2>2. ChargesFollowEvents'
    BY <1>3 DEF TypeOK, ChargesFollowEvents, ExpireIntent, Move, vars, intents,
                provider
  <2>3. MoneyCameIn'
    BY <1>3 DEF TypeOK, MoneyCameIn, Refundable, ChargesFollowEvents, ExpireIntent,
                Move, vars, intents, provider
  <2>4. KeysExclusive'
    BY <1>3 DEF TypeOK, KeysExclusive, ExpireIntent, Move, vars, intents, provider
  <2>5. StatusAnnounced'
    BY <1>3, <2>0 DEF TypeOK, StatusAnnounced, Statuses, Announces, ExpireIntent,
                      Move, vars, intents, provider
  <2>6. ChargedOnce'
    BY <1>3, <2>0 DEF TypeOK, ChargedOnce, ChargesFollowEvents, EventTypes, Plus,
                      ExpireIntent, Move, vars, intents, provider
  <2>7. RefundNeedsCharge'
    BY <1>3, <2>0 DEF TypeOK, RefundNeedsCharge, MoneyCameIn, EventTypes, Plus,
                      ExpireIntent, Move, vars, intents, provider
  <2>8. KeyedRefundOnce'
    BY <1>3 DEF TypeOK, KeyedRefundOnce, KeysExclusive, ExpireIntent, Move, vars,
                intents, provider
  <2> QED
    BY <2>1, <2>2, <2>3, <2>4, <2>5, <2>6, <2>7, <2>8 DEF IInv
<1>4. ASSUME NEW o \in Orders, Pay(o) \/ FailToPay(o) \/ ReportRefund(o)
      PROVE  IInv'
  <2>0. \A p \in Orders, e \in EventTypes :
          Announced(p, e) \in Nat /\ Announced(p, e)' = Announced(p, e)
    BY <1>4, SameCounts DEF Pay, FailToPay, ReportRefund, intents
  <2>1. TypeOK'
    <3>1. status' \in [Orders -> Statuses] /\ charges' \in [Orders -> Nat]
      BY <1>4, <2>0 DEF TypeOK, Pay, FailToPay, ReportRefund, EventIds, Kinds, vars,
                        intents, provider
    <3>2. refunds' \in [Orders -> [Keys \union {NoKey} -> Nat]]
      BY <1>4, <2>0 DEF TypeOK, Pay, FailToPay, ReportRefund, EventIds, Kinds, vars,
                        intents, provider
    <3>3. outbox' \in [Orders -> Seq(EventTypes)]
      BY <1>4, <2>0 DEF TypeOK, Pay, FailToPay, ReportRefund, EventIds, Kinds, vars,
                        intents, provider
    <3>4. /\ processed' \subseteq Keys \ {NoKey}
          /\ refunding' \subseteq [order : Orders, key : Keys \union {NoKey}, caller : Callers]
      BY <1>4, <2>0 DEF TypeOK, Pay, FailToPay, ReportRefund, EventIds, Kinds, vars,
                        intents, provider
    <3>5. captured' \subseteq Orders /\ moneyBack' \in [Orders -> Nat]
      BY <1>4, <2>0 DEF TypeOK, Pay, FailToPay, ReportRefund, EventIds, Kinds, vars,
                        intents, provider
    <3>6. webhooks' \subseteq events' /\ events' \subseteq EventIds
      BY <1>4, <2>0 DEF TypeOK, Pay, FailToPay, ReportRefund, EventIds, Kinds, vars,
                        intents, provider
    <3> QED
      BY <3>1, <3>2, <3>3, <3>4, <3>5, <3>6 DEF TypeOK
  <2>2. ChargesFollowEvents'
    <3>1. CASE Pay(o)
      BY <3>1 DEF TypeOK, ChargesFollowEvents, Pay, intents
    <3>2. CASE FailToPay(o)
      BY <3>2 DEF TypeOK, ChargesFollowEvents, FailToPay, intents
    <3>3. CASE ReportRefund(o)
      <4>1. status[o] # "NONE"
        <5>1. moneyBack[o] > 0
          BY <3>3 DEF TypeOK, ReportRefund
        <5>2. <<o, "succeeded", 1>> \in events
          BY <5>1 DEF TypeOK, RefundNeedsCharge, ChargesFollowEvents
        <5> QED
          BY <5>2 DEF ChargesFollowEvents
      <4> QED
        BY <3>3, <4>1 DEF TypeOK, ChargesFollowEvents, ReportRefund, intents
    <3> QED
      BY <1>4, <3>1, <3>2, <3>3
  <2>3. MoneyCameIn'
    BY <1>4 DEF TypeOK, MoneyCameIn, ChargesFollowEvents, Pay, FailToPay,
                ReportRefund, EventIds, Kinds, vars, intents, provider
  <2>4. KeysExclusive'
    BY <1>4 DEF TypeOK, KeysExclusive, Pay, FailToPay, ReportRefund, EventIds,
                Kinds, vars, intents, provider
  <2>5. StatusAnnounced'
    BY <1>4, <2>0 DEF TypeOK, StatusAnnounced, Statuses, Announces, Pay, FailToPay,
                      ReportRefund, EventIds, Kinds, vars, intents, provider
  <2>6. ChargedOnce'
    BY <1>4, <2>0 DEF TypeOK, ChargedOnce, ChargesFollowEvents, EventTypes, Plus,
                      Pay, FailToPay, ReportRefund, EventIds, Kinds, vars, intents,
                      provider
  <2>7. RefundNeedsCharge'
    BY <1>4, <2>0 DEF TypeOK, RefundNeedsCharge, MoneyCameIn, EventTypes, Plus, Pay,
                      FailToPay, ReportRefund, EventIds, Kinds, vars, intents,
                      provider
  <2>8. KeyedRefundOnce'
    BY <1>4 DEF TypeOK, KeyedRefundOnce, KeysExclusive, Pay, FailToPay,
                ReportRefund, EventIds, Kinds, vars, intents, provider
  <2> QED
    BY <2>1, <2>2, <2>3, <2>4, <2>5, <2>6, <2>7, <2>8 DEF IInv
<1>5. ASSUME NEW x \in events, ProcessWebhook(x)
      PROVE  IInv'
  <2> DEFINE o == x[1]
             kind == x[2]
             to == IF kind = "succeeded" THEN "SUCCEEDED"
                   ELSE IF kind = "failed" THEN "FAILED" ELSE "REFUND_PENDING"
             event == IF kind = "succeeded" THEN "payment.succeeded"
                      ELSE IF kind = "failed" THEN "payment.failed"
                      ELSE "payment.refund_failed"
  <2>a. /\ o \in Orders /\ kind \in Kinds /\ x = <<o, kind, x[3]>>
        /\ status[o] # "NONE" /\ x \notin webhooks
        /\ kind = "succeeded" => x = <<o, "succeeded", 1>> /\ o \in captured
    BY <1>5 DEF TypeOK, EventIds, ChargesFollowEvents, ProcessWebhook
  <2>b. Move(o, to, event)
    BY <1>5, <2>a DEF ProcessWebhook, Moved, Kinds
  <2>c. /\ charges' = [charges EXCEPT ![o] = IF kind = "succeeded" THEN @ + 1 ELSE @]
        /\ webhooks' = webhooks \union {x}
        /\ UNCHANGED <<refunds, processed, refunding, provider>>
    BY <1>5 DEF ProcessWebhook
  <2>d. kind = "succeeded" => charges[o] = 0
    BY <2>a DEF ChargesFollowEvents
  <2>e. \A p \in Orders : <<p, "succeeded", 1>> \in webhooks'
           <=> (<<p, "succeeded", 1>> \in webhooks \/ (p = o /\ kind = "succeeded"))
    BY <2>a, <2>c
  <2>0. /\ outbox' \in [Orders -> Seq(EventTypes)]
        /\ \A p \in Orders, e \in EventTypes :
             /\ Announced(p, e) \in Nat
             /\ Announced(p, e)' = Announced(p, e) + Plus(p = o /\ e = event)
        /\ outbox'[o] # <<>> /\ outbox'[o][Len(outbox'[o])] = event
        /\ \A p \in Orders \ {o} : outbox'[p] = outbox[p]
    <3>1. event \in EventTypes
      BY DEF EventTypes
    <3>2. TypeOK
      OBVIOUS
    <3> HIDE DEF IInv, o, to, event
    <3> QED
      BY <2>a, <2>b, <3>1, <3>2, MoveCounts
  <2>f. status' = [status EXCEPT ![o] = to]
    BY <2>b DEF Move
  <2>g. /\ kind = "succeeded" => to = "SUCCEEDED" /\ event = "payment.succeeded"
        /\ kind = "failed" => to = "FAILED" /\ event = "payment.failed"
        /\ kind = "refunded" => to = "REFUND_PENDING" /\ event = "payment.refund_failed"
    OBVIOUS
  <2> HIDE DEF o, kind, to, event
  <2>1. TypeOK'
    <3>1. status' \in [Orders -> Statuses] /\ charges' \in [Orders -> Nat]
      BY <2>0, <2>a, <2>c, <2>f, <2>g DEF TypeOK, Kinds, Statuses, provider
    <3>2. refunds' \in [Orders -> [Keys \union {NoKey} -> Nat]]
      BY <2>0, <2>a, <2>c, <2>f, <2>g DEF TypeOK, Kinds, Statuses, provider
    <3>3. outbox' \in [Orders -> Seq(EventTypes)]
      BY <2>0, <2>a, <2>c, <2>f, <2>g DEF TypeOK, Kinds, Statuses, provider
    <3>4. /\ processed' \subseteq Keys \ {NoKey}
          /\ refunding' \subseteq [order : Orders, key : Keys \union {NoKey}, caller : Callers]
      BY <2>0, <2>a, <2>c, <2>f, <2>g DEF TypeOK, Kinds, Statuses, provider
    <3>5. captured' \subseteq Orders /\ moneyBack' \in [Orders -> Nat]
      BY <2>0, <2>a, <2>c, <2>f, <2>g DEF TypeOK, Kinds, Statuses, provider
    <3>6. webhooks' \subseteq events' /\ events' \subseteq EventIds
      BY <2>0, <2>a, <2>c, <2>f, <2>g DEF TypeOK, Kinds, Statuses, provider
    <3> QED
      BY <3>1, <3>2, <3>3, <3>4, <3>5, <3>6 DEF TypeOK
  <2>2. ChargesFollowEvents'
    BY <2>a, <2>c, <2>d, <2>e, <2>f, <2>g
       DEF TypeOK, ChargesFollowEvents, Kinds, provider
  <2>3. MoneyCameIn'
    BY <2>a, <2>c, <2>f, <2>g DEF TypeOK, MoneyCameIn, Refundable, Kinds, provider
  <2>4. KeysExclusive'
    BY <2>c DEF KeysExclusive
  <2>5. StatusAnnounced'
    <3>1. status'[o] = to /\ to \notin {"NONE", "PENDING"} /\ Announces[to] = event
      BY <2>a, <2>f, <2>g DEF TypeOK, Kinds, Announces
    <3>2. \A p \in Orders \ {o} : status'[p] = status[p] /\ outbox'[p] = outbox[p]
      BY <2>0, <2>a, <2>f DEF TypeOK
    <3> QED
      BY <2>0, <3>1, <3>2 DEF StatusAnnounced
  <2>6. ChargedOnce'
    BY <2>0, <2>a, <2>c, <2>d, <2>g DEF TypeOK, ChargedOnce, Kinds, EventTypes,
                                        Plus, provider
  <2>7. RefundNeedsCharge'
    <3>1. \A p \in Orders : Announced(p, "payment.refunded")' = Announced(p, "payment.refunded")
      <4>1. event # "payment.refunded"
        BY <2>a, <2>g DEF Kinds
      <4>2. "payment.refunded" \in EventTypes
        BY DEF EventTypes
      <4> QED
        BY <2>0, <4>1, <4>2 DEF Plus
    <3>2. \A p \in Orders : charges'[p] >= charges[p] /\ charges[p] \in Nat
      BY <2>a, <2>c DEF TypeOK
    <3> QED
      BY <2>c, <3>1, <3>2 DEF TypeOK, RefundNeedsCharge, provider
  <2>8. KeyedRefundOnce'
    BY <2>c DEF KeyedRefundOnce
  <2> QED
    BY <2>1, <2>2, <2>3, <2>4, <2>5, <2>6, <2>7, <2>8 DEF IInv
<1>6. ASSUME NEW r \in refunding, CommitRefund(r)
      PROVE  IInv'
  <2> DEFINE o == r.order
  <2>a. o \in Orders /\ r.key \in Keys \union {NoKey}
    BY DEF TypeOK
  <2> HIDE DEF o
  <2>0. /\ outbox' \in [Orders -> Seq(EventTypes)]
        /\ \A p \in Orders, e \in EventTypes :
             /\ Announced(p, e) \in Nat
             /\ Announced(p, e)' = Announced(p, e) + Plus(p = o /\ e = "payment.refunded")
        /\ outbox'[o] # <<>> /\ outbox'[o][Len(outbox'[o])] = "payment.refunded"
        /\ \A p \in Orders \ {o} : outbox'[p] = outbox[p]
    <3>1. "payment.refunded" \in EventTypes
      BY DEF EventTypes
    <3> HIDE DEF IInv
    <3> QED
      BY <1>6, <2>a, <3>1, MoveCounts DEF CommitRefund, o, IInv
  <2>c. /\ refunds' \in [Orders -> [Keys \union {NoKey} -> Nat]]
        /\ \A p \in Orders : \A j \in Keys \union {NoKey} :
             refunds'[p][j] = refunds[p][j] + Plus(p = o /\ j = r.key)
    <3>1. refunds[o] \in [Keys \union {NoKey} -> Nat]
      BY <2>a DEF TypeOK
    <3>2. refunds' = [refunds EXCEPT ![o] = [refunds[o] EXCEPT ![r.key] = refunds[o][r.key] + 1]]
      BY <1>6 DEF CommitRefund, o
    <3>3. /\ refunds'[o] = [refunds[o] EXCEPT ![r.key] = refunds[o][r.key] + 1]
          /\ \A p \in Orders \ {o} : refunds'[p] = refunds[p]
      BY <2>a, <3>2 DEF TypeOK
    <3>4. refunds'[o] \in [Keys \union {NoKey} -> Nat]
      BY <2>a, <3>1, <3>3
    <3>5. refunds' \in [Orders -> [Keys \union {NoKey} -> Nat]]
      BY <2>a, <3>2, <3>3, <3>4 DEF TypeOK
    <3>6. \A j \in Keys \union {NoKey} :
             refunds'[o][j] = refunds[o][j] + Plus(j = r.key)
      BY <2>a, <3>1, <3>3 DEF Plus
    <3>7. \A p \in Orders \ {o} : \A j \in Keys \union {NoKey} :
             refunds'[p][j] = refunds[p][j] /\ refunds[p][j] \in Nat
      BY <3>3 DEF TypeOK
    <3>8. ASSUME NEW p \in Orders, NEW j \in Keys \union {NoKey}
          PROVE  refunds'[p][j] = refunds[p][j] + Plus(p = o /\ j = r.key)
      <4>1. CASE p = o
        BY <3>6, <4>1 DEF Plus
      <4>2. CASE p # o
        BY <3>7, <4>2 DEF Plus
      <4> QED
        BY <4>1, <4>2
    <3> QED
      BY <3>5, <3>8
  <2>d. /\ moneyBack' \in [Orders -> Nat]
        /\ \A p \in Orders : moneyBack'[p] = moneyBack[p] + Plus(p = o)
    BY <1>6, <2>a DEF TypeOK, CommitRefund, PayBack, Plus, o
  <2>1. TypeOK'
    <3>1. status' \in [Orders -> Statuses] /\ charges' \in [Orders -> Nat]
      BY <1>6, <2>a DEF TypeOK, Statuses, CommitRefund, Move, o
    <3>2. refunds' \in [Orders -> [Keys \union {NoKey} -> Nat]]
      BY <2>c
    <3>3. outbox' \in [Orders -> Seq(EventTypes)]
      BY <1>6, <2>a, <2>0 DEF TypeOK, CommitRefund, Move, PayBack, UseKey, o, vars,
                              intents, provider
    <3>4. /\ processed' \subseteq Keys \ {NoKey}
          /\ refunding' \subseteq [order : Orders, key : Keys \union {NoKey}, caller : Callers]
      BY <1>6, <2>a, <2>0 DEF TypeOK, CommitRefund, Move, PayBack, UseKey, o, vars,
                              intents, provider
    <3>5. captured' \subseteq Orders /\ moneyBack' \in [Orders -> Nat]
      BY <1>6, <2>a, <2>0 DEF TypeOK, CommitRefund, Move, PayBack, UseKey, o, vars,
                              intents, provider
    <3>6. webhooks' \subseteq events' /\ events' \subseteq EventIds
      BY <1>6, <2>a, <2>0 DEF TypeOK, CommitRefund, Move, PayBack, UseKey, o, vars,
                              intents, provider
    <3> QED
      BY <3>1, <3>2, <3>3, <3>4, <3>5, <3>6 DEF TypeOK
  <2>2. ChargesFollowEvents'
    BY <1>6, <2>a DEF TypeOK, ChargesFollowEvents, CommitRefund, Move, PayBack,
                      UseKey, o, vars, intents, provider
  <2>3. MoneyCameIn'
    BY <1>6, <2>a DEF TypeOK, MoneyCameIn, Refundable, ChargesFollowEvents,
                      CommitRefund, Move, PayBack, UseKey, o, vars, intents,
                      provider
  <2>4. KeysExclusive'
    <3>1. \A q, p \in refunding' : q.key = p.key /\ q.key # NoKey => q = p
      BY <1>6, <2>a DEF TypeOK, KeysExclusive, CommitRefund, Move, PayBack, UseKey,
                        o, vars, intents, provider
    <3>2. \A q \in refunding' : q.key \notin processed'
      BY <1>6, <2>a DEF TypeOK, KeysExclusive, CommitRefund, Move, PayBack, UseKey,
                        o, vars, intents, provider
    <3>3. \A j \in Keys \ {NoKey} : \A p \in Orders : refunds'[p][j] > 0 => j \in processed'
      <4> SUFFICES ASSUME NEW j \in Keys \ {NoKey}, NEW p \in Orders, refunds'[p][j] > 0
                   PROVE  j \in processed'
        OBVIOUS
      <4>1. refunds[p][j] > 0 \/ j = r.key
        BY <2>c DEF TypeOK, Plus
      <4>2. processed' = processed \union ({r.key} \ {NoKey})
        BY <1>6 DEF CommitRefund, UseKey
      <4> QED
        BY <4>1, <4>2 DEF KeysExclusive
    <3> QED
      BY <3>1, <3>2, <3>3 DEF KeysExclusive
  <2>5. StatusAnnounced'
    BY <1>6, <2>a, <2>0 DEF TypeOK, StatusAnnounced, Statuses, Announces,
                            CommitRefund, Move, PayBack, UseKey, o, vars, intents,
                            provider
  <2>6. ChargedOnce'
    BY <1>6, <2>a, <2>0 DEF TypeOK, ChargedOnce, ChargesFollowEvents, EventTypes,
                            Plus, CommitRefund, Move, PayBack, UseKey, o, vars,
                            intents, provider
  <2>7. RefundNeedsCharge'
    <3>1. "payment.refunded" \in EventTypes
      BY DEF EventTypes
    <3>2. \A p \in Orders :
             /\ Announced(p, "payment.refunded")'
                  = Announced(p, "payment.refunded") + Plus(p = o)
             /\ Announced(p, "payment.refunded") \in Nat
      BY <2>0, <3>1 DEF Plus
    <3>3. charges[o] > 0 /\ charges' = charges
      BY <1>6 DEF MoneyCameIn, CommitRefund, o
    <3>4. ASSUME NEW p \in Orders
          PROVE  /\ moneyBack'[p] > 0 => charges'[p] > 0
                 /\ Announced(p, "payment.refunded")' <= moneyBack'[p]
      <4>1. moneyBack[p] \in Nat /\ Announced(p, "payment.refunded") <= moneyBack[p]
            /\ (moneyBack[p] > 0 => charges[p] > 0)
        BY DEF TypeOK, RefundNeedsCharge
      <4>2. CASE p = o
        BY <2>d, <3>2, <3>3, <4>1, <4>2 DEF Plus
      <4>3. CASE p # o
        BY <2>d, <3>2, <3>3, <4>1, <4>3 DEF Plus
      <4> QED
        BY <4>2, <4>3
    <3> QED
      BY <3>4 DEF RefundNeedsCharge
  <2>8. KeyedRefundOnce'
    BY <1>6, <2>a DEF TypeOK, KeyedRefundOnce, KeysExclusive, CommitRefund, Move,
                      PayBack, UseKey, o, vars, intents, provider
  <2> QED
    BY <2>1, <2>2, <2>3, <2>4, <2>5, <2>6, <2>7, <2>8 DEF IInv
<1>7. ASSUME NEW r \in refunding, RefundDies(r)
      PROVE  IInv'
  <2>0. \A p \in Orders, e \in EventTypes :
          Announced(p, e) \in Nat /\ Announced(p, e)' = Announced(p, e)
    BY <1>7, SameCounts DEF RefundDies, intents
  <2>a. r.order \in Orders
    BY DEF TypeOK
  <2>d. /\ moneyBack' \in [Orders -> Nat]
        /\ \A p \in Orders : moneyBack'[p] \in {moneyBack[p], moneyBack[p] + Plus(p = r.order)}
    <3>1. CASE PayBack(r.order)
      BY <2>a, <3>1 DEF TypeOK, PayBack, Plus
    <3>2. CASE UNCHANGED moneyBack
      BY <3>2 DEF TypeOK
    <3> QED
      BY <1>7, <3>1, <3>2 DEF RefundDies
  <2>1. TypeOK'
    <3>1. status' \in [Orders -> Statuses] /\ charges' \in [Orders -> Nat]
      BY <1>7, <2>0 DEF TypeOK, RefundDies, PayBack, vars, intents, provider
    <3>2. refunds' \in [Orders -> [Keys \union {NoKey} -> Nat]]
      BY <1>7, <2>0 DEF TypeOK, RefundDies, PayBack, vars, intents, provider
    <3>3. outbox' \in [Orders -> Seq(EventTypes)]
      BY <1>7, <2>0 DEF TypeOK, RefundDies, PayBack, vars, intents, provider
    <3>4. /\ processed' \subseteq Keys \ {NoKey}
          /\ refunding' \subseteq [order : Orders, key : Keys \union {NoKey}, caller : Callers]
      BY <1>7, <2>0 DEF TypeOK, RefundDies, PayBack, vars, intents, provider
    <3>5. captured' \subseteq Orders /\ moneyBack' \in [Orders -> Nat]
      BY <1>7, <2>d DEF TypeOK, RefundDies
    <3>6. webhooks' \subseteq events' /\ events' \subseteq EventIds
      BY <1>7, <2>0 DEF TypeOK, RefundDies, PayBack, vars, intents, provider
    <3> QED
      BY <3>1, <3>2, <3>3, <3>4, <3>5, <3>6 DEF TypeOK
  <2>2. ChargesFollowEvents'
    BY <1>7 DEF TypeOK, ChargesFollowEvents, RefundDies, PayBack, vars, intents,
                provider
  <2>3. MoneyCameIn'
    BY <1>7 DEF TypeOK, MoneyCameIn, ChargesFollowEvents, RefundDies, PayBack, vars,
                intents, provider
  <2>4. KeysExclusive'
    BY <1>7 DEF TypeOK, KeysExclusive, RefundDies, PayBack, vars, intents, provider
  <2>5. StatusAnnounced'
    BY <1>7, <2>0 DEF TypeOK, StatusAnnounced, Statuses, Announces, RefundDies,
                      PayBack, vars, intents, provider
  <2>6. ChargedOnce'
    BY <1>7, <2>0 DEF TypeOK, ChargedOnce, ChargesFollowEvents, EventTypes, Plus,
                      RefundDies, PayBack, vars, intents, provider
  <2>7. RefundNeedsCharge'
    <3>1. "payment.refunded" \in EventTypes
      BY DEF EventTypes
    <3>2. charges[r.order] > 0 /\ charges' = charges
      BY <1>7 DEF MoneyCameIn, RefundDies, intents
    <3>3. ASSUME NEW p \in Orders
          PROVE  /\ moneyBack'[p] > 0 => charges'[p] > 0
                 /\ Announced(p, "payment.refunded")' <= moneyBack'[p]
      <4>1. /\ moneyBack[p] \in Nat /\ Announced(p, "payment.refunded") <= moneyBack[p]
            /\ moneyBack[p] > 0 => charges[p] > 0
            /\ Announced(p, "payment.refunded") \in Nat
            /\ Announced(p, "payment.refunded")' = Announced(p, "payment.refunded")
        BY <2>0, <3>1 DEF TypeOK, RefundNeedsCharge
      <4>2. CASE p = r.order
        BY <2>d, <3>2, <4>1, <4>2 DEF Plus
      <4>3. CASE p # r.order
        BY <2>d, <3>2, <4>1, <4>3 DEF Plus
      <4> QED
        BY <4>2, <4>3
    <3> QED
      BY <3>3 DEF RefundNeedsCharge
  <2>8. KeyedRefundOnce'
    BY <1>7 DEF TypeOK, KeyedRefundOnce, KeysExclusive, RefundDies, PayBack, vars,
                intents, provider
  <2> QED
    BY <2>1, <2>2, <2>3, <2>4, <2>5, <2>6, <2>7, <2>8 DEF IInv
<1>8. ASSUME UNCHANGED vars
      PROVE  IInv'
  <2>0. \A p \in Orders, e \in EventTypes :
          Announced(p, e) \in Nat /\ Announced(p, e)' = Announced(p, e)
    BY <1>8, SameCounts DEF vars, intents, provider
  <2>1. TypeOK'
    <3>1. status' \in [Orders -> Statuses] /\ charges' \in [Orders -> Nat]
      BY <1>8, <2>0 DEF TypeOK, vars, intents, provider
    <3>2. refunds' \in [Orders -> [Keys \union {NoKey} -> Nat]]
      BY <1>8, <2>0 DEF TypeOK, vars, intents, provider
    <3>3. outbox' \in [Orders -> Seq(EventTypes)]
      BY <1>8, <2>0 DEF TypeOK, vars, intents, provider
    <3>4. /\ processed' \subseteq Keys \ {NoKey}
          /\ refunding' \subseteq [order : Orders, key : Keys \union {NoKey}, caller : Callers]
      BY <1>8, <2>0 DEF TypeOK, vars, intents, provider
    <3>5. captured' \subseteq Orders /\ moneyBack' \in [Orders -> Nat]
      BY <1>8, <2>0 DEF TypeOK, vars, intents, provider
    <3>6. webhooks' \subseteq events' /\ events' \subseteq EventIds
      BY <1>8, <2>0 DEF TypeOK, vars, intents, provider
    <3> QED
      BY <3>1, <3>2, <3>3, <3>4, <3>5, <3>6 DEF TypeOK
  <2>2. ChargesFollowEvents'
    BY <1>8 DEF TypeOK, ChargesFollowEvents, vars, intents, provider
  <2>3. MoneyCameIn'
    BY <1>8 DEF TypeOK, MoneyCameIn, ChargesFollowEvents, vars, intents, provider
  <2>4. KeysExclusive'
    BY <1>8 DEF TypeOK, KeysExclusive, vars, intents, provider
  <2>5. StatusAnnounced'
    BY <1>8, <2>0 DEF TypeOK, StatusAnnounced, Statuses, Announces, vars, intents,
                      provider
  <2>6. ChargedOnce'
    BY <1>8, <2>0 DEF TypeOK, ChargedOnce, ChargesFollowEvents, EventTypes, Plus,
                      vars, intents, provider
  <2>7. RefundNeedsCharge'
    BY <1>8, <2>0 DEF TypeOK, RefundNeedsCharge, MoneyCameIn, EventTypes, Plus,
                      vars, intents, provider
  <2>8. KeyedRefundOnce'
    BY <1>8 DEF TypeOK, KeyedRefundOnce, KeysExclusive, vars, intents, provider
  <2> QED
    BY <2>1, <2>2, <2>3, <2>4, <2>5, <2>6, <2>7, <2>8 DEF IInv
<1> QED
  BY <1>1, <1>2, <1>3, <1>4, <1>5, <1>6, <1>7, <1>8 DEF Next

------------------------------------------------------------------------------

THEOREM Inductive == Spec => []IInv
<1> QED
  BY InitHolds, StepHolds, PTL DEF Spec

\* The variables keep their types.
THEOREM PaymentTypeCorrect == Spec => []TypeOK
<1>1. IInv => TypeOK
  BY DEF IInv
<1> QED
  BY <1>1, Inductive, PTL

\* The newest event of an intent names its status, whatever interleaves.
THEOREM StatusTold == Spec => []StatusAnnounced
<1>1. IInv => StatusAnnounced
  BY DEF IInv
<1> QED
  BY <1>1, Inductive, PTL

\* A charge is recorded and announced once, however often its event comes.
THEOREM ChargesExact == Spec => []ChargedOnce
<1>1. IInv => ChargedOnce
  BY DEF IInv
<1> QED
  BY <1>1, Inductive, PTL

\* Only who has paid is paid back.
THEOREM RefundsJustified == Spec => []RefundNeedsCharge
<1>1. IInv => RefundNeedsCharge
  BY DEF IInv
<1> QED
  BY <1>1, Inductive, PTL

\* One idempotency key, one refund.
THEOREM KeysRefundOnce == Spec => []KeyedRefundOnce
<1>1. IInv => KeyedRefundOnce
  BY DEF IInv
<1> QED
  BY <1>1, Inductive, PTL

\* The expiry worker never overwrites a payment.
THEOREM ExpirySpares == Spec => PaidNeverExpires
<1>1. ASSUME IInv, [Next]_vars, NEW o \in Orders,
             status[o] # "EXPIRED", status'[o] = "EXPIRED"
      PROVE  charges[o] = 0
  <2>1. \A p \in Orders : ExpireIntent(p) => status[p] = "PENDING" /\ (p = o \/ status'[o] = status[o])
    BY <1>1 DEF IInv, TypeOK, ExpireIntent, Move
  <2>2. \E p \in Orders : ExpireIntent(p)
    <3>1. ASSUME NEW p \in Orders, NEW k \in Keys \union {NoKey}, CreatePayment(p, k)
          PROVE  FALSE
      BY <1>1, <3>1 DEF IInv, TypeOK, CreatePayment
    <3>2. ASSUME NEW x \in events, ProcessWebhook(x)
          PROVE  FALSE
      <4>1. x[1] \in Orders /\ x[2] \in Kinds
        BY <1>1 DEF IInv, TypeOK, EventIds
      <4>2. status' = [status EXCEPT ![x[1]] = status'[x[1]]]
            /\ status'[x[1]] \in {"SUCCEEDED", "FAILED", "REFUND_PENDING"}
        BY <1>1, <3>2, <4>1 DEF IInv, TypeOK, ProcessWebhook, Moved, Move, Kinds
      <4> QED
        BY <1>1, <4>1, <4>2 DEF IInv, TypeOK
    <3>3. ASSUME NEW r \in refunding, CommitRefund(r)
          PROVE  FALSE
      <4>1. r.order \in Orders
        BY <1>1 DEF IInv, TypeOK
      <4> QED
        BY <1>1, <3>3, <4>1 DEF IInv, TypeOK, CommitRefund, Move
    <3>4. status' # status
      BY <1>1
    <3> QED
      BY <1>1, <3>1, <3>2, <3>3, <3>4 DEF Next, vars, intents, BeginRefund, Pay,
                                          FailToPay, ReportRefund, RefundDies
  <2> QED
    BY <1>1, <2>1, <2>2 DEF IInv, MoneyCameIn
<1>2. IInv /\ [Next]_vars
        => [\A o \in Orders :
               status[o] # "EXPIRED" /\ status'[o] = "EXPIRED" => charges[o] = 0]_vars
  BY <1>1
<1> QED
  BY <1>2, Inductive, PTL DEF Spec, PaidNeverExpires
==============================================================================
