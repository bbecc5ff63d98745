----------------------------- MODULE ShopProofs -----------------------------
(***************************************************************************)
(* Theorems about the parts that MCShop checks beside LegacyOrders, each   *)
(* for any of its constants: payments and statuses of an order, payment    *)
(* intents, registrations, carts and checkouts, the category tree.  They   *)
(* are stated of MCSpec, the specification TLC checks.  ShopAssumption is  *)
(* needed for registrations and categories.                                *)
(***************************************************************************)
EXTENDS MCShop, SequenceTheorems, WellFoundedInduction, TLAPS

------------------------------------------------------------------------------
\* Pay: OrderPayments

LEMMA PayInitInv == Pay!Init => Pay!IInv
BY DEF Pay!Init, Pay!IInv, Pay!TypeOK, Pay!PaymentsFollow, Pay!PayingAgain,
       Pay!SyncsFollow, Pay!WritesFollow, Pay!PaidOnce, Pay!UnpaidStays,
       Pay!PaymentStatuses, Pay!OrderStatuses

\* What IInv says of one order's payment, when only that order is paid.
LEMMA PayInv ==
    ASSUME Pay!IInv, NEW o \in OrdersPaid, Pay!Pay(o), UNCHANGED <<methods,
           refunding, Pay!orders>>,
           paying' \subseteq paying,
           payment[o] = "none" \/ o \in failed \/ refunds[o] > 0
    PROVE  Pay!IInv'
<1> USE DEF Pay!IInv, Pay!Pay
<1>0. /\ UNCHANGED <<refunds, order, updates, hearing, contested, staffed>>
      /\ \A p \in OrdersPaid \ {o} : /\ payment'[p] = payment[p] /\ paid'[p] = paid[p]
                                 /\ syncs'[p] = syncs[p]
      /\ failed \subseteq failed'
      /\ \A p \in failed' : p = o \/ p \in failed
  BY DEF Pay!TypeOK, Pay!orders
<1>1. Pay!TypeOK' /\ Pay!WritesFollow'
  BY <1>0 DEF Pay!TypeOK, Pay!WritesFollow, Pay!PaymentStatuses, Pay!orders
<1>2. CASE methods
  <2>1. payment'[o] = "completed" /\ paid'[o] = paid[o] + 1 /\ failed' = failed
    BY <1>2 DEF Pay!TypeOK
  <2>2. Pay!PaymentsFollow' /\ Pay!PayingAgain' /\ Pay!UnpaidStays'
    BY <1>0, <1>1, <2>1 DEF Pay!TypeOK, Pay!PaymentsFollow, Pay!PayingAgain,
                            Pay!UnpaidStays
  <2>3. Pay!SyncsFollow'
    BY <1>0, <1>1, <2>1 DEF Pay!TypeOK, Pay!SyncsFollow
  <2>4. Pay!PaidOnce'
    BY <1>0, <1>1, <2>1 DEF Pay!TypeOK, Pay!PaymentsFollow, Pay!PaidOnce
  <2> QED
    BY <1>1, <2>2, <2>3, <2>4
<1>3. CASE ~methods
  <2>1. payment'[o] = "failed" /\ paid' = paid /\ syncs' = syncs /\ o \in failed'
    BY <1>3 DEF Pay!TypeOK
  <2>2. /\ Pay!PaymentsFollow' /\ Pay!PayingAgain' /\ Pay!SyncsFollow'
        /\ Pay!UnpaidStays' /\ Pay!PaidOnce'
    BY <1>0, <1>1, <2>1 DEF Pay!TypeOK, Pay!PaymentsFollow, Pay!PayingAgain,
                            Pay!SyncsFollow, Pay!UnpaidStays, Pay!PaidOnce
  <2> QED
    BY <1>1, <2>2
<1> QED
  BY <1>2, <1>3

\* A status update that passes its check changes no payment.
LEMMA PayDecideInv ==
    ASSUME Pay!IInv, NEW o \in OrdersPaid, NEW to \in Pay!OrderStatuses,
           NEW byStaff \in BOOLEAN,
           Pay!Decide(o, to, byStaff),
           UNCHANGED <<Pay!money, order, hearing, staffed>>,
           syncs' \in [OrdersPaid -> SUBSET {"mark", "advance"}],
           \A p \in OrdersPaid : syncs'[p] # {} => paid[p] > 0,
           byStaff \/ paid[o] > 0 \/ o \in staffed
    PROVE  Pay!IInv'
<1> USE DEF Pay!IInv, Pay!money, Pay!ledger
<1>0. contested' \subseteq OrdersPaid
  BY DEF Pay!TypeOK, Pay!Decide, Pay!Contest
<1>1. Pay!TypeOK'
  BY <1>0 DEF Pay!TypeOK, Pay!Decide
<1>2. Pay!SyncsFollow'
  BY DEF Pay!SyncsFollow, Pay!Decide, Pay!TypeOK
<1>3. Pay!WritesFollow'
  <2> DEFINE new == [order |-> o, to |-> to, staff |-> byStaff]
  <2>1. /\ updates' = updates \union {new} /\ new.order = o /\ new.to = to
        /\ to \in Pay!Allowed[order[o]] \union {order[o]}
        /\ contested \subseteq contested'
    BY DEF Pay!Decide, Pay!Contest
  <2>2. o \notin contested' => o \notin hearing /\ \A u \in updates : u.order # o
    BY DEF Pay!Decide, Pay!Contest
  <2> QED
    BY <2>1, <2>2 DEF Pay!WritesFollow
<1> QED
  BY <1>1, <1>2, <1>3 DEF Pay!PaymentsFollow, Pay!PayingAgain, Pay!PaidOnce,
                          Pay!UnpaidStays

\* The synchronisation and the statuses change nothing of the payments.
LEMMA PayStatusInv ==
    ASSUME Pay!IInv, UNCHANGED <<Pay!ledger, paying, refunding>>,
           methods' \in BOOLEAN,
           UNCHANGED Pay!orders,
           syncs' \in [OrdersPaid -> SUBSET {"mark", "advance"}],
           \A p \in OrdersPaid : syncs'[p] # {} => paid[p] > 0
    PROVE  Pay!IInv'
BY DEF Pay!IInv, Pay!ledger, Pay!orders, Pay!TypeOK, Pay!PaymentsFollow,
       Pay!PayingAgain, Pay!SyncsFollow, Pay!WritesFollow, Pay!PaidOnce,
       Pay!UnpaidStays

\* The consumer that has read an order contests it where an update is on its way.
LEMMA PayHearInv ==
    ASSUME Pay!IInv, NEW o \in OrdersPaid, Pay!HearPaid(o)
    PROVE  Pay!IInv'
<1> USE DEF Pay!IInv, Pay!HearPaid, Pay!money, Pay!ledger
<1>1. Pay!TypeOK' /\ Pay!SyncsFollow'
  BY DEF Pay!TypeOK, Pay!SyncsFollow, Pay!Contest
<1>2. Pay!WritesFollow'
  <2>1. /\ contested \subseteq contested'
        /\ o \notin contested' => \A u \in updates : u.order # o
    BY DEF Pay!Contest
  <2> QED
    BY <2>1 DEF Pay!WritesFollow
<1> QED
  BY <1>1, <1>2 DEF Pay!PaymentsFollow, Pay!PayingAgain, Pay!PaidOnce,
                    Pay!UnpaidStays

\* What it writes, or does not write, ends it.
LEMMA PayHeardInv ==
    ASSUME Pay!IInv, NEW o \in OrdersPaid, Pay!SaveHeard(o) \/ Pay!HearingFails(o)
    PROVE  Pay!IInv'
<1> USE DEF Pay!IInv, Pay!money, Pay!ledger
<1>1. /\ o \in hearing /\ hearing' = {}
      /\ order' = order \/ order' = [order EXCEPT ![o] = "PAID"]
      /\ UNCHANGED <<methods, payment, paid, refunds, failed, paying, refunding,
                     syncs, updates, contested, staffed>>
  BY DEF Pay!SaveHeard, Pay!HearingFails
<1>2. paid[o] > 0
  BY <1>1 DEF Pay!SyncsFollow
<1>3. Pay!TypeOK' /\ Pay!SyncsFollow' /\ Pay!UnpaidStays'
  BY <1>1, <1>2 DEF Pay!TypeOK, Pay!SyncsFollow, Pay!UnpaidStays, Pay!OrderStatuses
<1>4. Pay!WritesFollow'
  BY <1>1 DEF Pay!WritesFollow, Pay!TypeOK
<1> QED
  BY <1>1, <1>3, <1>4 DEF Pay!PaymentsFollow, Pay!PayingAgain, Pay!PaidOnce

LEMMA PayNextInv ==
    ASSUME Pay!IInv, [Pay!Next]_(Pay!vars)
    PROVE  Pay!IInv'
<1> USE DEF Pay!IInv
<1>1. CASE UNCHANGED Pay!vars
  BY <1>1 DEF Pay!vars, Pay!money, Pay!ledger, Pay!orders, Pay!TypeOK,
              Pay!PaymentsFollow, Pay!PayingAgain, Pay!SyncsFollow,
              Pay!WritesFollow, Pay!PaidOnce, Pay!UnpaidStays
<1>2. CASE Pay!AddMethod
  BY <1>2, PayStatusInv DEF Pay!AddMethod, Pay!TypeOK, Pay!SyncsFollow
<1>3. ASSUME NEW o \in OrdersPaid, Pay!FirstPayment(o)
      PROVE  Pay!IInv'
  BY <1>3, PayInv DEF Pay!FirstPayment
<1>4. ASSUME NEW o \in OrdersPaid, Pay!PaidAlready(o)
      PROVE  Pay!IInv'
  <2>1. /\ syncs' \in [OrdersPaid -> SUBSET {"mark", "advance"}]
        /\ \A p \in OrdersPaid : syncs'[p] # {} => paid[p] > 0
    BY <1>4 DEF Pay!PaidAlready, Pay!TypeOK, Pay!PaymentsFollow, Pay!SyncsFollow
  <2> QED
    BY <1>4, <2>1, PayStatusInv DEF Pay!PaidAlready, Pay!TypeOK, Pay!money
<1>5. ASSUME NEW o \in OrdersPaid, NEW c \in Customers, Pay!BeginPayment(o, c)
      PROVE  Pay!IInv'
  <2>1. Pay!TypeOK'
    BY <1>5 DEF Pay!BeginPayment, Pay!TypeOK, Pay!ledger, Pay!orders
  <2>2. Pay!PayingAgain'
    BY <1>5 DEF Pay!BeginPayment, Pay!PayingAgain, Pay!PaymentsFollow, Pay!ledger
  <2> QED
    BY <1>5, <2>1, <2>2 DEF Pay!BeginPayment, Pay!ledger, Pay!orders,
                            Pay!PaymentsFollow, Pay!SyncsFollow, Pay!WritesFollow,
                            Pay!PaidOnce, Pay!UnpaidStays
<1>6. ASSUME NEW o \in OrdersPaid, NEW c \in Customers, Pay!BeginRefund(o, c)
      PROVE  Pay!IInv'
  <2>1. Pay!TypeOK'
    BY <1>6 DEF Pay!BeginRefund, Pay!TypeOK, Pay!ledger, Pay!orders
  <2> QED
    BY <1>6, <2>1 DEF Pay!BeginRefund, Pay!ledger, Pay!orders, Pay!PaymentsFollow,
                      Pay!PayingAgain, Pay!SyncsFollow, Pay!WritesFollow,
                      Pay!PaidOnce, Pay!UnpaidStays
<1>7. ASSUME NEW q \in paying, Pay!CommitPayment(q)
      PROVE  Pay!IInv'
  <2>1. q[1] \in OrdersPaid /\ (q[1] \in failed \/ refunds[q[1]] > 0)
    BY DEF Pay!TypeOK, Pay!PayingAgain
  <2> QED
    BY <1>7, <2>1, PayInv DEF Pay!CommitPayment
<1>8. ASSUME NEW r \in refunding, Pay!CommitRefund(r)
      PROVE  Pay!IInv'
  <2>1. r[1] \in OrdersPaid
    BY DEF Pay!TypeOK
  <2>2. /\ Pay!TypeOK'
        /\ payment'[r[1]] = "refunded" /\ refunds'[r[1]] > 0
        /\ \A p \in OrdersPaid : refunds'[p] = 0 => refunds[p] = 0
        /\ \A p \in OrdersPaid \ {r[1]} :
              payment'[p] = payment[p] /\ refunds'[p] = refunds[p]
        /\ UNCHANGED <<paid, failed, paying, syncs, order, updates, hearing, contested,
                       staffed>>
    BY <1>8, <2>1 DEF Pay!CommitRefund, Pay!TypeOK, Pay!PaymentStatuses, Pay!orders
  <2>3. Pay!PaymentsFollow' /\ Pay!PaidOnce'
    BY <2>1, <2>2 DEF Pay!PaymentsFollow, Pay!PaidOnce
  <2>4. Pay!PayingAgain'
    BY <2>1, <2>2 DEF Pay!PayingAgain, Pay!TypeOK
  <2> QED
    BY <2>2, <2>3, <2>4 DEF Pay!SyncsFollow, Pay!WritesFollow, Pay!UnpaidStays
<1>9. ASSUME NEW o \in OrdersPaid, Pay!StaffUpdate(o)
      PROVE  Pay!IInv'
  <2>1. PICK to \in Pay!OrderStatuses : Pay!Decide(o, to, TRUE)
    BY <1>9 DEF Pay!StaffUpdate
  <2> QED
    BY <1>9, <2>1, PayDecideInv DEF Pay!StaffUpdate, Pay!TypeOK, Pay!SyncsFollow
<1>10. ASSUME NEW o \in OrdersPaid, Pay!RequestReturn(o)
       PROVE  Pay!IInv'
  <2>1. paid[o] > 0 \/ o \in staffed
    BY <1>10 DEF Pay!RequestReturn, Pay!UnpaidStays, Pay!TypeOK
  <2>2. "RETURN_REQUESTED" \in Pay!OrderStatuses
    BY DEF Pay!OrderStatuses
  <2> QED
    BY <1>10, <2>1, <2>2, PayDecideInv DEF Pay!RequestReturn, Pay!TypeOK,
                                           Pay!SyncsFollow
<1>11. ASSUME NEW o \in OrdersPaid,
Pay!MarkPaid(o) \/ Pay!AdvanceToProcessing(o) \/ Pay!SyncFails(o)
       PROVE  Pay!IInv'
  <2>1. paid[o] > 0
    BY <1>11 DEF Pay!MarkPaid, Pay!AdvanceToProcessing, Pay!SyncFails,
                 Pay!SyncsFollow
  <2>2. /\ syncs' \in [OrdersPaid -> SUBSET {"mark", "advance"}]
        /\ \A p \in OrdersPaid : syncs'[p] # {} => paid[p] > 0
    <3>1. CASE Pay!MarkPaid(o)
      BY <2>1, <3>1 DEF Pay!MarkPaid, Pay!TypeOK, Pay!SyncsFollow
    <3>2. CASE Pay!AdvanceToProcessing(o)
      BY <2>1, <3>2 DEF Pay!AdvanceToProcessing, Pay!TypeOK, Pay!SyncsFollow
    <3>3. CASE Pay!SyncFails(o)
      BY <2>1, <3>3 DEF Pay!SyncFails, Pay!TypeOK, Pay!SyncsFollow
    <3> QED
      BY <1>11, <3>1, <3>2, <3>3
  <2>3. "PAID" \in Pay!OrderStatuses /\ "PROCESSING" \in Pay!OrderStatuses
    BY DEF Pay!OrderStatuses
  <2>4. \/ \E to \in Pay!OrderStatuses :
              /\ Pay!Decide(o, to, FALSE)
              /\ UNCHANGED <<Pay!money, order, hearing, staffed>>
        \/ UNCHANGED <<Pay!money, Pay!orders>>
    BY <1>11, <2>3 DEF Pay!MarkPaid, Pay!AdvanceToProcessing, Pay!SyncFails,
                       Pay!orders
  <2>5. ASSUME UNCHANGED <<Pay!money, Pay!orders>>
        PROVE  Pay!IInv'
    BY <2>2, <2>5, PayStatusInv DEF Pay!money, Pay!TypeOK
  <2> QED
    BY <2>1, <2>2, <2>4, <2>5, PayDecideInv
<1>12. ASSUME NEW u \in updates, Pay!CommitUpdate(u)
       PROVE  Pay!IInv'
  <2>1. u.order \in OrdersPaid /\ u.to \in Pay!OrderStatuses /\ u.staff \in BOOLEAN
    BY DEF Pay!TypeOK
  <2>2. Pay!TypeOK'
    BY <1>12, <2>1 DEF Pay!CommitUpdate, Pay!TypeOK, Pay!money, Pay!ledger
  <2>3. u.staff \/ paid[u.order] > 0 \/ u.order \in staffed
    BY DEF Pay!SyncsFollow
  <2>4. Pay!UnpaidStays'
    BY <1>12, <2>1, <2>3 DEF Pay!CommitUpdate, Pay!UnpaidStays, Pay!TypeOK,
                             Pay!money, Pay!ledger
  <2>5. Pay!SyncsFollow'
    BY <1>12 DEF Pay!CommitUpdate, Pay!SyncsFollow, Pay!money, Pay!ledger
  <2>6. Pay!WritesFollow'
    <3>1. /\ updates' = updates \ {u} /\ UNCHANGED <<hearing, contested>>
          /\ \A p \in OrdersPaid \ {u.order} : order'[p] = order[p]
      BY <1>12, <2>1 DEF Pay!CommitUpdate, Pay!TypeOK
    <3>2. \A v \in updates : v.order \in OrdersPaid
      BY DEF Pay!TypeOK
    <3>3. hearing \subseteq OrdersPaid
      BY DEF Pay!TypeOK
    <3> QED
      BY <3>1, <3>2, <3>3 DEF Pay!WritesFollow
  <2> QED
    BY <1>12, <2>2, <2>4, <2>5, <2>6 DEF Pay!CommitUpdate, Pay!money, Pay!ledger,
                                         Pay!PaymentsFollow, Pay!PayingAgain,
                                         Pay!PaidOnce
<1>13. ASSUME NEW o \in OrdersPaid,
              Pay!HearPaid(o) \/ Pay!SaveHeard(o) \/ Pay!HearingFails(o)
       PROVE  Pay!IInv'
  BY <1>13, PayHearInv, PayHeardInv
<1> QED
  BY <1>1, <1>2, <1>3, <1>4, <1>5, <1>6, <1>7, <1>8, <1>9, <1>10, <1>11, <1>12,
     <1>13
     DEF Pay!Next

\* A status is written as it was decided, and an order that nobody contests has the
\* status on which that was.
LEMMA PayStatusMoves ==
    ASSUME Pay!IInv, [Pay!Next]_(Pay!vars), NEW o \in OrdersPaid \ contested
    PROVE  order'[o] \in Pay!Allowed[order[o]] \union {order[o]}
<1>1. CASE order' = order
  BY <1>1
<1>2. ASSUME NEW u \in updates, Pay!CommitUpdate(u)
      PROVE  order'[o] \in Pay!Allowed[order[o]] \union {order[o]}
  BY <1>2 DEF Pay!CommitUpdate, Pay!IInv, Pay!TypeOK, Pay!WritesFollow
<1>3. ASSUME NEW p \in OrdersPaid, Pay!SaveHeard(p)
      PROVE  order'[o] \in Pay!Allowed[order[o]] \union {order[o]}
  <2>1. CASE p # o
    BY <1>3, <2>1 DEF Pay!SaveHeard, Pay!IInv, Pay!TypeOK
  <2>2. CASE p = o
    BY <1>3, <2>2 DEF Pay!SaveHeard, Pay!IInv, Pay!TypeOK, Pay!WritesFollow,
                      Pay!Allowed
  <2> QED
    BY <2>1, <2>2
<1>4. CASE UNCHANGED Pay!vars
  BY <1>1, <1>4 DEF Pay!vars, Pay!orders
<1>5. CASE Pay!Next
  <2> USE DEF Pay!orders
  <2>1. CASE \/ Pay!AddMethod
             \/ \E p \in OrdersPaid :
                   \/ Pay!FirstPayment(p) \/ Pay!PaidAlready(p)
                   \/ \E c \in Customers : Pay!BeginPayment(p, c) \/ Pay!BeginRefund(p, c)
             \/ \E q \in paying : Pay!CommitPayment(q)
             \/ \E x \in refunding : Pay!CommitRefund(x)
    BY <1>1, <2>1 DEF Pay!AddMethod, Pay!FirstPayment, Pay!PaidAlready,
                      Pay!BeginPayment, Pay!BeginRefund, Pay!CommitPayment,
                      Pay!CommitRefund
  <2>2. CASE \E p \in OrdersPaid :
                \/ Pay!StaffUpdate(p) \/ Pay!RequestReturn(p) \/ Pay!MarkPaid(p)
                \/ Pay!AdvanceToProcessing(p) \/ Pay!SyncFails(p)
                \/ Pay!HearPaid(p) \/ Pay!HearingFails(p)
    BY <1>1, <2>2 DEF Pay!StaffUpdate, Pay!RequestReturn, Pay!MarkPaid,
                      Pay!AdvanceToProcessing, Pay!SyncFails, Pay!HearPaid,
                      Pay!HearingFails
  <2> QED
    BY <1>2, <1>3, <1>5, <2>1, <2>2 DEF Pay!Next
<1> QED
  BY <1>4, <1>5

------------------------------------------------------------------------------
\* Account: Accounts

LEMMA AccountInitInv == Account!Init => Account!IInv
<1> SUFFICES ASSUME Account!Init PROVE Account!IInv
  OBVIOUS
<1>1. \A r \in Requests : reg[r].at = "idle"
  BY DEF Account!Init
<1>2. Account!TypeOK
  BY ShopAssumption DEF Account!Init, Account!TypeOK, Account!Steps,
                        Account!Progress
<1> QED
  BY <1>1, <1>2 DEF Account!Init, Account!IInv, Account!UsersFollow,
                    Account!OneCreator, Account!AccountWhole, Account!At,
                    Account!Registering

\* A request that only moves on, or is ended, while users and profiles stay.
LEMMA AccountMoveInv ==
    ASSUME Account!IInv, NEW r \in Requests, NEW s \in Account!Steps, Account!Go(r, s),
           UNCHANGED <<users, profiles>>, creations' \subseteq creations,
           s = "done" => r \in users /\ profiles[r] = "full",
           s = "refused" => r \notin users,
           s \in {"post", "wait", "erase"} => r \in users,
           r \in users => s \in {"post", "wait", "erase", "done", "crashed"}
    PROVE  Account!IInv'
<1> USE DEF Account!IInv, Account!Go
<1>1. /\ Account!TypeOK'
      /\ reg'[r].at = s
      /\ \A p \in Requests \ {r} : reg'[p] = reg[p]
  BY DEF Account!TypeOK
<1>2. Account!UsersFollow' /\ Account!AccountWhole'
  BY <1>1 DEF Account!UsersFollow, Account!AccountWhole, Account!Registering,
              Account!At
<1>3. Account!OneCreator'
  BY DEF Account!OneCreator
<1> QED
  BY <1>1, <1>2, <1>3

\* Only calls and their callers' waiting change.
LEMMA AccountCallsInv ==
    ASSUME Account!IInv, UNCHANGED <<reg, users, profiles>>,
           creations' \subseteq creations
    PROVE  Account!IInv'
BY DEF Account!IInv, Account!TypeOK, Account!UsersFollow, Account!OneCreator,
       Account!AccountWhole, Account!Registering, Account!At

\* A commit of a call advances one profile, and never takes anything from one
\* that is complete.
LEMMA AccountCommitInv ==
    ASSUME Account!IInv, NEW c \in creations, Account!Commit(c), UNCHANGED users,
           creations' = (creations \ {c}) \union Account!Following(c),
           \/ c[3] = "full" /\ Account!Heard(c) /\ Account!Go(c[1], "done")
           \/ UNCHANGED reg
    PROVE  Account!IInv'
<1> USE DEF Account!IInv
<1>1. /\ c[1] \in Requests /\ c[2] \in 1..MaxAttempts
      /\ c[3] \in {"row", "roles", "full"} /\ c = <<c[1], c[2], c[3]>>
  BY DEF Account!TypeOK
<1>2. /\ profiles' \in [Requests -> Account!Progress]
      /\ profiles'[c[1]] = c[3]
      /\ \A p \in Requests \ {c[1]} : profiles'[p] = profiles[p]
  BY <1>1 DEF Account!Commit, Account!TypeOK, Account!Progress
<1>3. profiles[c[1]] # "full"
  BY <1>1 DEF Account!Commit, Account!OneCreator
<1>4. creations' \subseteq Requests \X (1..MaxAttempts) \X {"row", "roles", "full"}
  BY <1>1 DEF Account!TypeOK, Account!Following
<1>5. \A d \in creations \ {c} : d[1] = c[1] => d[3] = "row"
  <2>1. ASSUME NEW d \in creations \ {c}, d[1] = c[1], d[3] # "row"
        PROVE  FALSE
    <3>1. CASE c[3] = "row"
      BY <1>1, <2>1, <3>1 DEF Account!Commit, Account!OneCreator, Account!TypeOK
    <3>2. CASE c[3] # "row"
      BY <2>1, <3>2 DEF Account!OneCreator
    <3> QED
      BY <3>1, <3>2
  <2> QED
    BY <2>1
<1>6. \A d \in creations' :
         \/ d \in creations \ {c}
         \/ d = <<c[1], c[2], "roles">> /\ c[3] = "row"
         \/ d = <<c[1], c[2], "full">> /\ c[3] = "roles"
  BY <1>1 DEF Account!Following
<1>7. Account!OneCreator'
  <2> SUFFICES ASSUME NEW d \in creations'
               PROVE  /\ d[3] = "roles" => profiles'[d[1]] = "row"
                      /\ d[3] = "full" => profiles'[d[1]] = "roles"
                      /\ d[3] # "row" => \A e \in creations' :
                                            e[1] = d[1] /\ e[3] # "row" => e = d
    BY DEF Account!OneCreator
  <2>1. CASE d[1] = c[1]
    BY <1>1, <1>2, <1>5, <1>6, <2>1
  <2>2. CASE d[1] # c[1]
    <3>1. d \in creations /\ d[1] \in Requests
      BY <1>6, <2>2 DEF Account!TypeOK
    <3>2. \A e \in creations' : e[1] = d[1] => e \in creations
      BY <1>6, <2>2
    <3> QED
      BY <1>2, <2>2, <3>1, <3>2 DEF Account!OneCreator
  <2> QED
    BY <2>1, <2>2
<1>8. CASE UNCHANGED reg
  <2>1. Account!TypeOK'
    BY <1>2, <1>4, <1>8 DEF Account!TypeOK
  <2>2. Account!UsersFollow'
    BY <1>8 DEF Account!UsersFollow, Account!Registering, Account!At
  <2>3. \A r \in Requests : profiles[r] = "full" => profiles'[r] = "full"
    BY <1>2, <1>3
  <2>4. Account!AccountWhole'
    BY <1>8, <2>3 DEF Account!AccountWhole, Account!Registering, Account!At
  <2> QED
    BY <1>7, <2>1, <2>2, <2>4
<1>9. CASE c[3] = "full" /\ Account!Heard(c) /\ Account!Go(c[1], "done")
  <2>1. /\ reg'[c[1]].at = "done"
        /\ \A p \in Requests \ {c[1]} : reg'[p] = reg[p]
        /\ Account!TypeOK'
    BY <1>1, <1>2, <1>4, <1>9 DEF Account!TypeOK, Account!Go, Account!Steps
  <2>2. c[1] \in users
    BY <1>1, <1>9 DEF Account!Heard, Account!UsersFollow, Account!Registering,
                      Account!At
  <2>3. Account!UsersFollow' /\ Account!AccountWhole'
    BY <1>1, <1>2, <1>9, <2>1, <2>2 DEF Account!UsersFollow, Account!AccountWhole,
                                        Account!Registering, Account!At
  <2> QED
    BY <1>7, <2>1, <2>3
<1> QED
  BY <1>8, <1>9

LEMMA AccountNextInv ==
    ASSUME Account!IInv, [Account!Next]_(Account!vars)
    PROVE  Account!IInv'
<1> USE DEF Account!IInv
<1>1. CASE UNCHANGED Account!vars
  BY <1>1, AccountCallsInv DEF Account!vars
<1>2. ASSUME NEW r \in Requests,
             Account!Begin(r) \/ Account!CheckName(r) \/ Account!TimeOut(r)
             \/ Account!BreakerOpen(r)
      PROVE  Account!IInv'
  <2> USE <1>2 DEF Account!Steps
  <2>1. CASE Account!Begin(r)
    BY <2>1, AccountMoveInv DEF Account!Begin, Account!At, Account!UsersFollow,
                                Account!Registering
  <2>2. CASE Account!CheckName(r)
    BY <2>2, AccountMoveInv DEF Account!CheckName, Account!At, Account!UsersFollow,
                                Account!Registering
  <2>3. CASE Account!TimeOut(r)
    BY <2>3, AccountMoveInv DEF Account!TimeOut, Account!At, Account!UsersFollow,
                                Account!Registering
  <2>4. CASE Account!BreakerOpen(r)
    BY <2>4, AccountMoveInv DEF Account!BreakerOpen, Account!At,
                                Account!UsersFollow, Account!Registering
  <2> QED
    BY <2>1, <2>2, <2>3, <2>4
<1>3. ASSUME NEW r \in Requests, Account!SaveUser(r)
      PROVE  Account!IInv'
  <2>1. r \notin users
    BY <1>3 DEF Account!SaveUser, Account!At, Account!UsersFollow,
                Account!Registering
  <2>2. CASE Account!Taken(reg[r].name)
    BY <1>3, <2>1, <2>2, AccountMoveInv DEF Account!SaveUser, Account!Steps
  <2>3. CASE ~Account!Taken(reg[r].name)
    <3>1. /\ reg'[r].at = "post" /\ users' = users \union {r}
          /\ \A p \in Requests \ {r} : reg'[p] = reg[p]
          /\ UNCHANGED <<profiles, creations>>
          /\ Account!TypeOK'
      BY <1>3, <2>3 DEF Account!SaveUser, Account!Go, Account!TypeOK, Account!Steps
    <3>2. Account!UsersFollow' /\ Account!AccountWhole'
      BY <3>1 DEF Account!UsersFollow, Account!AccountWhole, Account!Registering,
                  Account!At
    <3> QED
      BY <3>1, <3>2 DEF Account!OneCreator
  <2> QED
    BY <2>2, <2>3
<1>4. ASSUME NEW r \in Requests, Account!Post(r)
      PROVE  Account!IInv'
  <2>0. reg[r].calls \in 0..MaxAttempts /\ reg[r].calls + 1 \in 1..MaxAttempts
    BY <1>4, ShopAssumption DEF Account!Post, Account!TypeOK
  <2>a. [at |-> "wait", name |-> reg[r].name, calls |-> reg[r].calls + 1]
           \in [at : Account!Steps, name : Names, calls : 0..MaxAttempts]
    BY <2>0 DEF Account!TypeOK, Account!Steps
  <2>b. reg' = [reg EXCEPT ![r] =
                   [at |-> "wait", name |-> reg[r].name,
                    calls |-> reg[r].calls + 1]]
    BY <1>4 DEF Account!Post
  <2>1. /\ reg'[r].at = "wait" /\ reg[r].at = "post"
        /\ reg' \in [Requests -> [at : Account!Steps, name : Names,
                                  calls : 0..MaxAttempts]]
        /\ \A p \in Requests \ {r} : reg'[p] = reg[p]
        /\ UNCHANGED <<users, profiles>>
    BY <1>4, <2>a, <2>b DEF Account!Post, Account!At, Account!TypeOK
  <2>2. Account!TypeOK'
    BY <1>4, <2>0, <2>1 DEF Account!Post, Account!TypeOK
  <2>3. Account!UsersFollow' /\ Account!AccountWhole'
    BY <2>1 DEF Account!UsersFollow, Account!AccountWhole, Account!Registering,
                Account!At
  <2>4. Account!OneCreator'
    BY <1>4 DEF Account!Post, Account!OneCreator
  <2> QED
    BY <2>2, <2>3, <2>4
<1>5. ASSUME NEW r \in Requests, Account!EraseUser(r)
      PROVE  Account!IInv'
  <2>1. /\ reg'[r].at = "refused" /\ users' = users \ {r}
        /\ \A p \in Requests \ {r} : reg'[p] = reg[p]
        /\ UNCHANGED <<profiles, creations>>
        /\ Account!TypeOK'
    BY <1>5 DEF Account!EraseUser, Account!Go, Account!TypeOK, Account!Steps
  <2>2. Account!UsersFollow' /\ Account!AccountWhole'
    BY <2>1 DEF Account!UsersFollow, Account!AccountWhole, Account!Registering,
                Account!At
  <2> QED
    BY <2>1, <2>2 DEF Account!OneCreator
<1>6. ASSUME NEW r \in Requests, Account!Crash(r)
      PROVE  Account!IInv'
  BY <1>6, AccountMoveInv DEF Account!Crash, Account!Steps
<1>7. ASSUME NEW c \in creations, Account!CreateProfile(c)
      PROVE  Account!IInv'
  BY <1>7, AccountCommitInv DEF Account!CreateProfile
<1>8. ASSUME NEW c \in creations, Account!CreationFails(c)
      PROVE  Account!IInv'
  <2>1. c[1] \in Requests
    BY DEF Account!TypeOK
  <2>2. CASE Account!Heard(c)
    BY <1>8, <2>1, <2>2, AccountMoveInv DEF Account!CreationFails, Account!Heard,
                                            Account!At, Account!UsersFollow,
                                            Account!Registering, Account!Steps
  <2>3. CASE ~Account!Heard(c)
    BY <1>8, <2>3, AccountCallsInv DEF Account!CreationFails
  <2> QED
    BY <2>2, <2>3
<1>9. ASSUME NEW c \in creations, Account!CreationDies(c)
      PROVE  Account!IInv'
  BY <1>9, AccountCallsInv DEF Account!CreationDies
<1> QED
  BY <1>1, <1>2, <1>3, <1>4, <1>5, <1>6, <1>7, <1>8, <1>9 DEF Account!Next

------------------------------------------------------------------------------
\* The cart and its checkouts

LEMMA CartInitInv == Cart!Init => Cart!IInv
BY DEF Cart!Init, Cart!IInv, Cart!TypeOK, Cart!StepsFollow, Cart!AddsFollow,
       Cart!ReadsAgree, Cart!ClearedGone, Cart!EarlierOver, Cart!UnitsKept,
       Cart!Steps, Cart!Over

\* A unit that goes into the cart at once was never there.
LEMMA CartAddAtOnceInv ==
    ASSUME Cart!IInv, NEW u \in Units, Cart!AddAtOnce(u)
    PROVE  Cart!IInv'
<1> USE DEF Cart!AddAtOnce, Cart!checkouts
<1>0. /\ cart' = cart \union {u} /\ added' = added \union {u} /\ u \notin added
      /\ UNCHANGED <<shop, removed, expired, adding, raced, checkout, orders, earlier>>
  OBVIOUS
<1>1. \A a \in adding : ~a.row
  BY DEF Cart!IInv, Cart!AddsFollow
<1>2. Cart!TypeOK' /\ Cart!StepsFollow' /\ Cart!EarlierOver'
  BY <1>0 DEF Cart!IInv, Cart!TypeOK, Cart!StepsFollow, Cart!EarlierOver
<1>3. Cart!AddsFollow' /\ Cart!ReadsAgree'
  BY <1>0, <1>1 DEF Cart!IInv, Cart!AddsFollow, Cart!ReadsAgree
<1>4. Cart!ClearedGone'
  BY <1>0, <1>1 DEF Cart!IInv, Cart!ClearedGone, Cart!StepsFollow
<1>5. Cart!UnitsKept'
  BY <1>0 DEF Cart!IInv, Cart!UnitsKept, Cart!Ordered
<1> QED
  BY <1>2, <1>3, <1>4, <1>5 DEF Cart!IInv

\* An addition that meets another one spoils the units of the row.
LEMMA CartBeginAddInv ==
    ASSUME Cart!IInv, NEW u \in Units, Cart!BeginAdd(u)
    PROVE  Cart!IInv'
<1> DEFINE new == [unit |-> u, read |-> cart, row |-> TRUE]
<1> USE DEF Cart!BeginAdd, Cart!checkouts
<1>0. /\ shop = "integer" /\ cart # {} /\ u \notin added
      /\ \A a \in adding : a.unit # u
      /\ adding' = adding \union {new}
      /\ new.unit = u /\ new.read = cart /\ new.row
      /\ raced \subseteq raced'
      /\ adding # {} => /\ cart \subseteq raced' /\ u \in raced'
                        /\ \A a \in adding : a.unit \in raced'
      /\ UNCHANGED <<shop, cart, added, removed, expired, checkout, orders, earlier>>
  OBVIOUS
<1>1. Cart!TypeOK'
  <2>1. {a.unit : a \in adding} \subseteq Units
    BY DEF Cart!IInv, Cart!TypeOK
  <2>2. raced' \subseteq Units
    BY <2>1 DEF Cart!IInv, Cart!TypeOK
  <2>3. new \in [unit : Units, read : SUBSET Units, row : BOOLEAN]
    BY DEF Cart!IInv, Cart!TypeOK
  <2> QED
    BY <1>0, <2>2, <2>3 DEF Cart!IInv, Cart!TypeOK
<1>2. Cart!StepsFollow' /\ Cart!EarlierOver'
  BY <1>0 DEF Cart!IInv, Cart!StepsFollow, Cart!EarlierOver
<1>3. Cart!AddsFollow'
  BY <1>0 DEF Cart!IInv, Cart!AddsFollow
<1>4. Cart!ReadsAgree'
  <2>1. \A a \in adding : a.row => /\ cart \subseteq a.read \union raced \union removed
                                   /\ a.read \subseteq cart \union raced \union removed
    BY DEF Cart!IInv, Cart!ReadsAgree
  <2>2. \A a, b \in adding : a.row /\ b.row /\ a # b =>
           a.unit \in raced /\ b.read \subseteq a.read \union raced \union removed
    BY DEF Cart!IInv, Cart!ReadsAgree
  <2> QED
    BY <1>0, <2>1, <2>2 DEF Cart!ReadsAgree
<1>5. Cart!ClearedGone'
  BY <1>0 DEF Cart!IInv, Cart!ClearedGone
<1>6. Cart!UnitsKept'
  BY <1>0 DEF Cart!IInv, Cart!UnitsKept, Cart!Ordered
<1> QED
  BY <1>1, <1>2, <1>3, <1>4, <1>5, <1>6 DEF Cart!IInv

\* The sum that is written loses only what raced.
LEMMA CartSaveAddInv ==
    ASSUME Cart!IInv, NEW a \in adding, Cart!SaveAdd(a)
    PROVE  Cart!IInv'
<1> USE DEF Cart!SaveAdd, Cart!checkouts
<1>0. /\ a.row
      /\ cart' = a.read \union {a.unit} /\ added' = added \union {a.unit}
      /\ adding' = adding \ {a}
      /\ UNCHANGED <<shop, removed, expired, raced, checkout, orders, earlier>>
  OBVIOUS
<1>1. a.unit \in Units /\ a.read \subseteq Units
  BY DEF Cart!IInv, Cart!TypeOK
<1>2. a.unit \notin added /\ a.read \subseteq added /\ shop = "integer"
  BY <1>0 DEF Cart!IInv, Cart!AddsFollow
<1>3. Cart!TypeOK'
  BY <1>0, <1>1 DEF Cart!IInv, Cart!TypeOK
<1>4. Cart!StepsFollow' /\ Cart!EarlierOver'
  BY <1>0 DEF Cart!IInv, Cart!StepsFollow, Cart!EarlierOver
<1>5. Cart!AddsFollow'
  BY <1>0, <1>2 DEF Cart!IInv, Cart!AddsFollow
<1>6. Cart!ReadsAgree'
  <2>1. \A b \in adding : b.row /\ b # a =>
           /\ a.unit \in raced /\ b.unit \in raced
           /\ b.read \subseteq a.read \union raced \union removed
           /\ a.read \subseteq b.read \union raced \union removed
    BY <1>0 DEF Cart!IInv, Cart!ReadsAgree
  <2>2. \A b, c \in adding : b.row /\ c.row /\ b # c =>
           b.unit \in raced /\ c.read \subseteq b.read \union raced \union removed
    BY DEF Cart!IInv, Cart!ReadsAgree
  <2> QED
    BY <1>0, <2>1, <2>2 DEF Cart!ReadsAgree
<1>7. Cart!ClearedGone'
  BY <1>0, <1>2 DEF Cart!IInv, Cart!ClearedGone, Cart!StepsFollow
<1>8. Cart!UnitsKept'
  <2>1. cart \subseteq cart' \union raced \union removed
    BY <1>0 DEF Cart!IInv, Cart!ReadsAgree
  <2> QED
    BY <1>0, <2>1 DEF Cart!IInv, Cart!UnitsKept, Cart!Ordered
<1> QED
  BY <1>3, <1>4, <1>5, <1>6, <1>7, <1>8 DEF Cart!IInv

LEMMA CartAddFailsInv ==
    ASSUME Cart!IInv, NEW a \in adding, Cart!AddFails(a)
    PROVE  Cart!IInv'
<1> USE DEF Cart!AddFails, Cart!checkouts
<1>1. /\ Cart!TypeOK' /\ Cart!StepsFollow' /\ Cart!EarlierOver'
      /\ Cart!AddsFollow' /\ Cart!UnitsKept'
  BY DEF Cart!IInv, Cart!TypeOK, Cart!StepsFollow, Cart!EarlierOver,
         Cart!AddsFollow, Cart!UnitsKept, Cart!Ordered
<1>2. Cart!ReadsAgree' /\ Cart!ClearedGone'
  BY DEF Cart!IInv, Cart!ReadsAgree, Cart!ClearedGone
<1> QED
  BY <1>1, <1>2 DEF Cart!IInv

\* Whoever empties the cart, the additions that wait find no row.
LEMMA CartEmptiedRows ==
    ASSUME Cart!TypeOK, Cart!AddsFollow, Cart!Emptied, UNCHANGED shop, added \subseteq added'
    PROVE  /\ adding' \subseteq [unit : Units, read : SUBSET Units, row : BOOLEAN]
           /\ \A a \in adding' : ~a.row /\ a.read \subseteq added'
           /\ \A a \in adding' : shop = "integer"
           /\ Cart!AddsFollow'
<1>1. \A b \in adding' : \E a \in adding : b = [a EXCEPT !.row = FALSE]
  BY DEF Cart!Emptied
<1>2. \A a \in adding : a \in [unit : Units, read : SUBSET Units, row : BOOLEAN]
  BY DEF Cart!TypeOK
<1>3. \A b \in adding' : \E a \in adding :
         b = [unit |-> a.unit, read |-> a.read, row |-> FALSE]
  BY <1>1, <1>2
<1>4. ASSUME NEW b \in adding'
      PROVE  /\ b \in [unit : Units, read : SUBSET Units, row : BOOLEAN]
             /\ ~b.row /\ b.read \subseteq added' /\ shop = "integer"
  <2>1. PICK a \in adding : b = [unit |-> a.unit, read |-> a.read, row |-> FALSE]
    BY <1>3
  <2>2. b.unit = a.unit /\ b.read = a.read /\ ~b.row
    BY <2>1
  <2>3. a.unit \in Units /\ a.read \in SUBSET Units
    BY <1>2
  <2>4. b \in [unit : Units, read : SUBSET Units, row : BOOLEAN]
    BY <2>1, <2>3
  <2> QED
    BY <2>2, <2>4 DEF Cart!AddsFollow
<1>5. ASSUME NEW a \in adding', NEW b \in adding', a.unit = b.unit
      PROVE  a = b
  <2>1. PICK x \in adding : a = [unit |-> x.unit, read |-> x.read, row |-> FALSE]
    BY <1>3
  <2>2. PICK y \in adding : b = [unit |-> y.unit, read |-> y.read, row |-> FALSE]
    BY <1>3
  <2>3. x.unit = y.unit
    BY <1>5, <2>1, <2>2
  <2> QED
    BY <2>1, <2>2, <2>3 DEF Cart!AddsFollow
<1> QED
  BY <1>4, <1>5 DEF Cart!AddsFollow, Cart!Emptied

LEMMA CartRemoveInv ==
    ASSUME Cart!IInv, Cart!Remove
    PROVE  Cart!IInv'
<1> USE DEF Cart!Remove, Cart!checkouts
<1>0. /\ Cart!Emptied /\ cart' = {} /\ removed' = removed \union cart
      /\ UNCHANGED <<shop, added, expired, raced, checkout, orders, earlier>>
  BY DEF Cart!Emptied
<1>1. /\ adding' \subseteq [unit : Units, read : SUBSET Units, row : BOOLEAN]
      /\ \A a \in adding' : ~a.row
      /\ Cart!AddsFollow'
  BY <1>0, CartEmptiedRows DEF Cart!IInv
<1>2. Cart!TypeOK'
  BY <1>0, <1>1 DEF Cart!IInv, Cart!TypeOK
<1>3. Cart!StepsFollow' /\ Cart!EarlierOver' /\ Cart!ReadsAgree' /\ Cart!ClearedGone'
  BY <1>0, <1>1 DEF Cart!IInv, Cart!StepsFollow, Cart!EarlierOver, Cart!ReadsAgree,
                    Cart!ClearedGone
<1>4. Cart!UnitsKept'
  BY <1>0 DEF Cart!IInv, Cart!UnitsKept, Cart!Ordered
<1> QED
  BY <1>1, <1>2, <1>3, <1>4 DEF Cart!IInv

LEMMA CartExpireInv ==
    ASSUME Cart!IInv, Cart!Expire
    PROVE  Cart!IInv'
<1> USE DEF Cart!Expire, Cart!checkouts
<1>0. /\ Cart!Emptied /\ cart' = {} /\ expired' = expired \union cart
      /\ UNCHANGED <<shop, added, removed, raced, checkout, orders, earlier>>
  BY DEF Cart!Emptied
<1>1. /\ adding' \subseteq [unit : Units, read : SUBSET Units, row : BOOLEAN]
      /\ \A a \in adding' : ~a.row
      /\ Cart!AddsFollow'
  BY <1>0, CartEmptiedRows DEF Cart!IInv
<1>2. Cart!TypeOK'
  BY <1>0, <1>1 DEF Cart!IInv, Cart!TypeOK
<1>3. Cart!StepsFollow' /\ Cart!EarlierOver' /\ Cart!ReadsAgree' /\ Cart!ClearedGone'
  BY <1>0, <1>1 DEF Cart!IInv, Cart!StepsFollow, Cart!EarlierOver, Cart!ReadsAgree,
                    Cart!ClearedGone
<1>4. Cart!UnitsKept'
  BY <1>0 DEF Cart!IInv, Cart!UnitsKept, Cart!Ordered
<1> QED
  BY <1>1, <1>2, <1>3, <1>4 DEF Cart!IInv

\* A lower number takes units out; a higher one brings units that were never there,
\* and that an add_item which has read the row does not know of.
LEMMA CartSetQuantityInv ==
    ASSUME Cart!IInv, Cart!SetQuantity
    PROVE  Cart!IInv'
<1>1. ASSUME NEW kept \in (SUBSET cart) \ {{}},
             cart' = kept, removed' = removed \union (cart \ kept),
             UNCHANGED <<added, raced>>
      PROVE  Cart!IInv'
  <2>1. /\ cart' \subseteq cart /\ cart' # {}
        /\ removed' = removed \union (cart \ cart')
        /\ cart \subseteq cart' \union removed' /\ removed \subseteq removed'
        /\ UNCHANGED <<shop, added, expired, adding, raced, checkout, orders, earlier>>
    BY <1>1 DEF Cart!SetQuantity, Cart!checkouts
  <2>2. Cart!TypeOK'
    BY <2>1 DEF Cart!IInv, Cart!TypeOK
  <2>3. Cart!StepsFollow' /\ Cart!EarlierOver' /\ Cart!AddsFollow'
    BY <2>1 DEF Cart!IInv, Cart!StepsFollow, Cart!EarlierOver, Cart!AddsFollow
  <2>4. Cart!ReadsAgree' /\ Cart!ClearedGone'
    BY <2>1 DEF Cart!IInv, Cart!ReadsAgree, Cart!ClearedGone
  <2>5. Cart!UnitsKept'
    BY <2>1 DEF Cart!IInv, Cart!UnitsKept, Cart!Ordered
  <2> QED
    BY <2>2, <2>3, <2>4, <2>5 DEF Cart!IInv
<1>2. ASSUME NEW more \in SUBSET {u \in Units \ added : \A a \in adding : a.unit # u},
             cart' = cart \union more, added' = added \union more,
             raced' = IF adding = {} THEN raced ELSE raced \union more,
             UNCHANGED removed
      PROVE  Cart!IInv'
  <2>1. /\ more \subseteq Units /\ more \intersect added = {}
        /\ \A a \in adding : a.unit \notin more
        /\ cart # {} /\ raced \subseteq raced' /\ raced' \subseteq raced \union more
        /\ adding # {} => more \subseteq raced'
        /\ UNCHANGED <<shop, removed, expired, adding, checkout, orders, earlier>>
    BY <1>2 DEF Cart!SetQuantity, Cart!checkouts
  <2>2. Cart!TypeOK'
    BY <1>2, <2>1 DEF Cart!IInv, Cart!TypeOK
  <2>3. Cart!StepsFollow' /\ Cart!EarlierOver' /\ Cart!AddsFollow'
    BY <1>2, <2>1 DEF Cart!IInv, Cart!StepsFollow, Cart!EarlierOver, Cart!AddsFollow
  <2>4. Cart!ReadsAgree'
    BY <1>2, <2>1 DEF Cart!IInv, Cart!ReadsAgree
  <2>5. Cart!ClearedGone'
    BY <1>2, <2>1 DEF Cart!IInv, Cart!ClearedGone, Cart!StepsFollow
  <2>6. Cart!UnitsKept'
    BY <1>2, <2>1 DEF Cart!IInv, Cart!UnitsKept, Cart!Ordered
  <2> QED
    BY <2>2, <2>3, <2>4, <2>5, <2>6 DEF Cart!IInv
<1> QED
  BY <1>1, <1>2 DEF Cart!SetQuantity

\* A checkout that reads the cart reads nothing that an earlier one cleared.
LEMMA CartReadCartInv ==
    ASSUME Cart!IInv, NEW c \in Checkouts, Cart!ReadCart(c)
    PROVE  Cart!IInv'
<1> USE DEF Cart!ReadCart, Cart!adds
<1>0. /\ checkout[c].at = "idle" /\ checkout'[c].at = "read"
      /\ checkout'[c].items = cart /\ checkout'[c].cleared = checkout[c].cleared
      /\ \A d \in Checkouts \ {c} : checkout'[d] = checkout[d] /\ earlier'[d] = earlier[d]
      /\ earlier'[c] = {d \in Checkouts : checkout[d].at \in Cart!Over}
      /\ UNCHANGED <<shop, cart, added, removed, expired, adding, raced, orders>>
  BY DEF Cart!IInv, Cart!TypeOK
<1>1. Cart!TypeOK'
  BY <1>0 DEF Cart!IInv, Cart!TypeOK, Cart!Steps
<1>2. Cart!StepsFollow'
  BY <1>0 DEF Cart!IInv, Cart!StepsFollow, Cart!AddsFollow
<1>3. Cart!AddsFollow' /\ Cart!ReadsAgree'
  BY <1>0 DEF Cart!IInv, Cart!AddsFollow, Cart!ReadsAgree
<1>4. Cart!EarlierOver'
  BY <1>0 DEF Cart!IInv, Cart!EarlierOver, Cart!Over
<1>5. ~checkout[c].cleared /\ c \notin earlier'[c]
      /\ \A d \in Checkouts : c \notin earlier[d]
  BY <1>0 DEF Cart!IInv, Cart!StepsFollow, Cart!EarlierOver, Cart!Over
<1>6. Cart!ClearedGone'
  <2> SUFFICES ASSUME NEW d \in Checkouts, checkout'[d].cleared
               PROVE  /\ checkout'[d].items \intersect cart = {}
                      /\ \A a \in adding : a.row => checkout'[d].items \intersect a.read = {}
                      /\ \A e \in Checkouts : d \in earlier'[e] =>
                            checkout'[d].items \intersect checkout'[e].items = {}
    BY <1>0 DEF Cart!ClearedGone
  <2>1. d # c /\ checkout'[d] = checkout[d]
    BY <1>0, <1>5
  <2>2. /\ checkout[d].items \intersect cart = {}
        /\ \A a \in adding : a.row => checkout[d].items \intersect a.read = {}
        /\ \A e \in Checkouts : d \in earlier[e] =>
              checkout[d].items \intersect checkout[e].items = {}
    BY <2>1 DEF Cart!IInv, Cart!ClearedGone
  <2>3. \A e \in Checkouts \ {c} : earlier'[e] = earlier[e] /\ checkout'[e] = checkout[e]
    BY <1>0
  <2>4. checkout'[d].items = checkout[d].items /\ checkout'[c].items = cart
    BY <1>0, <2>1
  <2> QED
    BY <2>2, <2>3, <2>4
<1>7. Cart!UnitsKept'
  BY <1>0, <1>5 DEF Cart!IInv, Cart!UnitsKept, Cart!Ordered
<1> QED
  BY <1>1, <1>2, <1>3, <1>4, <1>6, <1>7 DEF Cart!IInv

\* What a checkout that only changes its step has to keep.
LEMMA CartGoInv ==
    ASSUME Cart!IInv, NEW c \in Checkouts, NEW step \in Cart!Steps, Cart!Go(c, step),
           UNCHANGED <<shop, cart, Cart!adds, earlier>>,
           orders' = orders \/ orders' = [orders EXCEPT ![c] = checkout[c].items],
           checkout[c].at \notin Cart!Over,
           step \in {"placed", "done", "failed"},
           step = "placed" => orders' # orders \/ orders[c] = checkout[c].items,
           step = "placed" => shop = "integer" /\ ~checkout[c].cleared,
           step = "placed" => orders'[c] = checkout[c].items,
           shop = "uuid" /\ orders' # orders => checkout[c].cleared,
           checkout[c].at = "cleared" =>
              step = "failed" \/ orders' = [orders EXCEPT ![c] = checkout[c].items]
    PROVE  Cart!IInv'
<1> USE DEF Cart!Go, Cart!adds
<1>0. /\ checkout'[c].at = step
      /\ checkout'[c].items = checkout[c].items
      /\ checkout'[c].cleared = checkout[c].cleared
      /\ \A d \in Checkouts \ {c} : checkout'[d] = checkout[d] /\ orders'[d] = orders[d]
      /\ orders'[c] = orders[c] \/ orders'[c] = checkout[c].items
      /\ orders[c] \subseteq orders'[c]
      /\ UNCHANGED <<shop, cart, added, removed, expired, adding, raced, earlier>>
  BY DEF Cart!IInv, Cart!TypeOK, Cart!StepsFollow
<1>1. Cart!TypeOK'
  BY <1>0 DEF Cart!IInv, Cart!TypeOK, Cart!Steps
<1>2. Cart!StepsFollow'
  BY <1>0 DEF Cart!IInv, Cart!StepsFollow, Cart!TypeOK, Cart!Steps
<1>3. Cart!AddsFollow' /\ Cart!ReadsAgree'
  BY <1>0 DEF Cart!IInv, Cart!AddsFollow, Cart!ReadsAgree
<1>4. Cart!EarlierOver'
  BY <1>0 DEF Cart!IInv, Cart!EarlierOver
<1>6. Cart!ClearedGone'
  BY <1>0 DEF Cart!IInv, Cart!ClearedGone
<1>7. Cart!UnitsKept'
  <2>1. \A u \in added : Cart!Ordered(u) => Cart!Ordered(u)'
    BY <1>0 DEF Cart!Ordered
  <2>2. checkout[c].at = "cleared" => step = "failed" \/ orders'[c] = checkout[c].items
    BY <1>0 DEF Cart!IInv, Cart!TypeOK
  <2>3. SUFFICES ASSUME NEW u \in added,
                        u \notin cart \union removed \union expired \union raced,
                        ~Cart!Ordered(u)'
                 PROVE  \E d \in Checkouts :
                           /\ checkout'[d].cleared
                           /\ \/ u \notin checkout'[d].items
                              \/ shop = "uuid" /\ checkout'[d].at \in {"cleared", "failed"}
    BY <1>0 DEF Cart!UnitsKept
  <2>4. PICK d \in Checkouts :
           /\ checkout[d].cleared
           /\ \/ u \notin checkout[d].items
              \/ shop = "uuid" /\ checkout[d].at \in {"cleared", "failed"}
    BY <2>1, <2>3 DEF Cart!IInv, Cart!UnitsKept
  <2>5. CASE d # c
    BY <1>0, <2>4, <2>5
  <2>6. CASE d = c
    <3>1. CASE u \notin checkout[d].items
      BY <1>0, <2>4, <2>6, <3>1
    <3>2. CASE u \in checkout[d].items
      <4>1. checkout[c].at = "cleared" /\ shop = "uuid"
        BY <2>4, <2>6, <3>2 DEF Cart!Over
      <4>2. u \notin orders'[c]
        BY <2>3 DEF Cart!Ordered
      <4>3. step = "failed"
        BY <2>2, <2>6, <3>2, <4>1, <4>2
      <4> QED
        BY <1>0, <2>4, <2>6, <4>1, <4>3
    <3> QED
      BY <3>1, <3>2
  <2> QED
    BY <2>5, <2>6
<1> QED
  BY <1>1, <1>2, <1>3, <1>4, <1>6, <1>7 DEF Cart!IInv

\* A checkout that clears the cart takes for good what it has read.
LEMMA CartClearInv ==
    ASSUME Cart!IInv, NEW c \in Checkouts, NEW step \in Cart!Steps, Cart!Clear(c, step),
           UNCHANGED orders,
           \/ checkout[c].at = "read" /\ step = "cleared" /\ shop = "uuid"
           \/ checkout[c].at = "placed" /\ step = "done"
    PROVE  Cart!IInv'
<1> USE DEF Cart!Clear
<1>0. /\ Cart!Emptied /\ cart' = {}
      /\ checkout'[c].at = step /\ checkout'[c].cleared
      /\ checkout'[c].items = checkout[c].items
      /\ \A d \in Checkouts \ {c} : checkout'[d] = checkout[d]
      /\ UNCHANGED <<shop, added, removed, expired, raced, orders, earlier>>
  BY DEF Cart!IInv, Cart!TypeOK, Cart!Emptied
<1>1. /\ adding' \subseteq [unit : Units, read : SUBSET Units, row : BOOLEAN]
      /\ \A a \in adding' : ~a.row
      /\ Cart!AddsFollow'
  BY <1>0, CartEmptiedRows DEF Cart!IInv
<1>2. Cart!TypeOK'
  BY <1>0, <1>1 DEF Cart!IInv, Cart!TypeOK
<1>3. Cart!StepsFollow'
  BY <1>0 DEF Cart!IInv, Cart!StepsFollow
<1>4. Cart!ReadsAgree'
  BY <1>1 DEF Cart!ReadsAgree
<1>5. Cart!EarlierOver' /\ \A d \in Checkouts : c \notin earlier[d]
  BY <1>0 DEF Cart!IInv, Cart!EarlierOver, Cart!Over
<1>6. Cart!ClearedGone'
  <2> SUFFICES ASSUME NEW d \in Checkouts, checkout'[d].cleared,
                      NEW e \in Checkouts, d \in earlier[e]
               PROVE  checkout'[d].items \intersect checkout'[e].items = {}
    BY <1>0, <1>1 DEF Cart!ClearedGone
  <2>1. d # c
    BY <1>5
  <2>2. checkout'[d] = checkout[d] /\ checkout'[e].items = checkout[e].items
    BY <1>0, <2>1
  <2> QED
    BY <2>2 DEF Cart!IInv, Cart!ClearedGone
<1>7. Cart!UnitsKept'
  <2> SUFFICES ASSUME NEW u \in added, u \notin removed \union expired \union raced,
                      ~Cart!Ordered(u)
               PROVE  \E d \in Checkouts :
                           /\ checkout'[d].cleared
                           /\ \/ u \notin checkout'[d].items
                              \/ shop = "uuid" /\ checkout'[d].at \in {"cleared", "failed"}
    BY <1>0 DEF Cart!UnitsKept, Cart!Ordered
  <2>1. CASE u \notin checkout[c].items
    BY <1>0, <2>1
  <2>2. CASE checkout[c].at = "placed"
    BY <1>0, <2>1, <2>2 DEF Cart!IInv, Cart!StepsFollow, Cart!Ordered
  <2>3. CASE step = "cleared" /\ shop = "uuid"
    BY <1>0, <2>3
  <2> QED
    BY <2>1, <2>2, <2>3
<1> QED
  BY <1>1, <1>2, <1>3, <1>4, <1>5, <1>6, <1>7 DEF Cart!IInv

LEMMA CartNextInv == Cart!IInv /\ [Cart!Next]_(Cart!vars) => Cart!IInv'
<1> SUFFICES ASSUME Cart!IInv, [Cart!Next]_(Cart!vars) PROVE Cart!IInv'
  OBVIOUS
<1>1. ASSUME NEW u \in Units, Cart!AddAtOnce(u) \/ Cart!BeginAdd(u) PROVE Cart!IInv'
  BY <1>1, CartAddAtOnceInv, CartBeginAddInv
<1>2. ASSUME NEW a \in adding, Cart!SaveAdd(a) \/ Cart!AddFails(a) PROVE Cart!IInv'
  BY <1>2, CartSaveAddInv, CartAddFailsInv
<1>3. CASE Cart!Remove \/ Cart!Expire \/ Cart!SetQuantity
  BY <1>3, CartRemoveInv, CartExpireInv, CartSetQuantityInv
<1>4. ASSUME NEW c \in Checkouts, Cart!ReadCart(c) PROVE Cart!IInv'
  BY <1>4, CartReadCartInv
<1>5. ASSUME NEW c \in Checkouts, Cart!Fail(c) \/ Cart!RollBack(c) PROVE Cart!IInv'
  BY <1>5, CartGoInv DEF Cart!Fail, Cart!RollBack, Cart!Steps, Cart!Over
<1>6. ASSUME NEW c \in Checkouts, Cart!ClearInTransaction(c) PROVE Cart!IInv'
  BY <1>6, CartClearInv DEF Cart!ClearInTransaction, Cart!Steps
<1>7. ASSUME NEW c \in Checkouts, Cart!CommitCheckout(c) PROVE Cart!IInv'
  <2>1. checkout[c].cleared
    BY <1>7 DEF Cart!CommitCheckout, Cart!IInv, Cart!StepsFollow
  <2> QED
    BY <1>7, <2>1, CartGoInv DEF Cart!CommitCheckout, Cart!Steps, Cart!Over
<1>8. ASSUME NEW c \in Checkouts, Cart!PlaceOrder(c) PROVE Cart!IInv'
  <2>1. PICK step \in {"placed", "failed"} : Cart!Go(c, step)
    BY <1>8 DEF Cart!PlaceOrder
  <2>2. ~checkout[c].cleared /\ shop = "integer" /\ checkout[c].at = "read"
    BY <1>8 DEF Cart!PlaceOrder, Cart!IInv, Cart!StepsFollow
  <2>3. orders' = [orders EXCEPT ![c] = checkout[c].items]
    BY <1>8 DEF Cart!PlaceOrder
  <2>4. orders'[c] = checkout[c].items
    BY <2>3 DEF Cart!IInv, Cart!TypeOK
  <2>5. orders[c] = {}
    BY <2>2 DEF Cart!IInv, Cart!StepsFollow
  <2> QED
    BY <1>8, <2>1, <2>2, <2>3, <2>4, <2>5, CartGoInv
       DEF Cart!PlaceOrder, Cart!Steps, Cart!Over
<1>9. ASSUME NEW c \in Checkouts, Cart!DeleteCart(c) PROVE Cart!IInv'
  <2>1. CASE Cart!Clear(c, "done") /\ UNCHANGED orders
    BY <1>9, <2>1, CartClearInv DEF Cart!DeleteCart, Cart!Steps
  <2>2. CASE Cart!Go(c, "failed") /\ UNCHANGED <<shop, cart, Cart!adds, orders, earlier>>
    BY <1>9, <2>2, CartGoInv DEF Cart!DeleteCart, Cart!Steps, Cart!Over
  <2> QED
    BY <1>9, <2>1, <2>2 DEF Cart!DeleteCart
<1>10. CASE UNCHANGED Cart!vars
  BY <1>10 DEF Cart!vars, Cart!adds, Cart!checkouts, Cart!IInv, Cart!TypeOK,
               Cart!StepsFollow, Cart!AddsFollow, Cart!ReadsAgree, Cart!ClearedGone,
               Cart!EarlierOver, Cart!UnitsKept, Cart!Ordered
<1> QED
  BY <1>1, <1>2, <1>3, <1>4, <1>5, <1>6, <1>7, <1>8, <1>9, <1>10 DEF Cart!Next

\* Two orders share a unit only if neither checkout came after the other.
LEMMA CartOrderedOnceHolds == Cart!IInv => Cart!OrderedOnce
<1> SUFFICES ASSUME Cart!IInv, NEW c \in Checkouts, NEW d \in Checkouts, c # d,
                    orders[c] \intersect orders[d] # {},
                    ~(shop = "integer" /\ (~checkout[c].cleared \/ ~checkout[d].cleared))
             PROVE  c \notin earlier[d] /\ d \notin earlier[c]
  BY DEF Cart!OrderedOnce
<1>1. checkout[c].cleared /\ checkout[d].cleared
  BY DEF Cart!IInv, Cart!TypeOK, Cart!StepsFollow
<1>2. checkout[c].items \intersect checkout[d].items # {}
  BY DEF Cart!IInv, Cart!StepsFollow
<1> QED
  BY <1>1, <1>2 DEF Cart!IInv, Cart!ClearedGone

------------------------------------------------------------------------------
\* Category: Categories

\* What is below a category: each has its parent there, and all the children it has.
Subtree(B, c) ==
    /\ B \subseteq Cats /\ c \in B
    /\ \A k \in live : parent[k] \in B => k \in B
    /\ \A k \in B \ {c} : k \in live /\ parent[k] \in B

LEMMA CategoryBelowIs ==
    ASSUME live \subseteq Cats, NEW c \in Cats
    PROVE  Subtree(Category!Descendants(c) \union {c}, c)
<1> DEFINE B == Category!Descendants(c) \union {c}
<1> USE DEF Subtree
<1>1. B = {k \in Cats : \A S \in SUBSET Cats :
             c \in S /\ (\A j \in live : parent[j] \in S => j \in S) => k \in S}
  BY DEF Category!Descendants
<1>2. \A k \in live : parent[k] \in B => k \in B
  BY <1>1
<1>3. \A k \in B \ {c} : k \in live /\ parent[k] \in B
  <2> DEFINE S == {c} \union {k \in B : k \in live /\ parent[k] \in B}
  <2>1. S \in SUBSET Cats /\ c \in S /\ S \subseteq B
    BY <1>1
  <2>2. \A j \in live : parent[j] \in S => j \in S
    BY <1>2, <2>1
  <2> HIDE DEF S
  <2>3. B \subseteq S
    BY <1>1, <2>1, <2>2
  <2> QED
    BY <2>3 DEF S
<1> QED
  BY <1>1, <1>2, <1>3

\* A category whose new parent has passed the check is not above that.
LEMMA CategoryParentNotBelow ==
    ASSUME live \subseteq Cats, NEW c \in Cats, NEW p \in Cats,
           c \notin Category!Ancestors(p)
    PROVE  p \notin Category!Descendants(c) \union {c}
<1> DEFINE A == Category!Ancestors(p)
           S == Cats \ A
<1>1. p \in A /\ \A q \in A : parent[q] \in A \union {Root} \/ parent[q] \notin Cats
  BY DEF Category!Ancestors
<1>2. c \in S /\ \A j \in live : parent[j] \in S => j \in S
  BY <1>1, ShopAssumption
<1>3. S \in SUBSET Cats
  OBVIOUS
<1>4. Category!Descendants(c) \subseteq S
  BY <1>2, <1>3 DEF Category!Descendants
<1> QED
  BY <1>1, <1>2, <1>4

\* What a path has after its first n slugs, and that of one longer by a slug.
After(q, n) == SubSeq(q, n + 1, Len(q))

LEMMA LongerAfter ==
    ASSUME NEW Slugs, NEW q \in Seq(Slugs), NEW s \in Slugs,
           NEW t \in Seq(Slugs), NEW n \in Nat, n <= Len(q)
    PROVE  t \o After(Append(q, s), n) = Append(t \o After(q, n), s)
<1>1. SubSeq(q, n + 1, Len(q)) \in Seq(Slugs)
  BY SubSeqProperties
<1>2. Len(SubSeq(q, n + 1, Len(q))) = Len(q) - n
  BY SubSeqProperties
<1>3. Append(q, s) \in Seq(Slugs) /\ Len(Append(q, s)) = Len(q) + 1
  BY AppendProperties
<1>4. SubSeq(Append(q, s), n + 1, Len(q) + 1) = Append(SubSeq(q, n + 1, Len(q)), s)
  <2> DEFINE l == SubSeq(Append(q, s), n + 1, Len(q) + 1)
             r == Append(SubSeq(q, n + 1, Len(q)), s)
  <2>0. Len(q) \in Nat /\ \A i \in 1..Len(q) : q[i] \in Slugs
    OBVIOUS
  <2>1. /\ \A i \in (n + 1)..(Len(q) + 1) : Append(q, s)[i] \in Slugs
        /\ \A i \in (n + 1)..Len(q) : q[i] \in Slugs
    BY <1>3, <2>0
  <2>2. /\ l \in Seq(Slugs) /\ Len(l) = Len(q) - n + 1
        /\ \A i \in 1..(Len(q) - n + 1) : l[i] = Append(q, s)[n + i]
    <3> DEFINE a == n + 1
               b == Len(q) + 1
               p == Append(q, s)
    <3>1. a \in Int /\ b \in Int /\ a <= b /\ b - a + 1 = Len(q) - n + 1
      BY <2>0
    <3>2. \A i \in a..b : p[i] \in Slugs
      BY <2>1
    <3> HIDE DEF a, b, p
    <3>3. /\ SubSeq(p, a, b) \in Seq(Slugs)
          /\ Len(SubSeq(p, a, b)) = b - a + 1
          /\ \A i \in 1..(b - a + 1) : SubSeq(p, a, b)[i] = p[a + i - 1]
      BY <3>1, <3>2, SubSeqProperties
    <3>4. \A i \in 1..(Len(q) - n + 1) : a + i - 1 = n + i
      BY <2>0 DEF a
    <3> QED
      BY <3>1, <3>3, <3>4 DEF a, b, p
  <2>3. \A i \in 1..(Len(q) - n) : SubSeq(q, n + 1, Len(q))[i] = q[n + i]
    BY <2>0, <2>1, SubSeqProperties
  <2>4. /\ r \in Seq(Slugs) /\ Len(r) = Len(q) - n + 1
        /\ \A i \in 1..(Len(q) - n) : r[i] = q[n + i]
        /\ r[Len(q) - n + 1] = s
    BY <1>1, <1>2, <2>0, <2>3, AppendProperties
  <2>5. \A i \in 1..(Len(q) - n + 1) : l[i] = r[i]
    BY <2>0, <2>2, <2>4
  <2> QED
    BY <2>2, <2>4, <2>5, SeqEqual
<1>5. \A r \in Seq(Slugs) : t \o Append(r, s) = Append(t \o r, s)
  OBVIOUS
<1> QED
  BY <1>1, <1>3, <1>4, <1>5 DEF After

\* Among numbers there is a least.
LEMMA LeastNumber ==
    ASSUME NEW T, T \subseteq Nat, T # {}
    PROVE  \E m \in T : \A n \in T : m <= n
<1> DEFINE less == OpToRel(<, Nat)
<1>1. IsWellFoundedOn(less, Nat)
  BY NatLessThanWellFounded
<1>2. \A i, j \in Nat : i < j => <<i, j>> \in less
  BY DEF OpToRel
<1>2a. T # {} /\ T \subseteq Nat
  OBVIOUS
<1> HIDE DEF less
<1>3. PICK m \in T : \A n \in T : ~(<<n, m>> \in less)
  BY <1>1, <1>2a, WFMin
<1>4. \A n \in T : n \in Nat /\ m \in Nat /\ ~(n < m)
  BY <1>2, <1>2a, <1>3
<1>5. \A n \in T : m <= n
  BY <1>4
<1> QED
  BY <1>5

\* A function that gives each category its parent's path and its slug is fixed by the
\* path on top, where the lengths that len gives go down to the parents.
Follows(f, B, c, top) ==
    f = [k \in B |-> IF k = c THEN top ELSE Append(f[parent[k]], slug[k])]

LEMMA CategoryOneSolution ==
    ASSUME NEW B, NEW c \in B, NEW top, NEW len,
           \A k \in B : len[k] \in Nat,
           \A k \in B \ {c} : parent[k] \in B /\ len[parent[k]] < len[k],
           NEW f, Follows(f, B, c, top), NEW g, Follows(g, B, c, top)
    PROVE  f = g
<1> USE DEF Follows
<1> DEFINE D == {k \in B : f[k] # g[k]}
           T == {len[k] : k \in D}
<1>1. D = {}
  <2> SUFFICES ASSUME D # {}  PROVE FALSE
    OBVIOUS
  <2>1. T \subseteq Nat /\ T # {}
    OBVIOUS
  <2> HIDE DEF T
  <2>2. PICK m \in T : \A n \in T : m <= n
    BY <2>1, LeastNumber
  <2>3. PICK k \in D : m = len[k]
    BY DEF T
  <2>4. \A j \in D : len[j] \in Nat /\ len[k] <= len[j]
    BY <2>2, <2>3 DEF T
  <2>5. k \in B /\ k # c
    OBVIOUS
  <2>6. parent[k] \in B /\ parent[k] \notin D
    <3>1. parent[k] \in B /\ len[parent[k]] < len[k]
      BY <2>5
    <3>2. len[k] \in Nat /\ len[parent[k]] \in Nat
      BY <3>1, <2>5
    <3> HIDE DEF D
    <3> QED
      BY <2>4, <3>1, <3>2
  <2>7. f[parent[k]] = g[parent[k]]
    BY <2>6
  <2>8. f[k] = Append(f[parent[k]], slug[k]) /\ g[k] = Append(g[parent[k]], slug[k])
    BY <2>5
  <2> QED
    BY <2>3, <2>7, <2>8
<1>2. \A k \in B : f[k] = g[k]
  BY <1>1
<1> QED
  BY <1>2

\* The paths that a cascade writes: the new one on top, and below it each from its
\* parent's.  The old paths are the measure of the recursion: each is longer than
\* its parent's, so there is one solution, the new top with the old ends.
Carried(paths, c, top) ==
    LET below == Category!Descendants(c)
    IN  /\ paths \in [Cats -> Seq(Category!Slugs)] /\ paths[c] = top
        /\ \A k \in below : paths[k] = Append(paths[parent[k]], slug[k])
        /\ \A k \in Cats \ (below \union {c}) : paths[k] = path[k]

LEMMA CategoryCascadeIs ==
    ASSUME Category!TypeOK,
           \A k \in live : path[k] = Append(Category!PathOf(parent[k]), slug[k]),
           NEW c \in Cats, NEW e, e.cat = c, NEW top \in Seq(Category!Slugs)
    PROVE  /\ Carried(Category!Cascade(e, top), c, top)
           /\ \A k \in Category!Descendants(c) \union {c} : Len(path[c]) <= Len(path[k])
<1> DEFINE B == Category!Descendants(c) \union {c}
           n == Len(path[c])
           f == [k \in B |-> top \o After(path[k], n)]
           Eq(g) == Follows(g, B, c, top)
<1>0. live \subseteq Cats /\ B = Category!Descendants(c) \union {c}
  BY DEF Category!TypeOK
<1> HIDE DEF B
<1>1. /\ B \subseteq Cats /\ c \in B
      /\ \A k \in live : parent[k] \in B => k \in B
      /\ \A k \in B \ {c} : k \in live /\ parent[k] \in B
  BY <1>0, CategoryBelowIs DEF Subtree
<1>2. /\ \A k \in Cats : path[k] \in Seq(Category!Slugs) /\ Len(path[k]) \in Nat
      /\ \A k \in Cats : slug[k] \in Category!Slugs
  BY DEF Category!TypeOK
<1>3. \A k \in B \ {c} : /\ path[k] = Append(path[parent[k]], slug[k])
                          /\ Len(path[k]) = Len(path[parent[k]]) + 1
  BY <1>1, <1>2, ShopAssumption DEF Category!PathOf
<1>4. \A k \in B : n <= Len(path[k])
  <2> DEFINE S == {k \in B : n <= Len(path[k])}
  <2>1. S \in SUBSET Cats /\ c \in S
    BY <1>1, <1>2
  <2>2. \A j \in live : parent[j] \in S => j \in S
    BY <1>1, <1>2, <1>3
  <2>3. Category!Descendants(c) \subseteq S
    BY <2>1, <2>2 DEF Category!Descendants
  <2> QED
    BY <1>0, <2>1, <2>3
<1>5. /\ f[c] = top
      /\ \A k \in B : f[k] \in Seq(Category!Slugs)
      /\ \A k \in B \ {c} : f[k] = Append(f[parent[k]], slug[k])
  <2>1. f[c] = top
    BY <1>1, <1>2, SubSeqEmpty, ConcatEmptySeq DEF After
  <2>2. ASSUME NEW k \in B
        PROVE  After(path[k], n) \in Seq(Category!Slugs)
    BY <1>1, <1>2, SubSeqProperties DEF After
  <2>3. \A k \in B : f[k] \in Seq(Category!Slugs)
    BY <2>2, ConcatProperties
  <2>4. ASSUME NEW k \in B \ {c}
        PROVE  f[k] = Append(f[parent[k]], slug[k])
    <3> DEFINE q == path[parent[k]]
    <3>1. /\ parent[k] \in B /\ q \in Seq(Category!Slugs) /\ slug[k] \in Category!Slugs
          /\ n \in Nat /\ n <= Len(q) /\ path[k] = Append(q, slug[k])
          /\ Len(path[k]) = Len(q) + 1
      BY <1>1, <1>2, <1>3, <1>4
    <3>2. f[parent[k]] = top \o After(q, n)
      BY <3>1
    <3>3. f[k] = top \o After(Append(q, slug[k]), n)
      BY <3>1
    <3> HIDE DEF f, q, n
    <3> QED
      BY <3>1, <3>2, <3>3, LongerAfter
  <2> QED
    BY <2>1, <2>3, <2>4
<1>6. Eq(f)
  BY <1>1, <1>5 DEF Follows
<1>7. ASSUME NEW g, Eq(g)
      PROVE  g = f
  <2> DEFINE len == [k \in Cats |-> Len(path[k])]
  <2>1. \A k \in B : len[k] \in Nat
    BY <1>1, <1>2
  <2>2. \A k \in B \ {c} : parent[k] \in B /\ len[parent[k]] < len[k]
    BY <1>1, <1>2, <1>3
  <2> HIDE DEF len, f
  <2> QED
    BY <1>1, <1>6, <1>7, <2>1, <2>2, CategoryOneSolution
<1> DEFINE new == CHOOSE g : Eq(g)
<1>8. new = f
  <2>1. Eq(new)
    BY <1>6
  <2> HIDE DEF new, f
  <2> QED
    BY <1>7, <2>1
<1>9. Category!Cascade(e, top) = [k \in Cats |-> IF k \in B THEN new[k] ELSE path[k]]
  BY DEF Category!Cascade, Follows, B
<1>10. \A k \in Cats : Category!Cascade(e, top)[k] = IF k \in B THEN f[k] ELSE path[k]
  BY <1>8, <1>9
<1>11. Category!Cascade(e, top) \in [Cats -> Seq(Category!Slugs)]
  <2> HIDE DEF f, new
  <2> QED
    BY <1>2, <1>5, <1>8, <1>9
<1> HIDE DEF f, n
<1>12. \A k \in B \ {c} :
          Category!Cascade(e, top)[k]
             = Append(Category!Cascade(e, top)[parent[k]], slug[k])
  BY <1>1, <1>5, <1>10
<1>13. B = Category!Descendants(c) \union {c} /\ c \notin Category!Descendants(c)
  BY <1>0 DEF Category!Descendants
<1>14. Carried(Category!Cascade(e, top), c, top)
  BY <1>1, <1>5, <1>10, <1>11, <1>12, <1>13 DEF Carried
<1> QED
  BY <1>4, <1>13, <1>14 DEF n

\* The path of a category, of those in paths.
PathIn(paths, p) == IF p = Root THEN <<>> ELSE paths[p]

LEMMA CategoryLongerPath ==
    ASSUME NEW q \in Seq(Category!Slugs), NEW s \in Category!Slugs
    PROVE  Append(q, s) \in Seq(Category!Slugs) /\ Append(q, s) # <<>>
<1>1. /\ Len(Append(q, s)) = Len(q) + 1 /\ Len(q) \in Nat
      /\ Append(q, s) \in Seq(Category!Slugs)
  BY AppendProperties
<1>2. Append(q, s) # <<>>
  <2>1. Len(<<>>) = 0
    OBVIOUS
  <2> QED
    BY <1>1, <2>1
<1> QED
  BY <1>1, <1>2

LEMMA CategoryInitInv == Category!Init => Category!IInv
<1> SUFFICES ASSUME Category!Init  PROVE Category!IInv
  OBVIOUS
<1>1. \A c \in Cats : <<c, 0>> \in Category!Slugs /\ <<>> \in Seq(Category!Slugs)
  BY DEF Category!Slugs
<1>2. Category!TypeOK
  BY <1>1 DEF Category!Init, Category!TypeOK
<1> QED
  BY <1>2 DEF Category!Init, Category!IInv, Category!PathsAgree,
              Category!ParentsThere, Category!ReadsCurrent

\* What IInv says as long as no changes have overlapped.
LEMMA CategoryInvIs ==
    ASSUME Category!IInv, ~met
    PROVE  /\ Category!TypeOK /\ Category!ParentsThere /\ Category!ReadsCurrent
           /\ \A k \in live : path[k] = Append(Category!PathOf(parent[k]), slug[k])
           /\ \A k \in live : Category!There(k)
<1>1. /\ Category!TypeOK /\ Category!ParentsThere /\ Category!ReadsCurrent
      /\ \A k \in live : path[k] = Append(Category!PathOf(parent[k]), slug[k])
  BY DEF Category!IInv, Category!PathsAgree
<1>2. \A k \in live : /\ Category!PathOf(parent[k]) \in Seq(Category!Slugs)
                       /\ slug[k] \in Category!Slugs
  BY <1>1 DEF Category!TypeOK, Category!PathOf
<1> QED
  BY <1>1, <1>2, CategoryLongerPath DEF Category!There

LEMMA CategoryBeginInv ==
    ASSUME Category!IInv, ~met', NEW c \in Cats, NEW to \in Cats \union {Root},
           NEW renames \in BOOLEAN,
           Category!BeginCreate(c, to) \/ Category!BeginUpdate(c, to, renames)
    PROVE  Category!IInv'
<1>1. ~met /\ UNCHANGED Category!tree /\ met' \in BOOLEAN
  BY DEF Category!BeginCreate, Category!BeginUpdate, Category!Begin, Category!IInv,
         Category!TypeOK
<1>2. PICK rn \in BOOLEAN :
          /\ changes' = {Category!Read(c, to, rn)}
          /\ to \in live \union {Root}
          /\ Category!There(c) => c \in live /\ (to # Root => c \notin Category!Ancestors(to))
  BY <1>1, CategoryInvIs DEF Category!BeginCreate, Category!BeginUpdate,
                             Category!Begin
<1> DEFINE e == Category!Read(c, to, rn)
<1>3. /\ e.cat = c /\ e.to = to /\ e.renames = rn /\ e.live = Category!There(c)
      /\ e = Category!Read(c, to, rn)'
  BY <1>1 DEF Category!Read, Category!There, Category!PathOf, Category!tree
<1>4. e \in [cat : Cats, live : BOOLEAN, parent : Cats \union {Root},
             slug : Category!Slugs, path : Seq(Category!Slugs), to : Cats \union {Root},
             above : Seq(Category!Slugs), renames : BOOLEAN]
  <2>1. Category!PathOf(to) \in Seq(Category!Slugs)
    BY <1>1, CategoryInvIs DEF Category!TypeOK, Category!PathOf
  <2> QED
    BY <1>1, <2>1, CategoryInvIs DEF Category!TypeOK, Category!Read, Category!There
<1>5. Category!Ancestors(to)' = Category!Ancestors(to)
  BY <1>1 DEF Category!Ancestors, Category!tree
<1> HIDE DEF e
<1>6. Category!TypeOK'
  BY <1>1, <1>2, <1>4, CategoryInvIs DEF Category!TypeOK, Category!tree, e
<1>7. Category!ReadsCurrent'
  <2>1. changes' = {e}
    BY <1>2 DEF e
  <2> QED
    BY <1>1, <1>2, <1>3, <1>5, <2>1 DEF Category!ReadsCurrent, Category!tree
<1>8. Category!ParentsThere' /\ Category!PathsAgree'
  BY <1>1, CategoryInvIs DEF Category!ParentsThere, Category!PathsAgree,
                             Category!There, Category!PathOf, Category!tree
<1> QED
  BY <1>6, <1>7, <1>8 DEF Category!IInv

LEMMA CategorySaveCreateInv ==
    ASSUME Category!IInv, ~met', NEW e \in changes, Category!SaveCreate(e)
    PROVE  Category!IInv'
<1> DEFINE c == e.cat
<1>1. ~met /\ changes = {e} /\ changes' = {}
  BY CategoryInvIs DEF Category!SaveCreate, Category!ReadsCurrent
<1>2. /\ c \in Cats /\ ~Category!There(c) /\ c \notin live /\ e.to \in live \union {Root}
      /\ e.above = Category!PathOf(e.to) /\ e.slug = slug[c]
  BY <1>1, CategoryInvIs DEF Category!SaveCreate, Category!ReadsCurrent,
                             Category!TypeOK, Category!Read
<1>3. /\ Category!TypeOK /\ Category!ParentsThere
      /\ \A k \in live : path[k] = Append(Category!PathOf(parent[k]), slug[k])
  BY <1>1, CategoryInvIs
<1>4. Category!PathOf(e.to) \in Seq(Category!Slugs) /\ slug[c] \in Category!Slugs
  BY <1>2, <1>3 DEF Category!TypeOK, Category!PathOf
<1>5. Append(Category!PathOf(e.to), slug[c]) \in Seq(Category!Slugs)
      /\ Append(Category!PathOf(e.to), slug[c]) # <<>>
  BY <1>4, CategoryLongerPath
<1>6. /\ live' = live \union {c} /\ slug' = slug
      /\ parent' = [parent EXCEPT ![c] = e.to]
      /\ path' = [path EXCEPT ![c] = Append(Category!PathOf(e.to), slug[c])]
  BY <1>2 DEF Category!SaveCreate
<1> HIDE DEF c
<1>7. Category!TypeOK'
  BY <1>1, <1>2, <1>3, <1>5, <1>6 DEF Category!TypeOK, Category!SaveCreate
<1>8. /\ path'[c] = Append(Category!PathOf(e.to), slug[c]) /\ parent'[c] = e.to
      /\ \A q \in Cats \ {c} : path'[q] = path[q] /\ parent'[q] = parent[q]
  BY <1>2, <1>3, <1>6 DEF Category!TypeOK
<1>9. \A k \in live' : parent'[k] # c /\ parent'[k] \in Cats \union {Root}
  BY <1>2, <1>3, <1>6, <1>8, ShopAssumption
     DEF Category!ParentsThere, Category!TypeOK
<1>10. \A k \in live' : PathIn(path', parent'[k]) = Category!PathOf(parent'[k])
  BY <1>8, <1>9 DEF Category!PathOf, PathIn
<1>11. \A k \in live' : path'[k] = Append(PathIn(path', parent'[k]), slug'[k])
  <2>1. CASE live' = live \union {c}
    <3>1. ASSUME NEW k \in live
          PROVE  path'[k] = Append(Category!PathOf(parent'[k]), slug'[k])
      <4>1. k \in Cats \ {c}
        BY <1>2, <1>3 DEF Category!TypeOK
      <4> QED
        BY <1>3, <1>6, <1>8, <4>1
    <3>2. path'[c] = Append(Category!PathOf(parent'[c]), slug'[c])
      BY <1>6, <1>8
    <3> QED
      BY <1>10, <2>1, <3>1, <3>2
  <2> QED
    BY <1>6, <2>1
<1>12. \A k \in live' : parent'[k] # Root => Category!There(parent'[k])
  BY <1>1, <1>2, <1>3, <1>6, <1>8, CategoryInvIs
     DEF Category!ParentsThere, Category!TypeOK
<1>13. Category!ParentsThere'
  BY <1>8, <1>9, <1>12 DEF Category!ParentsThere, Category!There
<1> QED
  BY <1>1, <1>7, <1>11, <1>13 DEF Category!IInv, Category!ReadsCurrent,
                                  Category!PathsAgree, Category!PathOf, PathIn

\* The parent of a category that is renamed or moved is not below it.
LEMMA CategoryParentOutside ==
    ASSUME Category!IInv, ~met, NEW c \in live, NEW to \in live \union {Root},
           to # Root => c \notin Category!Ancestors(to),
           NEW p, p \in {to, parent[c]}, p # Root,
           NEW B, B = Category!Descendants(c) \union {c}
    PROVE  p \in Cats \ B /\ Category!There(p)
<1>1. /\ Category!TypeOK /\ live \subseteq Cats
      /\ \A k \in live : path[k] = Append(Category!PathOf(parent[k]), slug[k])
  BY CategoryInvIs DEF Category!TypeOK
<1>2. CASE p = to
  BY <1>1, <1>2, CategoryParentNotBelow, CategoryInvIs
<1>3. CASE p = parent[c]
  <2>1. p \in Cats /\ Category!There(p)
    BY <1>1, <1>3, CategoryInvIs DEF Category!TypeOK, Category!ParentsThere
  <2>2. path[c] = Append(path[p], slug[c])
    BY <1>1, <1>3 DEF Category!PathOf
  <2>3. path[p] \in Seq(Category!Slugs) /\ slug[c] \in Category!Slugs
    BY <1>1, <2>1 DEF Category!TypeOK
  <2>4. Len(path[p]) < Len(path[c])
    BY <2>2, <2>3
  <2>5. \A k \in B : Len(path[c]) <= Len(path[k])
    <3> DEFINE r == [cat |-> c]
    <3>1. r.cat = c /\ <<>> \in Seq(Category!Slugs)
      OBVIOUS
    <3> HIDE DEF r
    <3> QED
      BY <1>1, <3>1, CategoryCascadeIs
  <2>6. Len(path[p]) \in Nat /\ Len(path[c]) \in Nat
    BY <1>1, <2>3 DEF Category!TypeOK
  <2> QED
    BY <2>1, <2>4, <2>5, <2>6
<1> QED
  BY <1>2, <1>3

LEMMA CategorySaveUpdateInv ==
    ASSUME Category!IInv, ~met', NEW e \in changes, Category!SaveUpdate(e)
    PROVE  Category!IInv'
<1> DEFINE c == e.cat
           B == Category!Descendants(c) \union {c}
           p == IF Category!Moves(e) THEN e.to ELSE parent[c]
           named == IF e.renames THEN <<c, slug[c][2] + 1>> ELSE slug[c]
           top == Append(Category!PathOf(p), named)
<1>1. ~met /\ changes = {e} /\ changes' = {} /\ met' = met
  BY CategoryInvIs DEF Category!SaveUpdate, Category!ReadsCurrent
<1>2. /\ c \in Cats /\ c \in live /\ e.to \in live \union {Root}
      /\ e.to # Root => c \notin Category!Ancestors(e.to)
      /\ e.above = Category!PathOf(e.to) /\ e.slug = slug[c] /\ e.parent = parent[c]
      /\ e.path = path[c] /\ e.renames \in BOOLEAN
  BY <1>1, CategoryInvIs DEF Category!SaveUpdate, Category!ReadsCurrent,
                             Category!TypeOK, Category!Read
<1>3. /\ Category!TypeOK /\ Category!ParentsThere /\ live \subseteq Cats
      /\ \A k \in live : /\ path[k] = Append(Category!PathOf(parent[k]), slug[k])
                        /\ Category!There(k)
  BY <1>1, CategoryInvIs DEF Category!TypeOK
<1>4. /\ live' = live /\ slug' = [slug EXCEPT ![c] = named]
      /\ parent' = [parent EXCEPT ![c] = p]
      /\ path' = IF Category!Moves(e) \/ e.renames THEN Category!Cascade(e, top)
                 ELSE [path EXCEPT ![c] = path[c]]
  BY <1>2 DEF Category!SaveUpdate
<1>5. p \in Cats \union {Root} /\ (p # Root => p \notin B /\ Category!There(p))
  <2>1. p \in {e.to, parent[c]} /\ p \in Cats \union {Root}
    BY <1>2, <1>3 DEF Category!TypeOK
  <2>0. B = Category!Descendants(c) \union {c}
    OBVIOUS
  <2> HIDE DEF p, c, B
  <2>2. p # Root => p \in Cats \ B /\ Category!There(p)
    BY <1>1, <1>2, <2>0, <2>1, CategoryParentOutside
  <2> QED
    BY <2>1, <2>2
<1>6. CASE ~(Category!Moves(e) \/ e.renames)
  <2>1. slug' = slug /\ parent' = parent /\ path' = path
    BY <1>2, <1>3, <1>4, <1>6 DEF Category!TypeOK
  <2> QED
    BY <1>1, <1>3, <1>4, <2>1 DEF Category!IInv, Category!TypeOK,
                                  Category!PathsAgree, Category!PathOf,
                                  Category!ParentsThere, Category!There,
                                  Category!ReadsCurrent
<1>7. CASE Category!Moves(e) \/ e.renames
  <2>1. named \in Category!Slugs
    BY <1>2, <1>3 DEF Category!TypeOK, Category!Slugs
  <2>2. Category!PathOf(p) \in Seq(Category!Slugs)
    BY <1>3, <1>5 DEF Category!TypeOK, Category!PathOf
  <2> HIDE DEF named, c, p, B
  <2>3. top \in Seq(Category!Slugs) /\ top # <<>>
    BY <2>1, <2>2, CategoryLongerPath
  <2> HIDE DEF top
  <2>4. /\ path' \in [Cats -> Seq(Category!Slugs)] /\ path'[c] = top
        /\ \A k \in B \ {c} : path'[k] = Append(path'[parent[k]], slug[k])
        /\ \A k \in Cats \ B : path'[k] = path[k]
    <3>1. e.cat = c /\ c \in Cats /\ Category!TypeOK /\ top \in Seq(Category!Slugs)
      BY <1>2, <1>3, <2>3 DEF c
    <3>2. Carried(path', c, top)
      BY <1>3, <1>4, <1>7, <3>1, CategoryCascadeIs
    <3> QED
      BY <3>2 DEF Carried, B
  <2>5. /\ B \subseteq Cats /\ c \in B
        /\ \A k \in live : parent[k] \in B => k \in B
        /\ \A k \in B \ {c} : k \in live /\ parent[k] \in B
    BY <1>2, <1>3, CategoryBelowIs DEF B, Subtree
  <2>6. /\ slug'[c] = named /\ parent'[c] = p
        /\ \A k \in Cats \ {c} : slug'[k] = slug[k] /\ parent'[k] = parent[k]
    BY <1>2, <1>3, <1>4 DEF Category!TypeOK
  <2>7. \A q \in (Cats \ B) \union {Root} : PathIn(path', q) = Category!PathOf(q)
    BY <2>4 DEF Category!PathOf, PathIn
  <2>8. PathIn(path', p) = Category!PathOf(p)
    BY <1>5, <2>7
  <2>9. \A k \in live' : path'[k] = Append(PathIn(path', parent'[k]), slug'[k])
    <3> SUFFICES ASSUME NEW k \in live
                 PROVE  path'[k] = Append(PathIn(path', parent'[k]), slug'[k])
      BY <1>4
    <3>1. CASE k = c
      BY <2>4, <2>6, <2>8, <3>1 DEF top
    <3>2. CASE k \in B \ {c}
      BY <2>4, <2>5, <2>6, <3>2, ShopAssumption DEF PathIn
    <3>3. CASE k \notin B
      <4>1. parent[k] \in (Cats \ B) \union {Root}
        BY <1>3, <2>5, <3>3 DEF Category!TypeOK
      <4>2. PathIn(path', parent[k]) = Category!PathOf(parent[k])
        BY <2>7, <4>1
      <4>3. k \in Cats \ {c} /\ path'[k] = path[k]
        BY <1>3, <2>4, <2>5, <3>3
      <4>4. path[k] = Append(Category!PathOf(parent[k]), slug[k])
        BY <1>3
      <4>5. slug'[k] = slug[k] /\ parent'[k] = parent[k]
        BY <2>6, <4>3
      <4> QED
        BY <4>2, <4>3, <4>4, <4>5
    <3> QED
      BY <3>1, <3>2, <3>3
  <2>10. \A q \in Cats : Category!There(q) => Category!There(q)'
    <3>1. ASSUME NEW q \in B \ {c}  PROVE  path'[q] # <<>>
      <4>1. path'[parent[q]] \in Seq(Category!Slugs) /\ slug[q] \in Category!Slugs
        BY <1>3, <2>4, <2>5 DEF Category!TypeOK
      <4> QED
        BY <2>4, <4>1, CategoryLongerPath
    <3> QED
      BY <2>3, <2>4, <3>1 DEF Category!There
  <2>11. \A k \in live' : parent'[k] # Root => path'[parent'[k]] # <<>>
    <3> SUFFICES ASSUME NEW k \in live, parent'[k] # Root
                 PROVE  path'[parent'[k]] # <<>>
      BY <1>4
    <3>1. parent'[k] \in Cats /\ Category!There(parent'[k])
      BY <1>3, <1>5, <2>6 DEF Category!ParentsThere, Category!TypeOK
    <3> QED
      BY <2>10, <3>1 DEF Category!There
  <2>12. Category!TypeOK'
    BY <1>1, <1>2, <1>3, <1>4, <1>5, <2>1, <2>4 DEF Category!TypeOK
  <2> QED
    BY <1>1, <2>9, <2>11, <2>12 DEF Category!IInv, Category!PathsAgree,
                                    Category!ParentsThere, Category!ReadsCurrent,
                                    Category!PathOf, PathIn, Category!There
<1> QED
  BY <1>6, <1>7

LEMMA CategoryNextInv == Category!IInv /\ [Category!Next]_(Category!vars) => Category!IInv'
<1> SUFFICES ASSUME Category!IInv, [Category!Next]_(Category!vars), ~met'  PROVE Category!IInv'
  BY DEF Category!IInv, Category!PathsAgree
<1>1. ASSUME NEW c \in Cats, NEW to \in Cats \union {Root}, Category!BeginCreate(c, to)
      PROVE  Category!IInv'
  BY <1>1, CategoryBeginInv
<1>2. ASSUME NEW c \in Cats, NEW to \in Cats \union {Root}, NEW renames \in BOOLEAN,
             Category!BeginUpdate(c, to, renames)
      PROVE  Category!IInv'
  BY <1>2, CategoryBeginInv
<1>3. ASSUME NEW e \in changes, Category!SaveCreate(e)
      PROVE  Category!IInv'
  BY <1>3, CategorySaveCreateInv
<1>4. ASSUME NEW e \in changes, Category!SaveUpdate(e)
      PROVE  Category!IInv'
  BY <1>4, CategorySaveUpdateInv
<1>5. ASSUME NEW e \in changes, Category!EditFails(e)
      PROVE  Category!IInv'
  <2>1. ~met /\ UNCHANGED <<Category!tree, met>> /\ changes' = {}
    BY <1>5, CategoryInvIs DEF Category!EditFails, Category!ReadsCurrent
  <2> QED
    BY <2>1, CategoryInvIs DEF Category!IInv, Category!TypeOK, Category!PathsAgree,
                               Category!PathOf, Category!ParentsThere,
                               Category!There, Category!ReadsCurrent, Category!tree
<1>6. ASSUME NEW c \in Cats, Category!Delete(c)
      PROVE  Category!IInv'
  <2>1. /\ ~met /\ live' \subseteq live /\ changes = {} /\ met' \in BOOLEAN
        /\ UNCHANGED <<parent, slug, path, changes>>
    BY <1>6 DEF Category!Delete, Category!IInv, Category!TypeOK
  <2> QED
    BY <2>1, CategoryInvIs DEF Category!IInv, Category!TypeOK, Category!PathsAgree,
                               Category!PathOf, Category!ParentsThere,
                               Category!There, Category!ReadsCurrent
<1>7. CASE UNCHANGED Category!vars
  <2>1. ~met /\ UNCHANGED <<live, parent, slug, path, changes, met>>
    BY <1>7 DEF Category!vars, Category!tree
  <2>2. \A q : Category!Ancestors(q)' = Category!Ancestors(q)
    BY <2>1 DEF Category!Ancestors
  <2>3. Category!TypeOK' /\ Category!PathsAgree' /\ Category!ParentsThere'
    BY <2>1, CategoryInvIs DEF Category!TypeOK, Category!PathsAgree,
                               Category!PathOf, Category!ParentsThere,
                               Category!There
  <2>4. Category!ReadsCurrent'
    BY <2>1, <2>2, CategoryInvIs DEF Category!ReadsCurrent, Category!Read,
                                     Category!PathOf, Category!There
  <2> QED
    BY <2>3, <2>4 DEF Category!IInv
<1> QED
  BY <1>1, <1>2, <1>3, <1>4, <1>5, <1>6, <1>7 DEF Category!Next

------------------------------------------------------------------------------
\* The parts side by side

\* Whatever MCShop does, each part takes one of its steps or none.
LEMMA PartsStep ==
    [MCNext]_<<part, parts>> =>
        /\ [Pay!Next]_(Pay!vars)
        /\ [Account!Next]_(Account!vars)
        /\ [Cart!Next]_(Cart!vars)
        /\ [Category!Next]_(Category!vars)
<1> SUFFICES ASSUME [MCNext]_<<part, parts>>
             PROVE  /\ Pay!Next \/ UNCHANGED Pay!vars
                    /\ Account!Next \/ UNCHANGED Account!vars
                    /\ Cart!Next \/ UNCHANGED Cart!vars
                    /\ Category!Next \/ UNCHANGED Category!vars
  OBVIOUS
<1>1. Pay!Next \/ UNCHANGED pay
  BY DEF MCNext, parts
<1>2. Account!Next \/ UNCHANGED account
  BY DEF MCNext, parts
<1>3. Cart!Next \/ UNCHANGED basket
  BY DEF MCNext, parts
<1>4. Category!Next \/ UNCHANGED catalogue
  BY DEF MCNext, parts
<1> QED
  BY <1>1, <1>2, <1>3, <1>4 DEF pay, account, basket, catalogue, Pay!vars,
                                Pay!money, Pay!ledger, Pay!orders, Account!vars,
                                Cart!vars, Cart!adds, Cart!checkouts, Category!vars,
                                Category!tree

\* Payments, orders and what one tells the other always fit together.
LEMMA PayHolds == MCSpec => []Pay!IInv
<1>1. MCInit => Pay!IInv
  BY PayInitInv DEF MCInit
<1>2. Pay!IInv /\ [MCNext]_<<part, parts>> => Pay!IInv'
  BY PartsStep, PayNextInv
<1> QED
  BY <1>1, <1>2, PTL DEF MCSpec

\* However often a payment is submitted, an order is charged once, unless it had
\* a failed or a refunded payment.
THEOREM ChargedOncePerOrder == MCSpec => []PaidOnce
<1>1. Pay!IInv => PaidOnce
  BY DEF Pay!IInv, PaidOnce
<1> QED
  BY <1>1, PayHolds, PTL

\* No order gets past its payment unpaid, unless staff moved it.
THEOREM UnpaidOrdersWait == MCSpec => []UnpaidStays
<1>1. Pay!IInv => UnpaidStays
  BY DEF Pay!IInv, UnpaidStays
<1> QED
  BY <1>1, PayHolds, PTL

\* Whoever writes the status of an order, and on however old a read, it moves as
\* update_status allows, unless two writes of it were decided at a time.
THEOREM OrdersMoveAsAllowed == MCSpec => StatusMoves
<1>1. Pay!IInv /\ [MCNext]_<<part, parts>> =>
         [\A o \in OrdersPaid \ contested :
             order'[o] \in Pay!Allowed[order[o]] \union {order[o]}]_(Pay!vars)
  BY PartsStep, PayStatusMoves
<1> QED
  BY <1>1, PayHolds, PTL DEF MCSpec, StatusMoves, Pay!StatusMoves

------------------------------------------------------------------------------
\* Intent: PaymentIntents, whose theorems are carried over from PaymentIntentsProofs

IntentP == INSTANCE PaymentIntentsProofs
    WITH Orders <- Intents, MaxAttempts <- MaxFailures, MaxRefunds <- MaxPayBacks,
         refunds <- returns, refunding <- returning

LEMMA IntentSameMove ==
    ASSUME NEW o, NEW to, NEW event, Intent!Move(o, to, event)
    PROVE  IntentP!Move(o, to, event)
BY DEF Intent!Move, IntentP!Move

LEMMA IntentSameKeys ==
    ASSUME NEW k
    PROVE  /\ Intent!KeyFree(k) => IntentP!KeyFree(k)
           /\ Intent!UseKey(k) => IntentP!UseKey(k)
BY DEF Intent!KeyFree, IntentP!KeyFree, Intent!UseKey, IntentP!UseKey

LEMMA IntentSameNext == Intent!Next => IntentP!Next
<1> USE DEF Intent!intents, Intent!provider, IntentP!intents, IntentP!provider
<1>1. ASSUME NEW o, NEW k, Intent!CreatePayment(o, k)
      PROVE  IntentP!CreatePayment(o, k)
  BY <1>1, IntentSameKeys DEF Intent!CreatePayment, IntentP!CreatePayment
<1>2. ASSUME NEW c, NEW o, NEW k, Intent!BeginRefund(c, o, k)
      PROVE  IntentP!BeginRefund(c, o, k)
  BY <1>2, IntentSameKeys DEF Intent!BeginRefund, IntentP!BeginRefund,
                              Intent!Refundable, IntentP!Refundable,
                              Intent!Cardinality, IntentP!Cardinality
<1>3. ASSUME NEW o, Intent!ExpireIntent(o)
      PROVE  IntentP!ExpireIntent(o)
  BY <1>3, IntentSameMove DEF Intent!ExpireIntent, IntentP!ExpireIntent
<1>4. ASSUME NEW o, Intent!Pay(o) \/ Intent!FailToPay(o) \/ Intent!ReportRefund(o)
      PROVE  IntentP!Pay(o) \/ IntentP!FailToPay(o) \/ IntentP!ReportRefund(o)
  BY <1>4 DEF Intent!Pay, IntentP!Pay, Intent!FailToPay, IntentP!FailToPay,
              Intent!ReportRefund, IntentP!ReportRefund
<1>5. ASSUME NEW e, Intent!ProcessWebhook(e)
      PROVE  IntentP!ProcessWebhook(e)
  BY <1>5 DEF Intent!ProcessWebhook, IntentP!ProcessWebhook, Intent!Moved,
              IntentP!Moved, Intent!Move, IntentP!Move
<1>6. ASSUME NEW r, Intent!CommitRefund(r)
      PROVE  IntentP!CommitRefund(r)
  BY <1>6, IntentSameKeys, IntentSameMove DEF Intent!CommitRefund,
     IntentP!CommitRefund, Intent!PayBack, IntentP!PayBack
<1>7. ASSUME NEW r, Intent!RefundDies(r)
      PROVE  IntentP!RefundDies(r)
  BY <1>7 DEF Intent!RefundDies, IntentP!RefundDies, Intent!PayBack, IntentP!PayBack
<1> QED
  BY <1>1, <1>2, <1>3, <1>4, <1>5, <1>6, <1>7 DEF Intent!Next, IntentP!Next

\* What MCShop does to the intents is what PaymentIntents does.
LEMMA IntentHolds == MCSpec => IntentP!Spec
<1>1. MCInit => IntentP!Init
  BY DEF MCInit, Intent!Init, IntentP!Init
<1>2. [MCNext]_<<part, parts>> => [IntentP!Next]_(IntentP!vars)
  <2> SUFFICES ASSUME [MCNext]_<<part, parts>>
               PROVE  IntentP!Next \/ UNCHANGED IntentP!vars
    OBVIOUS
  <2>1. Intent!Next \/ UNCHANGED intent
    BY DEF MCNext, parts
  <2> QED
    BY <2>1, IntentSameNext DEF intent, IntentP!vars, IntentP!intents,
                                IntentP!provider
<1> QED
  BY <1>1, <1>2, PTL DEF MCSpec, IntentP!Spec

\* Who reads the events of an intent in their order knows its status, whatever
\* webhooks, refunds and the expiry worker interleave (PaymentService).
THEOREM IntentStatusTold == MCSpec => []StatusAnnounced
<1>1. IntentP!StatusAnnounced => StatusAnnounced
  BY DEF StatusAnnounced, Intent!StatusAnnounced, IntentP!StatusAnnounced,
         Intent!Announces, IntentP!Announces
<1> QED
  BY <1>1, IntentHolds, IntentP!StatusTold, PTL

\* A charge is recorded and announced once, however often its event comes
\* (process_webhook).
THEOREM IntentChargesExact == MCSpec => []ChargedOnce
<1>1. IntentP!ChargedOnce => ChargedOnce
  BY DEF ChargedOnce, Intent!ChargedOnce, IntentP!ChargedOnce, Intent!Announced,
         IntentP!Announced, Intent!Cardinality, IntentP!Cardinality
<1> QED
  BY <1>1, IntentHolds, IntentP!ChargesExact, PTL

\* Only who has paid is paid back, although refund_payment acts on an old read.
THEOREM IntentRefundsJustified == MCSpec => []RefundNeedsCharge
<1>1. IntentP!RefundNeedsCharge => RefundNeedsCharge
  BY DEF RefundNeedsCharge, Intent!RefundNeedsCharge, IntentP!RefundNeedsCharge,
         Intent!Announced, IntentP!Announced, Intent!Cardinality,
         IntentP!Cardinality
<1> QED
  BY <1>1, IntentHolds, IntentP!RefundsJustified, PTL

\* One idempotency key, one refund (refund_payment).
THEOREM IntentKeysRefundOnce == MCSpec => []KeyedRefundOnce
<1>1. IntentP!KeyedRefundOnce => KeyedRefundOnce
  BY DEF KeyedRefundOnce, Intent!KeyedRefundOnce, IntentP!KeyedRefundOnce
<1> QED
  BY <1>1, IntentHolds, IntentP!KeysRefundOnce, PTL

------------------------------------------------------------------------------

\* Whoever is told of an account has it whole, whoever is refused leaves no user,
\* however often the call that makes the profile is repeated and however late it
\* is executed.
THEOREM AccountsWhole == MCSpec => []AccountWhole
<1>1. MCInit => Account!IInv
  BY AccountInitInv DEF MCInit
<1>2. Account!IInv /\ [MCNext]_<<part, parts>> => Account!IInv'
  BY PartsStep, AccountNextInv
<1>3. Account!IInv => AccountWhole
  BY DEF Account!IInv, AccountWhole
<1> QED
  BY <1>1, <1>2, <1>3, PTL DEF MCSpec

\* The cart, the additions to it and its checkouts always fit together.
LEMMA CartHolds == MCSpec => []Cart!IInv
<1>1. MCInit => Cart!IInv
  BY CartInitInv DEF MCInit
<1>2. Cart!IInv /\ [MCNext]_<<part, parts>> => Cart!IInv'
  BY PartsStep, CartNextInv
<1> QED
  BY <1>1, <1>2, PTL DEF MCSpec

\* However additions, removals and checkouts of the cart are interleaved, a unit
\* stays, is taken out or ordered, or is one of the named losses.
THEOREM UnitsStay == MCSpec => []UnitsKept
<1>1. Cart!IInv => UnitsKept
  BY DEF Cart!IInv, UnitsKept
<1> QED
  BY <1>1, CartHolds, PTL

\* A unit is ordered again only by a checkout that overlapped the first, or in the
\* integer shop if one did not hear of its order.
THEOREM UnitsOrderedOnce == MCSpec => []OrderedOnce
<1>1. Cart!IInv => OrderedOnce
  BY CartOrderedOnceHolds DEF OrderedOnce
<1> QED
  BY <1>1, CartHolds, PTL

\* Every stored path is its parent's with the category's own slug, however often the
\* categories are created, moved, renamed and deleted, while no two edits overlap.
THEOREM PathsFollow == MCSpec => []PathsAgree
<1>1. MCInit => Category!IInv
  BY CategoryInitInv DEF MCInit
<1>2. Category!IInv /\ [MCNext]_<<part, parts>> => Category!IInv'
  BY PartsStep, CategoryNextInv
<1>3. Category!IInv => PathsAgree
  BY DEF Category!IInv, PathsAgree
<1> QED
  BY <1>1, <1>2, <1>3, PTL DEF MCSpec
=============================================================================
