---------------------------- MODULE EventsProofs ----------------------------
(***************************************************************************)
(* Theorems about the parts that MCEvents checks, for any of its           *)
(* constants: rows and relays, interactions and workers, events, templates *)
(* and consumers.                                                          *)
(*                                                                         *)
(* That an event goes out twice only after a crash holds of a relay that   *)
(* can record what it did, so the theorems about OutboxRelay assume        *)
(* RecordsOutcome.  The others rest on EventsAssumption: bounds are        *)
(* numbers, and a message is sent again at least once.                     *)
(***************************************************************************)
EXTENDS MCEvents, WellFoundedInduction, TLAPS

------------------------------------------------------------------------------
\* The relays of an outbox: OutboxRelay

\* The row a relay is at is one of its rows.
LEMMA CurrentIsDue ==
    ASSUME TypeOK, NEW w \in Relays, todo[w] # {}
    PROVE  Current(w) \in todo[w] /\ Current(w) \in Rows
<1>1. todo[w] \subseteq Rows /\ todo[w] \subseteq Nat
  BY RelayAssumption DEF TypeOK, Rows
<1>3. \E m \in todo[w] : \A k \in todo[w] : m <= k
  <2> DEFINE less == OpToRel(<, Nat)
  <2>1. IsWellFoundedOn(less, Nat)
    BY NatLessThanWellFounded
  <2>2. \A i, j \in Nat : i < j => <<i, j>> \in less
    BY DEF OpToRel
  <2> HIDE DEF less
  <2>3. PICK m \in todo[w] : \A k \in todo[w] : ~ (<<k, m>> \in less)
    BY <1>1, <2>1, WFMin
  <2>4. \A k \in todo[w] : ~ (k < m)
    BY <1>1, <2>2, <2>3
  <2> QED
    BY <1>1, <2>4
<1>4. Min(todo[w]) \in todo[w]
  BY <1>3 DEF Min
<1> QED
  BY <1>1, <1>4 DEF Current, First

\* While a relay holds a row, its list stays, and so does its place in it.
LEMMA CurrentStays ==
    ASSUME NEW w \in Relays, todo'[w] = todo[w]
    PROVE  Current(w)' = Current(w)
BY DEF Current, First

LEMMA InitHolds == Init => IInv
BY RelayAssumption DEF Init, IInv, TypeOK, AttemptsLeft, RowsExclusive,
                       SentIsRecorded, Rows

\* Every step keeps the invariant.
LEMMA StepHolds == RecordsOutcome /\ IInv /\ [Next]_vars => IInv'
<1> SUFFICES ASSUME RecordsOutcome, IInv, [Next]_vars PROVE IInv'
  OBVIOUS
<1>t. TypeOK
  BY DEF IInv
<1> USE RelayAssumption
<1>1. ASSUME NEW e \in Rows, Commit(e)
      PROVE  IInv'
  <2>0. \A w \in Relays : Current(w)' = Current(w)
    BY <1>1 DEF Commit, Current
  <2>1. TypeOK'
    BY <1>1, <1>t DEF TypeOK, Commit
  <2>2. AttemptsLeft'
    BY <1>1, <1>t DEF IInv, AttemptsLeft, TypeOK, Commit
  <2>3. RowsExclusive'
    BY <1>1, <1>t, <2>0 DEF IInv, RowsExclusive, TypeOK, Commit
  <2>4. SentIsRecorded'
    BY <1>1, <1>t, <2>0 DEF IInv, SentIsRecorded, TypeOK, Commit
  <2> QED
    BY <2>1, <2>2, <2>3, <2>4 DEF IInv
<1>2. ASSUME NEW w \in Relays, Poll(w)
      PROVE  IInv'
  <2>0. \A x \in Relays \ {w} : todo'[x] = todo[x] /\ at'[x] = at[x] /\ Current(x)' = Current(x)
    BY <1>2, <1>t, CurrentStays DEF TypeOK, Poll
  <2>1. TypeOK'
    BY <1>2, <1>t, <2>0 DEF TypeOK, Poll
  <2>2. AttemptsLeft'
    BY <1>2, <1>t, <2>0 DEF IInv, AttemptsLeft, TypeOK, Poll
  <2>3. RowsExclusive'
    BY <1>2, <1>t, <2>0 DEF IInv, RowsExclusive, TypeOK, Poll
  <2>4. SentIsRecorded'
    BY <1>2, <1>t, <2>0 DEF IInv, RowsExclusive, SentIsRecorded, TypeOK, Poll
  <2> QED
    BY <2>1, <2>2, <2>3, <2>4 DEF IInv
<1>3. ASSUME NEW w \in Relays, Lock(w)
      PROVE  IInv'
  <2>0. \A x \in Relays \ {w} : todo'[x] = todo[x] /\ at'[x] = at[x] /\ Current(x)' = Current(x)
    BY <1>3, <1>t, CurrentStays DEF TypeOK, Lock
  <2>a. Current(w) \in todo[w] /\ Current(w) \in Rows
    BY <1>3, <1>t, CurrentIsDue DEF Lock
  <2>1. TypeOK'
    BY <1>3, <1>t, <2>0, <2>a DEF TypeOK, Lock, Locked, Current, First
  <2>2. AttemptsLeft'
    BY <1>3, <1>t, <2>0, <2>a DEF IInv, AttemptsLeft, TypeOK, Lock, Locked, Current,
                                  First
  <2>3. RowsExclusive'
    BY <1>3, <1>t, <2>0, <2>a DEF IInv, RowsExclusive, TypeOK, Lock, Locked,
                                  Current, First
  <2>4. SentIsRecorded'
    BY <1>3, <1>t, <2>0, <2>a DEF IInv, RowsExclusive, SentIsRecorded, TypeOK, Lock,
                                  Locked, Current, First
  <2> QED
    BY <2>1, <2>2, <2>3, <2>4 DEF IInv
<1>4. ASSUME NEW w \in Relays, Publish(w)
      PROVE  IInv'
  <2>0. \A x \in Relays : todo'[x] = todo[x] /\ Current(x)' = Current(x)
    BY <1>4, CurrentStays DEF Publish
  <2>a. Current(w) \in todo[w] /\ Current(w) \in Rows
    BY <1>4, <1>t, CurrentIsDue DEF Publish, IInv, RowsExclusive
  <2>1. TypeOK'
    BY <1>4, <1>t, <2>0, <2>a DEF TypeOK, Publish
  <2>2. AttemptsLeft'
    BY <1>4, <1>t, <2>0, <2>a DEF IInv, AttemptsLeft, TypeOK, Publish
  <2>3. RowsExclusive'
    BY <1>4, <1>t, <2>0, <2>a DEF IInv, RowsExclusive, TypeOK, Publish
  <2>4. SentIsRecorded'
    BY <1>4, <1>t, <2>0, <2>a DEF IInv, RowsExclusive, SentIsRecorded, TypeOK,
                                  Publish
  <2> QED
    BY <2>1, <2>2, <2>3, <2>4 DEF IInv
<1>5. ASSUME NEW w \in Relays, PublishFails(w)
      PROVE  IInv'
  <2>0. \A x \in Relays \ {w} : todo'[x] = todo[x] /\ at'[x] = at[x] /\ Current(x)' = Current(x)
    BY <1>5, <1>t, CurrentStays DEF TypeOK, PublishFails, Done, Restarted
  <2>a. Current(w) \in todo[w] /\ Current(w) \in Rows
    BY <1>5, <1>t, CurrentIsDue DEF PublishFails, IInv, RowsExclusive
  <2>b. /\ row[Current(w)] = "PENDING"
        /\ \A x \in Relays \ {w} : at[x] # "free" =>
             /\ todo[x] # {} /\ row[Current(x)] = "PENDING"
             /\ Current(x) # Current(w) /\ Current(x) \in Rows
    BY <1>5, <1>t, CurrentIsDue DEF PublishFails, IInv, RowsExclusive
  <2>c. at' = [at EXCEPT ![w] = "free"]
    BY <1>5 DEF PublishFails, Done, Restarted
  <2>1. TypeOK'
    BY <1>5, <1>t, <2>0, <2>a, <2>b DEF IInv, AttemptsLeft, TypeOK, PublishFails,
                                        Done
  <2>2. AttemptsLeft'
    BY <1>5, <1>t, <2>0, <2>a DEF IInv, AttemptsLeft, TypeOK, PublishFails, Done
  <2>3. RowsExclusive'
    <3>1. \A e \in Rows \ {Current(w)} : row'[e] = row[e]
      BY <1>5, <1>t, <2>a DEF TypeOK, PublishFails, Done
    <3>2. \A x \in Relays \ {w} : at'[x] # "free" =>
             /\ todo'[x] # {} /\ row'[Current(x)'] = "PENDING"
             /\ at[x] # "free" /\ Current(x)' = Current(x)
      BY <2>0, <2>b, <3>1
    <3>3. \A x, y \in Relays \ {w} : x # y /\ at[x] # "free" /\ at[y] # "free"
             => Current(x) # Current(y)
      BY DEF IInv, RowsExclusive
    <3>4. at'[w] = "free"
      BY <1>t, <2>c DEF TypeOK
    <3> QED
      BY <3>2, <3>3, <3>4 DEF RowsExclusive
  <2>4. SentIsRecorded'
    BY <1>5, <1>t, <2>0, <2>a DEF IInv, RowsExclusive, SentIsRecorded, TypeOK,
                                  PublishFails, Done
  <2> QED
    BY <2>1, <2>2, <2>3, <2>4 DEF IInv
<1>6. ASSUME NEW w \in Relays, RecordPublished(w)
      PROVE  IInv'
  <2>0. \A x \in Relays \ {w} : todo'[x] = todo[x] /\ at'[x] = at[x] /\ Current(x)' = Current(x)
    BY <1>6, <1>t, CurrentStays DEF TypeOK, RecordPublished, Done, Restarted
  <2>a. Current(w) \in todo[w] /\ Current(w) \in Rows
    BY <1>6, <1>t, CurrentIsDue DEF RecordPublished, IInv, RowsExclusive
  <2>b. /\ row[Current(w)] = "PENDING"
        /\ \A x \in Relays \ {w} : at[x] # "free" =>
             /\ todo[x] # {} /\ row[Current(x)] = "PENDING"
             /\ Current(x) # Current(w) /\ Current(x) \in Rows
    BY <1>6, <1>t, CurrentIsDue DEF RecordPublished, IInv, RowsExclusive
  <2>c. at' = [at EXCEPT ![w] = "free"]
    BY <1>6 DEF RecordPublished, Done, Restarted
  <2>1. TypeOK'
    BY <1>6, <1>t, <2>0, <2>a DEF TypeOK, RecordPublished, Done
  <2>2. AttemptsLeft'
    BY <1>6, <1>t, <2>0, <2>a DEF IInv, AttemptsLeft, TypeOK, RecordPublished, Done
  <2>3. RowsExclusive'
    <3>1. \A e \in Rows \ {Current(w)} : row'[e] = row[e]
      BY <1>6, <1>t, <2>a DEF TypeOK, RecordPublished, Done
    <3>2. \A x \in Relays \ {w} : at'[x] # "free" =>
             /\ todo'[x] # {} /\ row'[Current(x)'] = "PENDING"
             /\ at[x] # "free" /\ Current(x)' = Current(x)
      BY <2>0, <2>b, <3>1
    <3>3. \A x, y \in Relays \ {w} : x # y /\ at[x] # "free" /\ at[y] # "free"
             => Current(x) # Current(y)
      BY DEF IInv, RowsExclusive
    <3>4. at'[w] = "free"
      BY <1>t, <2>c DEF TypeOK
    <3> QED
      BY <3>2, <3>3, <3>4 DEF RowsExclusive
  <2>4. SentIsRecorded'
    BY <1>6, <1>t, <2>0, <2>a DEF IInv, RowsExclusive, SentIsRecorded, TypeOK,
                                  RecordPublished, Done
  <2> QED
    BY <2>1, <2>2, <2>3, <2>4 DEF IInv
<1>7. ASSUME NEW w \in Relays, Crash(w)
      PROVE  IInv'
  <2>0. \A x \in Relays \ {w} : todo'[x] = todo[x] /\ at'[x] = at[x] /\ Current(x)' = Current(x)
    BY <1>7, <1>t, CurrentStays DEF TypeOK, Crash, Restarted
  <2>1. TypeOK'
    BY <1>7, <1>t, <2>0 DEF TypeOK, Crash, Restarted
  <2>2. AttemptsLeft'
    BY <1>7, <1>t, <2>0 DEF IInv, AttemptsLeft, TypeOK, Crash, Restarted
  <2>3. RowsExclusive'
    BY <1>7, <1>t, <2>0 DEF IInv, RowsExclusive, TypeOK, Crash, Restarted
  <2>4. SentIsRecorded'
    BY <1>7, <1>t, <2>0 DEF IInv, RowsExclusive, SentIsRecorded, TypeOK, Crash,
                            Restarted
  <2> QED
    BY <2>1, <2>2, <2>3, <2>4 DEF IInv
<1>8. ASSUME UNCHANGED vars
      PROVE  IInv'
  <2>0. \A x \in Relays : todo'[x] = todo[x] /\ Current(x)' = Current(x)
    BY <1>8, CurrentStays DEF vars
  <2>1. TypeOK'
    BY <1>8, <1>t, <2>0 DEF TypeOK, vars
  <2>2. AttemptsLeft'
    BY <1>8, <1>t, <2>0 DEF IInv, AttemptsLeft, TypeOK, vars
  <2>3. RowsExclusive'
    BY <1>8, <1>t, <2>0 DEF IInv, RowsExclusive, TypeOK, vars
  <2>4. SentIsRecorded'
    BY <1>8, <1>t, <2>0 DEF IInv, RowsExclusive, SentIsRecorded, TypeOK, vars
  <2> QED
    BY <2>1, <2>2, <2>3, <2>4 DEF IInv
<1> QED
  BY <1>1, <1>2, <1>3, <1>4, <1>5, <1>6, <1>7, <1>8 DEF Next, RelayStep

------------------------------------------------------------------------------

THEOREM Inductive == ASSUME RecordsOutcome PROVE Spec => []IInv
<1>1. IInv /\ [Next]_vars => IInv'
  BY StepHolds
<1> QED
  BY InitHolds, <1>1, PTL DEF Spec

\* The variables of a relay keep their types.
THEOREM RelayTypeCorrect == ASSUME RecordsOutcome PROVE Spec => []TypeOK
<1>1. IInv => TypeOK
  BY DEF IInv
<1> QED
  BY <1>1, Inductive, PTL

\* The second look under the lock keeps any number of relays apart.
THEOREM RelaysApart == ASSUME RecordsOutcome PROVE Spec => []RowsExclusive
<1>1. IInv => RowsExclusive
  BY DEF IInv
<1> QED
  BY <1>1, Inductive, PTL

\* No event goes out more often than once and once again for every crash.
THEOREM DuplicatesBounded == ASSUME RecordsOutcome PROVE Spec => []DuplicatesNeedCrashes
<1>1. IInv => DuplicatesNeedCrashes
  BY RelayAssumption DEF IInv, TypeOK, SentIsRecorded, DuplicatesNeedCrashes
<1> QED
  BY <1>1, Inductive, PTL

\* A late relay never overwrites the outcome of a row.
THEOREM OutcomesKept == ASSUME RecordsOutcome PROVE Spec => OutcomeFinal
<1>1. ASSUME IInv, [Next]_vars, NEW e \in Rows, row[e] \in {"PUBLISHED", "FAILED"}
      PROVE  row'[e] = row[e]
  <2>1. ASSUME NEW w \in Relays, at[w] # "free"
        PROVE  Current(w) \in Rows /\ Current(w) # e
    BY <1>1, <2>1, CurrentIsDue DEF IInv, RowsExclusive
  <2>2. CASE \E w \in Relays : PublishFails(w) \/ RecordPublished(w)
    <3>1. PICK w \in Relays : PublishFails(w) \/ RecordPublished(w)
      BY <2>2
    <3>2. Current(w) \in Rows /\ Current(w) # e
      BY <2>1, <3>1 DEF PublishFails, RecordPublished
    <3> QED
      BY <1>1, <3>1, <3>2 DEF IInv, TypeOK, PublishFails, RecordPublished
  <2>3. CASE \E d \in Rows : Commit(d)
    BY <1>1, <2>3 DEF IInv, TypeOK, Commit
  <2> QED
    BY <1>1, <2>2, <2>3 DEF Next, RelayStep, Poll, Lock, Publish, Crash, vars
<1>2. IInv /\ [Next]_vars
        => [\A e \in Rows : row[e] \in {"PUBLISHED", "FAILED"} => row'[e] = row[e]]_vars
  BY <1>1
<1> QED
  BY <1>2, Inductive, PTL DEF Spec, OutcomeFinal

------------------------------------------------------------------------------
\* The interactions on their way to the recommender: Interactions

LEMMA TrackInitInv == Track!Init => Track!IInv
<1> SUFFICES ASSUME Track!Init PROVE Track!IInv
  OBVIOUS
<1>1. Track!TypeOK /\ Track!RelayFollows
  <2>1. 0 \in 0..(MaxPublishRetries + 1) /\ 0 \in 0..MaxDeaths
    BY EventsAssumption
  <2>2. Track!TypeOK
    BY <2>1 DEF Track!Init, Track!TypeOK
  <2> QED
    BY <2>2, EventsAssumption DEF Track!Init, Track!RelayFollows
<1>2. \A k \in Keys : ~Track!Held(k) /\ stored[k] = 0 /\ sequence[k] = 0 /\ queue[k] = 0
  BY DEF Track!Init, Track!Held
<1>3. \A k \in Keys : Track!Uncounted(k) = 0
  BY <1>2 DEF Track!Uncounted
<1>5. \A k \in Keys : Track!ToPublish(k) \in 0..1
  BY DEF Track!ToPublish
<1>4. deaths = 0
  BY DEF Track!Init
<1> QED
  BY <1>1, <1>2, <1>3, <1>4, <1>5 DEF Track!IInv, Track!CountingFollows,
                                      Track!CountsBounded, Track!CountedOnce

\* What the numbers of an interaction are.
LEMMA TrackNumbers ==
    ASSUME Track!IInv, NEW k \in Keys
    PROVE  /\ queue[k] \in Nat /\ stored[k] \in Nat /\ sequence[k] \in Nat
           /\ tried[k] \in Nat /\ deaths \in Nat
           /\ Track!Uncounted(k) \in Nat /\ Track!ToPublish(k) \in 0..1
           /\ stored[k] + Track!Uncounted(k) + Track!ToPublish(k) <= 1 + deaths
           /\ sequence[k] <= stored[k]
BY EventsAssumption DEF Track!IInv, Track!TypeOK, Track!CountingFollows,
                        Track!CountsBounded, Track!CountedOnce, Track!ToPublish,
                        Track!Uncounted

\* A step of the relay: the consumer takes none, and what it publishes was to be
\* published.
LEMMA TrackRelayInv ==
    ASSUME Track!IInv, Track!TypeOK', Track!RelayFollows',
           UNCHANGED Track!consumer, deaths' >= deaths,
           \A k \in Keys : queue'[k] \in Nat /\ queue'[k] >= queue[k],
           \A k \in Keys :
              queue'[k] + Track!ToPublish(k)' - deaths' <= queue[k] + Track!ToPublish(k) - deaths
    PROVE  Track!IInv'
<1>1. Track!CountingFollows'
  BY DEF Track!IInv, Track!TypeOK, Track!CountingFollows, Track!Held,
         Track!consumer, Track!stores
<1>2. ASSUME NEW k \in Keys
      PROVE  stored'[k] + Track!Uncounted(k)' + Track!ToPublish(k)' <= 1 + deaths'
  <2>1. /\ stored'[k] = stored[k] /\ (Track!Held(k)' <=> Track!Held(k)) /\ counting' = counting
    BY DEF Track!Held, Track!consumer, Track!stores
  <2>2. Track!Uncounted(k)' - queue'[k] = Track!Uncounted(k) - queue[k]
    BY <2>1, TrackNumbers DEF Track!Uncounted
  <2>3. /\ queue'[k] \in Nat /\ Track!Uncounted(k)' \in Nat /\ Track!ToPublish(k)' \in 0..1
        /\ deaths' \in Nat
    BY <1>1, EventsAssumption DEF Track!CountingFollows, Track!Uncounted,
                                  Track!ToPublish, Track!TypeOK
  <2> QED
    BY <2>1, <2>2, <2>3, TrackNumbers
<1>3. Track!CountedOnce'
  <2> SUFFICES ASSUME NEW k \in Keys
               PROVE  sequence'[k] <= stored'[k] /\ stored'[k] <= 1 + deaths'
    BY DEF Track!CountedOnce
  <2>1. sequence' = sequence /\ stored' = stored /\ deaths' \in Nat
    BY EventsAssumption DEF Track!consumer, Track!stores, Track!TypeOK
  <2> QED
    BY <2>1, TrackNumbers DEF Track!IInv, Track!CountedOnce
<1> QED
  BY <1>1, <1>2, <1>3 DEF Track!IInv, Track!CountsBounded

\* A step of the consumer: the relay takes none, and no message counts more than
\* it might have.
LEMMA TrackConsumerInv ==
    ASSUME Track!IInv, Track!TypeOK', UNCHANGED <<recorded, tried, Track!relay>>, deaths' >= deaths,
           Track!CountingFollows',
           \A k \in Keys : stored'[k] + Track!Uncounted(k)' - deaths'
                              <= stored[k] + Track!Uncounted(k) - deaths,
           \A k \in Keys : sequence'[k] <= stored'[k]
    PROVE  Track!IInv'
<1>1. Track!RelayFollows'
  BY DEF Track!IInv, Track!RelayFollows, Track!relay
<1>2. ASSUME NEW k \in Keys
      PROVE  /\ stored'[k] + Track!Uncounted(k)' + Track!ToPublish(k)' <= 1 + deaths'
             /\ stored'[k] <= 1 + deaths'
  <2>1. Track!ToPublish(k)' = Track!ToPublish(k)
    BY DEF Track!ToPublish, Track!relay
  <2>2. /\ stored'[k] \in Nat /\ Track!Uncounted(k)' \in Nat /\ deaths' \in Nat
    BY EventsAssumption DEF Track!TypeOK, Track!CountingFollows, Track!Uncounted
  <2> QED
    BY <2>1, <2>2, TrackNumbers
<1> QED
  BY <1>1, <1>2 DEF Track!IInv, Track!CountsBounded, Track!CountedOnce

\* The consumer has one of the messages before it.
LEMMA TrackCountingIs ==
    ASSUME Track!IInv, counting # Track!Nobody
    PROVE  /\ counting.key \in Keys /\ counting.step \in {"store", "push", "ack"}
           /\ counting = [key |-> counting.key, step |-> counting.step]
           /\ queue[counting.key] > 0
           /\ counting.step = "push" => sequence[counting.key] < stored[counting.key]
<1>1. /\ counting.key \in Keys /\ counting.step \in {"store", "push", "ack"}
      /\ counting = [key |-> counting.key, step |-> counting.step]
  BY DEF Track!IInv, Track!TypeOK
<1> QED
  BY <1>1 DEF Track!IInv, Track!CountingFollows, Track!Held

\* Of a message that is settled nothing is left to count; nor is of one that is
\* left there by a consumer that died, but for the death.
LEMMA TrackSettleInv ==
    ASSUME Track!IInv, counting # Track!Nobody, counting' = Track!Nobody,
           UNCHANGED <<recorded, tried, Track!relay, Track!stores, vanished>>,
           dropped' \subseteq Keys,
           \/ UNCHANGED deaths /\ queue' = [queue EXCEPT ![counting.key] = @ - 1]
           \/ UNCHANGED queue /\ deaths < MaxDeaths /\ deaths' = deaths + 1
    PROVE  Track!IInv'
<1> DEFINE k == counting.key
<1>1. k \in Keys /\ queue[k] > 0
  BY TrackCountingIs
<1>2. /\ deaths' \in 0..MaxDeaths /\ deaths \in Nat /\ deaths' >= deaths
      /\ queue' \in [Keys -> Nat]
  BY <1>1, EventsAssumption DEF Track!IInv, Track!TypeOK
<1>3. Track!TypeOK' /\ Track!CountingFollows'
  BY <1>2 DEF Track!IInv, Track!TypeOK, Track!CountingFollows, Track!Held,
              Track!relay, Track!stores
<1>4. ASSUME NEW j \in Keys
      PROVE  stored'[j] + Track!Uncounted(j)' - deaths' <= stored[j] + Track!Uncounted(j) - deaths
  <2>1. stored'[j] = stored[j] /\ Track!Uncounted(j)' = queue'[j]
    BY DEF Track!stores, Track!Uncounted, Track!Held
  <2>2. Track!Uncounted(j) \in {queue[j], queue[j] - 1}
    BY DEF Track!Uncounted
  <2>3. j # k => Track!Uncounted(j) = queue[j] /\ queue'[j] = queue[j]
    BY <1>1 DEF Track!Uncounted, Track!Held, Track!IInv, Track!TypeOK
  <2>4. \/ deaths' = deaths /\ queue'[k] = queue[k] - 1
        \/ queue'[j] = queue[j] /\ deaths' = deaths + 1
    BY <1>1 DEF Track!IInv, Track!TypeOK
  <2> QED
    BY <1>1, <1>2, <2>1, <2>2, <2>3, <2>4, TrackNumbers
<1>5. \A j \in Keys : sequence'[j] <= stored'[j]
  BY TrackNumbers DEF Track!stores
<1> QED
  BY <1>2, <1>3, <1>4, <1>5, TrackConsumerInv

LEMMA TrackNextInv == Track!IInv /\ [Track!Next]_(Track!vars) => Track!IInv'
<1> SUFFICES ASSUME Track!IInv, [Track!Next]_(Track!vars) PROVE Track!IInv'
  OBVIOUS
<1> USE EventsAssumption DEF Track!relay
<1>0. deaths \in Nat
  BY DEF Track!IInv, Track!TypeOK
<1>1. ASSUME NEW k \in Keys, Track!Record(k) PROVE Track!IInv'
  <2>1. recorded' = [recorded EXCEPT ![k] = "PENDING"] /\ recorded[k] = "none"
        /\ UNCHANGED <<tried, Track!relay, queue, Track!consumer, deaths, vanished>>
    BY <1>1 DEF Track!Record
  <2>2. Track!TypeOK' /\ Track!RelayFollows'
    BY <2>1 DEF Track!IInv, Track!TypeOK, Track!RelayFollows, Track!consumer,
                Track!stores
  <2>3. \A j \in Keys : Track!ToPublish(j)' = Track!ToPublish(j)
    BY <2>1 DEF Track!IInv, Track!TypeOK, Track!ToPublish
  <2> QED
    BY <2>1, <2>2, <2>3, TrackRelayInv, TrackNumbers
<1>2. CASE Track!Poll
  <2>1. Track!TypeOK' /\ Track!RelayFollows'
    BY <1>2 DEF Track!Poll, Track!IInv, Track!TypeOK, Track!RelayFollows,
                Track!consumer, Track!stores
  <2>2. \A j \in Keys : Track!ToPublish(j)' = Track!ToPublish(j)
    BY <1>2 DEF Track!Poll, Track!ToPublish
  <2> QED
    BY <1>2, <2>1, <2>2, TrackRelayInv, TrackNumbers DEF Track!Poll
<1>3. ASSUME NEW k \in Keys, Track!PublishRow(k) PROVE Track!IInv'
  <2>1. /\ queue' = [queue EXCEPT ![k] = @ + 1] /\ k \in batch /\ out = {}
        /\ batch' = batch \ {k} /\ out' = {k}
        /\ vanished' = vanished \ {k}
        /\ UNCHANGED <<recorded, tried, link, Track!consumer, deaths>>
    BY <1>3 DEF Track!PublishRow
  <2>2. Track!TypeOK' /\ Track!RelayFollows'
    BY <2>1 DEF Track!IInv, Track!TypeOK, Track!RelayFollows, Track!consumer,
                Track!stores
  <2>3. \A j \in Keys \ {k} : Track!ToPublish(j)' = Track!ToPublish(j) /\ queue'[j] = queue[j]
    BY <2>1 DEF Track!IInv, Track!TypeOK, Track!ToPublish
  <2>4. Track!ToPublish(k) = 1 /\ Track!ToPublish(k)' = 0 /\ queue'[k] = queue[k] + 1
    BY <2>1 DEF Track!IInv, Track!TypeOK, Track!RelayFollows, Track!ToPublish
  <2>5. \A j \in Keys : queue'[j] \in Nat /\ queue'[j] >= queue[j]
    BY <2>3, <2>4, TrackNumbers
  <2> QED
    BY <2>1, <2>2, <2>3, <2>4, <2>5, TrackRelayInv, TrackNumbers
<1>4. ASSUME NEW k \in Keys, Track!PublishLost(k) PROVE Track!IInv'
  <2>1. /\ k \in batch /\ out = {} /\ link' = "broken" /\ vanished' = vanished \union {k}
        /\ batch' = batch \ {k} /\ out' = {k}
        /\ UNCHANGED <<recorded, tried, queue, Track!consumer, deaths>>
    BY <1>4 DEF Track!PublishLost
  <2>2. Track!TypeOK' /\ Track!RelayFollows'
    BY <2>1 DEF Track!IInv, Track!TypeOK, Track!RelayFollows, Track!consumer,
                Track!stores
  <2>3. \A j \in Keys : Track!ToPublish(j)' <= Track!ToPublish(j) /\ Track!ToPublish(j)' \in 0..1
    BY <2>1 DEF Track!ToPublish
  <2> QED
    BY <2>1, <2>2, <2>3, TrackRelayInv, TrackNumbers
<1>5. ASSUME NEW k \in Keys, Track!SaveRow(k) PROVE Track!IInv'
  <2>1. /\ k \in out /\ recorded' = [recorded EXCEPT ![k] = "PUBLISHED"] /\ out' = {}
        /\ UNCHANGED <<tried, batch, link, queue, Track!consumer, deaths, vanished>>
    BY <1>5 DEF Track!SaveRow
  <2>2. Track!TypeOK'
    BY <2>1 DEF Track!IInv, Track!TypeOK, Track!consumer, Track!stores
  <2>3. Track!RelayFollows'
    BY <2>1 DEF Track!IInv, Track!TypeOK, Track!RelayFollows
  <2>4. \A j \in Keys : Track!ToPublish(j)' <= Track!ToPublish(j)
    <3> SUFFICES ASSUME NEW j \in Keys PROVE Track!ToPublish(j)' <= Track!ToPublish(j)
      OBVIOUS
    <3>1. CASE j = k
      BY <2>1, <3>1 DEF Track!IInv, Track!TypeOK, Track!ToPublish
    <3>2. CASE j # k
      <4>1. j \notin out /\ recorded'[j] = recorded[j]
        BY <2>1, <3>2 DEF Track!IInv, Track!TypeOK, Track!RelayFollows
      <4> QED
        BY <4>1 DEF Track!ToPublish
    <3> QED
      BY <3>1, <3>2
  <2>5. \A j \in Keys : Track!ToPublish(j)' \in 0..1
    BY DEF Track!ToPublish
  <2> QED
    BY <2>1, <2>2, <2>3, <2>4, <2>5, TrackRelayInv, TrackNumbers
<1>6. ASSUME NEW k \in Keys, Track!PublishFails(k) PROVE Track!IInv'
  <2>1. /\ k \in batch /\ out = {} /\ batch' = batch \ {k}
        /\ tried' = [tried EXCEPT ![k] = @ + 1]
        /\ recorded' = IF tried'[k] > MaxPublishRetries THEN [recorded EXCEPT ![k] = "FAILED"] ELSE recorded
        /\ UNCHANGED <<out, link, queue, Track!consumer, deaths, vanished>>
    BY <1>6 DEF Track!PublishFails
  <2>2. k \in Keys /\ recorded[k] = "PENDING" /\ tried[k] \in 0..MaxPublishRetries
    BY <2>1 DEF Track!IInv, Track!TypeOK, Track!RelayFollows
  <2>3. /\ tried' \in [Keys -> 0..(MaxPublishRetries + 1)] /\ tried'[k] = tried[k] + 1
        /\ \A j \in Keys \ {k} : tried'[j] = tried[j] /\ recorded'[j] = recorded[j]
        /\ recorded' \in [Keys -> {"none", "PENDING", "PUBLISHED", "FAILED"}]
    BY <2>1, <2>2 DEF Track!IInv, Track!TypeOK
  <2>4. Track!TypeOK'
    BY <2>1, <2>3 DEF Track!IInv, Track!TypeOK, Track!consumer, Track!stores
  <2>5. Track!RelayFollows'
    BY <2>1, <2>2, <2>3 DEF Track!IInv, Track!TypeOK, Track!RelayFollows
  <2>6. \A j \in Keys : Track!ToPublish(j)' <= Track!ToPublish(j) /\ Track!ToPublish(j)' \in 0..1
    BY <2>1, <2>2, <2>3 DEF Track!ToPublish
  <2> QED
    BY <2>1, <2>4, <2>5, <2>6, TrackRelayInv, TrackNumbers
<1>7. CASE Track!LinkBreaks \/ Track!Connect
  <2>1. Track!TypeOK' /\ Track!RelayFollows'
    BY <1>7 DEF Track!LinkBreaks, Track!Connect, Track!IInv, Track!TypeOK,
                Track!RelayFollows, Track!consumer, Track!stores
  <2>2. \A j \in Keys : Track!ToPublish(j)' = Track!ToPublish(j)
    BY <1>7 DEF Track!LinkBreaks, Track!Connect, Track!ToPublish
  <2> QED
    BY <1>0, <1>7, <2>1, <2>2, TrackRelayInv, TrackNumbers
       DEF Track!LinkBreaks, Track!Connect
<1>8. CASE Track!RelayDies
  <2>1. /\ deaths' = deaths + 1 /\ deaths \in Nat /\ deaths' \in 0..MaxDeaths
        /\ batch' = {} /\ out' = {}
        /\ UNCHANGED <<recorded, tried, queue, Track!consumer, vanished>>
    BY <1>8 DEF Track!RelayDies, Track!IInv, Track!TypeOK
  <2>2. Track!TypeOK' /\ Track!RelayFollows'
    BY <1>8, <2>1 DEF Track!RelayDies, Track!IInv, Track!TypeOK, Track!RelayFollows,
                      Track!consumer, Track!stores
  <2>3. \A j \in Keys : Track!ToPublish(j)' \in 0..1
    BY DEF Track!ToPublish
  <2> QED
    BY <2>1, <2>2, <2>3, TrackRelayInv, TrackNumbers
<1>9. ASSUME NEW k \in Keys, Track!Receive(k) PROVE Track!IInv'
  <2>1. /\ counting = Track!Nobody /\ queue[k] > 0 /\ counting' = [key |-> k, step |-> "store"]
        /\ UNCHANGED <<recorded, tried, Track!relay, queue, Track!stores, dropped, deaths,
                       vanished>>
    BY <1>9 DEF Track!Receive
  <2>2. Track!TypeOK' /\ Track!CountingFollows'
    BY <2>1 DEF Track!IInv, Track!TypeOK, Track!CountingFollows, Track!Held,
                Track!stores
  <2>3. \A j \in Keys : Track!Uncounted(j)' = Track!Uncounted(j)
    BY <2>1 DEF Track!Uncounted, Track!Held
  <2> QED
    BY <2>1, <2>2, <2>3, TrackConsumerInv, TrackNumbers DEF Track!stores
<1>10. CASE Track!StoreEvent
  <2> DEFINE k == counting.key
  <2>1. /\ k \in Keys /\ queue[k] > 0 /\ counting = [key |-> k, step |-> "store"]
        /\ counting' = [key |-> k, step |-> "push"]
    BY <1>10, TrackCountingIs DEF Track!StoreEvent, Track!Go, Track!Nobody
  <2>2. /\ stored' = [stored EXCEPT ![k] = @ + 1]
        /\ UNCHANGED <<recorded, tried, Track!relay, queue, sequence, dropped, deaths, vanished>>
    BY <1>10 DEF Track!StoreEvent
  <2>3. /\ stored' \in [Keys -> Nat] /\ stored'[k] = stored[k] + 1
        /\ \A j \in Keys \ {k} : stored'[j] = stored[j]
    BY <2>1, <2>2 DEF Track!IInv, Track!TypeOK
  <2>4. Track!TypeOK'
    BY <2>1, <2>2, <2>3 DEF Track!IInv, Track!TypeOK
  <2>5. Track!CountingFollows'
    BY <2>1, <2>2, <2>3, TrackNumbers DEF Track!CountingFollows, Track!Held
  <2>6. /\ \A j \in Keys \ {k} : Track!Uncounted(j)' = Track!Uncounted(j)
        /\ Track!Uncounted(k) = queue[k] /\ Track!Uncounted(k)' = queue[k] - 1
    BY <2>1, <2>2 DEF Track!Uncounted, Track!Held, Track!Nobody
  <2> QED
    BY <2>1, <2>2, <2>3, <2>4, <2>5, <2>6, TrackConsumerInv, TrackNumbers
<1>11. CASE Track!PushSequence
  <2> DEFINE k == counting.key
  <2>1. /\ k \in Keys /\ queue[k] > 0 /\ counting = [key |-> k, step |-> "push"]
        /\ counting' = [key |-> k, step |-> "ack"] /\ sequence[k] < stored[k]
    BY <1>11, TrackCountingIs DEF Track!PushSequence, Track!Go, Track!Nobody
  <2>2. /\ sequence' = [sequence EXCEPT ![k] = @ + 1]
        /\ UNCHANGED <<recorded, tried, Track!relay, queue, stored, dropped, deaths, vanished>>
    BY <1>11 DEF Track!PushSequence
  <2>3. /\ sequence' \in [Keys -> Nat] /\ sequence'[k] = sequence[k] + 1
        /\ \A j \in Keys \ {k} : sequence'[j] = sequence[j]
    BY <2>1, <2>2 DEF Track!IInv, Track!TypeOK
  <2>4. Track!TypeOK'
    BY <2>1, <2>2, <2>3 DEF Track!IInv, Track!TypeOK
  <2>5. Track!CountingFollows'
    BY <2>1, <2>2, <2>3 DEF Track!CountingFollows, Track!Held
  <2>6. \A j \in Keys : Track!Uncounted(j)' = Track!Uncounted(j)
    BY <2>1, <2>2 DEF Track!Uncounted, Track!Held, Track!Nobody
  <2> QED
    BY <2>1, <2>2, <2>3, <2>4, <2>5, <2>6, TrackConsumerInv, TrackNumbers
<1>12. CASE Track!Ack \/ Track!Drop \/ Track!ConsumerDies
  <2>1. counting # Track!Nobody
    BY <1>12 DEF Track!Ack, Track!Drop, Track!ConsumerDies, Track!Nobody
  <2>2. counting.key \in Keys /\ dropped \subseteq Keys
    BY <2>1, TrackCountingIs DEF Track!IInv, Track!TypeOK
  <2> QED
    BY <1>12, <2>1, <2>2, TrackSettleInv
       DEF Track!Ack, Track!Drop, Track!ConsumerDies, Track!Settle, Track!stores
<1>13. CASE UNCHANGED Track!vars
  <2>1. Track!TypeOK' /\ Track!RelayFollows'
    BY <1>13 DEF Track!vars, Track!IInv, Track!TypeOK, Track!RelayFollows,
                 Track!consumer, Track!stores
  <2>2. \A j \in Keys : Track!ToPublish(j)' = Track!ToPublish(j)
    BY <1>13 DEF Track!vars, Track!ToPublish
  <2> QED
    BY <1>0, <1>13, <2>1, <2>2, TrackRelayInv, TrackNumbers DEF Track!vars
<1> QED
  BY <1>1, <1>2, <1>3, <1>4, <1>5, <1>6, <1>7, <1>8, <1>9, <1>10, <1>11, <1>12,
     <1>13
     DEF Track!Next, Track!Relay, Track!Count

\* A row the relay has given up or published is in none of its hands.
LEMMA TrackOverStays ==
    ASSUME Track!IInv, [Track!Next]_(Track!vars), NEW k \in Keys, Track!Over(k)
    PROVE  recorded'[k] = recorded[k] /\ queue'[k] <= queue[k]
<1>0. /\ k \notin batch /\ k \notin out /\ recorded[k] # "none"
      /\ recorded \in [Keys -> {"none", "PENDING", "PUBLISHED", "FAILED"}]
      /\ queue \in [Keys -> Nat]
      /\ counting # Track!Nobody => counting.key \in Keys
  BY DEF Track!IInv, Track!TypeOK, Track!RelayFollows, Track!Over
<1>1. ASSUME NEW j \in Keys,
             Track!PublishRow(j) \/ Track!PublishLost(j) \/ Track!SaveRow(j)
                \/ Track!PublishFails(j)
      PROVE  recorded'[k] = recorded[k] /\ queue'[k] = queue[k]
  <2>1. j # k
    BY <1>0, <1>1 DEF Track!PublishRow, Track!PublishLost, Track!SaveRow,
                      Track!PublishFails
  <2> QED
    BY <1>0, <1>1, <2>1 DEF Track!PublishRow, Track!PublishLost, Track!SaveRow,
                            Track!PublishFails
<1>2. ASSUME NEW j \in Keys, Track!Record(j) \/ Track!Receive(j)
      PROVE  recorded'[k] = recorded[k] /\ queue'[k] = queue[k]
  BY <1>0, <1>2 DEF Track!Record, Track!Receive, Track!relay
<1>3. CASE Track!Ack \/ Track!Drop
  <2>1. recorded' = recorded /\ queue' = [queue EXCEPT ![counting.key] = @ - 1]
    BY <1>3 DEF Track!Ack, Track!Drop, Track!Settle
  <2>2. queue[k] \in Nat
    BY <1>0
  <2>3. queue'[k] = queue[k] \/ queue'[k] = queue[k] - 1
    BY <1>0, <2>1
  <2> QED
    BY <2>1, <2>2, <2>3
<1>4. CASE /\ recorded' = recorded /\ queue' = queue
  BY <1>0, <1>4
<1>5. ASSUME Track!Connect \/ Track!Poll \/ Track!LinkBreaks \/ Track!RelayDies
             \/ Track!StoreEvent \/ Track!PushSequence \/ Track!ConsumerDies
             \/ UNCHANGED Track!vars
      PROVE  recorded' = recorded /\ queue' = queue
  BY <1>5 DEF Track!Connect, Track!Poll, Track!LinkBreaks, Track!RelayDies,
              Track!StoreEvent, Track!PushSequence, Track!ConsumerDies,
              Track!vars, Track!relay
<1> QED
  BY <1>0, <1>1, <1>2, <1>3, <1>4, <1>5 DEF Track!Next, Track!Relay, Track!Count

------------------------------------------------------------------------------
\* The messages to the customer: Notifications

\* A message in the hands of a consumer.
Handled ==
    [step : {"check", "insert", "send", "ack"}, event : Events,
     left : SUBSET Templates, noted : [Templates -> {"none", "SENT", "RETRYING"}]]

\* The same message a step further.
LEMMA NoteHandledChanges ==
    ASSUME NEW h \in Handled, NEW x
    PROVE  /\ [h EXCEPT !.step = x] = [step |-> x, event |-> h.event, left |-> h.left,
                                       noted |-> h.noted]
           /\ [h EXCEPT !.left = x] = [step |-> h.step, event |-> h.event, left |-> x,
                                       noted |-> h.noted]
           /\ [h EXCEPT !.noted = x] = [step |-> h.step, event |-> h.event,
                                        left |-> h.left, noted |-> x]
BY DEF Handled

LEMMA NoteInitInv == Note!Init => Note!IInv
<1> SUFFICES ASSUME Note!Init PROVE Note!IInv
  OBVIOUS
<1>0. 0 \in 0..MaxCopies /\ 0 \in 0..MaxResends /\ 0 \in 0..MaxFailures /\ 0 < MaxResends
  BY EventsAssumption
<1>1. Note!TypeOK
  BY <1>0 DEF Note!Init, Note!TypeOK, Note!Statuses
<1>2. \A c \in Consumers : handling[c].step = "free"
  BY DEF Note!Init, Note!Free
<1>3. Note!SendingAlone
  BY <1>2 DEF Note!Init, Note!SendingAlone
<1>4. Note!WorkerFollows
  BY <1>0 DEF Note!Init, Note!WorkerFollows
<1>5. Note!OpenUnsent /\ Note!NotifiedOnce
  BY DEF Note!Init, Note!OpenUnsent, Note!NotifiedOnce
<1> QED
  BY <1>1, <1>3, <1>4, <1>5 DEF Note!IInv

LEMMA NoteHandlingIs ==
    ASSUME Note!TypeOK, NEW c \in Consumers, handling[c].step # "free"
    PROVE  /\ handling[c] \in Handled /\ handling[c] # Note!Free
           /\ handling[c].event \in Events /\ handling[c].left \subseteq Templates
           /\ handling[c].noted \in [Templates -> {"none", "SENT", "RETRYING"}]
           /\ handling[c].step \in {"check", "insert", "send", "ack"}
           /\ handling[c] = [step |-> handling[c].step, event |-> handling[c].event,
                             left |-> handling[c].left, noted |-> handling[c].noted]
BY DEF Note!TypeOK, Handled, Note!Free

\* The messages of an event that is in the inbox are not being sent by a consumer.
LEMMA NoteNotNoted ==
    ASSUME Note!IInv, NEW r \in Note!Rows, log[r] # "none"
    PROVE  r[1] \in inbox /\ ~Note!Noted(r)
BY DEF Note!IInv, Note!SendingAlone, Note!Noted

\* A step of a consumer before it sends, or after it.
LEMMA NoteHandlerInv ==
    ASSUME Note!IInv, NEW c \in Consumers, NEW h \in {Note!Free} \union Handled,
           handling' = [handling EXCEPT ![c] = h],
           UNCHANGED <<inbox, Note!rows, Note!worker, Note!customer>>,
           copies' \in [Events -> 0..MaxCopies], waiting' \in [Events -> Nat],
           lost' \subseteq Events, failures' \in 0..MaxFailures,
           handling[c].step # "send",
           h.step \in {"check", "insert"} => \A t \in Templates : h.noted[t] = "none",
           h.step = "send" =>
              /\ h.event \notin inbox
              /\ \A t \in Templates : h.noted[t] = "none"
              /\ \A d \in Consumers \ {c} :
                    ~(handling[d].step = "send" /\ handling[d].event = h.event)
    PROVE  Note!IInv'
<1>0. handling'[c] = h /\ \A d \in Consumers \ {c} : handling'[d] = handling[d]
  BY DEF Note!IInv, Note!TypeOK
<1>1. Note!TypeOK'
  BY DEF Note!IInv, Note!TypeOK, Handled, Note!rows, Note!worker, Note!customer
<1>2. h.step = "send" => h.left \subseteq Templates
  BY DEF Handled, Note!Free
<1>3. Note!SendingAlone'
  BY <1>0, <1>2 DEF Note!IInv, Note!SendingAlone, Note!rows
<1>4. Note!WorkerFollows'
  BY DEF Note!IInv, Note!WorkerFollows, Note!rows, Note!worker
<1>5. \A r \in Note!Rows : Note!Noted(r)' <=> Note!Noted(r)
  <2> SUFFICES ASSUME NEW r \in Note!Rows PROVE Note!Noted(r)' <=> Note!Noted(r)
    OBVIOUS
  <2>1. r[2] \in Templates
    BY DEF Note!Rows
  <2> QED
    BY <1>0, <2>1 DEF Note!Noted
<1>6. Note!OpenUnsent' /\ Note!NotifiedOnce'
  BY <1>5 DEF Note!IInv, Note!OpenUnsent, Note!NotifiedOnce, Note!Sending,
              Note!rows, Note!worker, Note!customer
<1> QED
  BY <1>1, <1>3, <1>4, <1>6 DEF Note!IInv

\* What a transaction that ends without a trace had sent is noted as unnoted.
LEMMA NoteForgetInv ==
    ASSUME Note!IInv, NEW c \in Consumers, handling[c] # Note!Free, Note!Forget(c),
           waiting' \in [Events -> Nat], lost' \subseteq Events, failures' \in 0..MaxFailures
    PROVE  Note!IInv'
<1>h. handling[c].step # "free"
  BY DEF Note!IInv, Note!TypeOK, Note!Free
<1>0. /\ handling'[c] = Note!Free /\ \A d \in Consumers \ {c} : handling'[d] = handling[d]
      /\ UNCHANGED <<copies, inbox, log, resends, round, retrying, stuck, got>>
  BY DEF Note!IInv, Note!TypeOK, Note!Forget, Note!rows, Note!worker
<1>1. ASSUME NEW r \in Note!Rows
      PROVE  /\ unnoted'[r] \in Nat /\ unnoted'[r] >= unnoted[r]
             /\ handling[c].step = "send" /\ handling[c].event = r[1]
                /\ handling[c].noted[r[2]] = "SENT" => unnoted'[r] = unnoted[r] + 1
  BY DEF Note!IInv, Note!TypeOK, Note!Forget
<1>2. Note!TypeOK'
  <2>1. unnoted' \in [Note!Rows -> Nat]
    BY <1>1 DEF Note!Forget
  <2>2. handling' \in [Consumers -> {Note!Free} \union Handled]
    BY DEF Note!IInv, Note!TypeOK, Note!Forget, Handled
  <2> QED
    BY <1>0, <2>1, <2>2 DEF Note!IInv, Note!TypeOK, Handled
<1>3. Note!SendingAlone' /\ Note!WorkerFollows'
  BY <1>0 DEF Note!IInv, Note!SendingAlone, Note!WorkerFollows, Note!Free
<1>4. \A r \in Note!Rows : got[r] \in Nat /\ unnoted[r] \in Nat /\ got[r] <= 1 + unnoted[r]
  BY DEF Note!IInv, Note!TypeOK, Note!NotifiedOnce
<1>5. Note!OpenUnsent'
  <2> SUFFICES ASSUME NEW r \in Note!Rows, ~Note!Noted(r)',
                      log[r] \in {"none", "RETRYING", "FAILED"} \/ Note!Sending(r)
               PROVE  got[r] <= unnoted'[r]
    BY <1>0 DEF Note!OpenUnsent, Note!Sending
  <2>1. CASE Note!Noted(r)
    <3>1. PICK d \in Consumers : /\ handling[d].step = "send" /\ handling[d].event = r[1]
                                 /\ handling[d].noted[r[2]] = "SENT"
      BY <2>1 DEF Note!Noted
    <3>2. d = c
      BY <1>0, <3>1 DEF Note!Noted
    <3> QED
      BY <1>1, <1>4, <3>1, <3>2
  <2>2. CASE ~Note!Noted(r)
    BY <1>1, <1>4, <2>2 DEF Note!IInv, Note!OpenUnsent
  <2> QED
    BY <2>1, <2>2
<1>6. Note!NotifiedOnce'
  BY <1>0, <1>1, <1>4 DEF Note!NotifiedOnce
<1> QED
  BY <1>2, <1>3, <1>5, <1>6 DEF Note!IInv

\* A message goes out for the first time in its transaction.
LEMMA NoteSendInv ==
    ASSUME Note!IInv, NEW c \in Consumers, NEW t \in Templates, Note!Send(c, t)
    PROVE  Note!IInv'
<1> DEFINE h == handling[c]
           r0 == <<h.event, t>>
<1>h. /\ h \in Handled /\ h.event \in Events /\ h.left \subseteq Templates
      /\ h.noted \in [Templates -> {"none", "SENT", "RETRYING"}]
      /\ h.step = "send" /\ t \in h.left
  BY NoteHandlingIs DEF Note!IInv, Note!Send
<1>r. r0 \in Note!Rows /\ r0[1] = h.event /\ r0[2] = t
  BY <1>h DEF Note!Rows
<1>1. PICK a \in Note!Answers :
         /\ Note!Deliver(r0, a)
         /\ handling' = [handling EXCEPT ![c].left = @ \ {t},
                                         ![c].noted[t] = Note!Kept(a)]
  BY DEF Note!Send
<1>2. /\ UNCHANGED <<copies, waiting, inbox, lost, log, resends, round, retrying, stuck,
                     failures>>
  BY DEF Note!Send, Note!rows, Note!worker
<1>3. Note!Kept(a) \in {"SENT", "RETRYING"} /\ a.sent \in BOOLEAN
      /\ (Note!Kept(a) = "SENT" <=> a.status = "SENT") /\ a.status \in {"SENT", "FAILED"}
  BY DEF Note!Kept, Note!Answers
<1>4. /\ handling'[c] = [step |-> "send", event |-> h.event, left |-> h.left \ {t},
                         noted |-> [h.noted EXCEPT ![t] = Note!Kept(a)]]
      /\ \A d \in Consumers \ {c} : handling'[d] = handling[d]
      /\ handling' = [handling EXCEPT ![c] =
            [step |-> "send", event |-> h.event, left |-> h.left \ {t},
             noted |-> [h.noted EXCEPT ![t] = Note!Kept(a)]]]
  <2> DEFINE h1 == [step |-> "send", event |-> h.event, left |-> h.left \ {t},
                    noted |-> h.noted]
             h2 == [step |-> "send", event |-> h.event, left |-> h.left \ {t},
                    noted |-> [h.noted EXCEPT ![t] = Note!Kept(a)]]
             f1 == [handling EXCEPT ![c].left = @ \ {t}]
  <2>1. [h EXCEPT !.left = h.left \ {t}] = h1
    BY <1>h, NoteHandledChanges
  <2>2. f1 = [handling EXCEPT ![c] = h1]
    BY <2>1
  <2>3. handling' = [f1 EXCEPT ![c].noted[t] = Note!Kept(a)]
    BY <1>1
  <2>4. f1[c] = h1 /\ DOMAIN f1 = Consumers
        /\ \A d \in Consumers \ {c} : f1[d] = handling[d]
    BY <2>2 DEF Note!IInv, Note!TypeOK
  <2> HIDE DEF f1
  <2>a. h1 \in Handled
    BY <1>h DEF Handled
  <2>b. [h1 EXCEPT !.noted = [h1.noted EXCEPT ![t] = Note!Kept(a)]] = h2
    BY <2>a, NoteHandledChanges
  <2>5. [f1[c] EXCEPT !.noted[t] = Note!Kept(a)] = h2
    BY <2>4, <2>b
  <2>6. handling' = [f1 EXCEPT ![c] = h2]
    BY <2>3, <2>4, <2>5
  <2>7. handling' = [handling EXCEPT ![c] = h2]
    BY <2>4, <2>6 DEF Note!IInv, Note!TypeOK
  <2> QED
    BY <2>7 DEF Note!IInv, Note!TypeOK
<1>5. [h.noted EXCEPT ![t] = Note!Kept(a)] \in [Templates -> {"none", "SENT", "RETRYING"}]
  BY <1>3, <1>h
<1>6. handling'[c] \in Handled
  BY <1>4, <1>5, <1>h DEF Handled
<1>7. /\ \A r \in Note!Rows \ {r0} : got'[r] = got[r] /\ unnoted'[r] = unnoted[r]
      /\ got' \in [Note!Rows -> Nat] /\ unnoted' \in [Note!Rows -> Nat]
      /\ got'[r0] = (IF a.sent THEN got[r0] + 1 ELSE got[r0])
      /\ unnoted'[r0] = (IF a.sent /\ a.status = "FAILED" THEN unnoted[r0] + 1
                         ELSE unnoted[r0])
  BY <1>1, <1>r DEF Note!Deliver, Note!IInv, Note!TypeOK
<1>8. Note!TypeOK'
  <2>1. handling' \in [Consumers -> {Note!Free} \union Handled]
    BY <1>4, <1>6 DEF Note!IInv, Note!TypeOK, Handled
  <2> QED
    BY <1>2, <1>7, <2>1 DEF Note!IInv, Note!TypeOK, Handled
<1>9. Note!SendingAlone'
  <2>1. /\ h.event \notin inbox /\ \A x \in h.left : h.noted[x] = "none"
    BY <1>h DEF Note!IInv, Note!SendingAlone
  <2>2. \A x \in h.left \ {t} : handling'[c].noted[x] = "none"
    BY <1>4, <1>h, <2>1
  <2>3. handling'[c].left = h.left \ {t} /\ handling'[c].event = h.event
    BY <1>4
  <2> QED
    BY <1>h, <1>2, <1>4, <2>1, <2>2, <2>3 DEF Note!IInv, Note!SendingAlone
<1>10. Note!WorkerFollows'
  BY <1>2 DEF Note!IInv, Note!WorkerFollows
<1>11. ASSUME NEW r \in Note!Rows, r # r0
       PROVE  Note!Noted(r)' <=> Note!Noted(r)
  <2>1. r[2] \in Templates /\ (r[1] = h.event => r[2] # t)
    BY <1>11 DEF Note!Rows
  <2>2. handling'[c].step = "send" /\ handling'[c].event = h.event
    BY <1>4
  <2>3. r[1] = h.event => handling'[c].noted[r[2]] = h.noted[r[2]]
    BY <1>4, <1>h, <2>1
  <2> QED
    BY <1>h, <1>4, <2>2, <2>3 DEF Note!Noted
<1>12. ~Note!Noted(r0) /\ got[r0] <= unnoted[r0]
  <2>1. ~Note!Noted(r0)
    BY <1>h, <1>r DEF Note!IInv, Note!SendingAlone, Note!Noted
  <2>2. log[r0] = "none"
    BY <1>h, <1>r DEF Note!IInv, Note!SendingAlone
  <2> QED
    BY <1>r, <2>1, <2>2 DEF Note!IInv, Note!OpenUnsent
<1>13. \A r \in Note!Rows : r = r0 /\ Note!Kept(a) = "SENT" => Note!Noted(r)'
  BY <1>4, <1>h, <1>r DEF Note!Noted
<1>14. got[r0] \in Nat /\ unnoted[r0] \in Nat
  BY <1>r DEF Note!IInv, Note!TypeOK
<1>15. Note!OpenUnsent'
  <2> SUFFICES ASSUME NEW r \in Note!Rows, ~Note!Noted(r)',
                      log[r] \in {"none", "RETRYING", "FAILED"} \/ Note!Sending(r)
               PROVE  got'[r] <= unnoted'[r]
    BY <1>2 DEF Note!OpenUnsent, Note!Sending
  <2>1. CASE r = r0
    <3>1. Note!Kept(a) # "SENT"
      BY <1>13, <2>1
    <3> QED
      BY <1>3, <1>7, <1>12, <1>14, <2>1, <3>1
  <2>2. CASE r # r0
    BY <1>7, <1>11, <2>2 DEF Note!IInv, Note!OpenUnsent
  <2> QED
    BY <2>1, <2>2
<1>16. Note!NotifiedOnce'
  BY <1>3, <1>7, <1>12, <1>14 DEF Note!IInv, Note!NotifiedOnce
<1> QED
  BY <1>8, <1>9, <1>10, <1>15, <1>16 DEF Note!IInv

\* The rows that a transaction writes are the first of their event.
LEMMA NoteCommitInv ==
    ASSUME Note!IInv, NEW c \in Consumers, Note!Commit(c)
    PROVE  Note!IInv'
<1> DEFINE h == handling[c]
<1>h. /\ h \in Handled /\ h.event \in Events /\ h.step = "send"
      /\ h.noted \in [Templates -> {"none", "SENT", "RETRYING"}]
      /\ h.event \notin inbox
  BY NoteHandlingIs DEF Note!IInv, Note!Commit, Note!SendingAlone
<1>0. /\ inbox' = inbox \union {h.event}
      /\ log' = [r \in Note!Rows |-> IF r[1] = h.event /\ h.noted[r[2]] # "none"
                                THEN h.noted[r[2]] ELSE log[r]]
      /\ handling' = [handling EXCEPT ![c].step = "ack"]
      /\ UNCHANGED <<copies, waiting, lost, resends, round, retrying, stuck, got, unnoted,
                     failures>>
  BY DEF Note!Commit, Note!Go, Note!worker, Note!customer
<1>1. /\ handling'[c].step = "ack" /\ handling'[c] \in Handled
      /\ \A d \in Consumers \ {c} : handling'[d] = handling[d]
  BY <1>0, <1>h DEF Note!IInv, Note!TypeOK, Handled
<1>2. ASSUME NEW r \in Note!Rows
      PROVE  /\ r[1] # h.event => log'[r] = log[r]
             /\ r[1] = h.event => log[r] = "none" /\ log'[r] = h.noted[r[2]]
             /\ log'[r] \in Note!Statuses
  <2>1. r[2] \in Templates
    BY DEF Note!Rows
  <2>2. r[1] = h.event => log[r] = "none"
    BY <1>h DEF Note!IInv, Note!SendingAlone
  <2>3. h.noted[r[2]] \in Note!Statuses
    BY <1>h, <2>1 DEF Note!Statuses
  <2> QED
    BY <1>0, <2>2, <2>3 DEF Note!IInv, Note!TypeOK
<1>3. Note!TypeOK'
  <2>1. handling' \in [Consumers -> {Note!Free} \union Handled]
    BY <1>0, <1>1 DEF Note!IInv, Note!TypeOK, Handled
  <2>2. log' \in [Note!Rows -> Note!Statuses]
    BY <1>0, <1>2
  <2> QED
    BY <1>0, <1>h, <2>1, <2>2 DEF Note!IInv, Note!TypeOK, Handled
<1>4. Note!SendingAlone'
  BY <1>0, <1>1, <1>2, <1>h DEF Note!IInv, Note!SendingAlone
<1>5. Note!WorkerFollows'
  <2>1. \A r \in round : r \in Note!Rows
    BY DEF Note!IInv, Note!TypeOK
  <2>2. retrying # Note!Free => /\ retrying.row \in Note!Rows
                           /\ retrying.step \in {"send", "mark", "count"}
    BY DEF Note!IInv, Note!TypeOK
  <2>3. \A r \in Note!Rows : log[r] # "none" => log'[r] = log[r]
    BY <1>2
  <2>4. retrying # Note!Free => log'[retrying.row] = log[retrying.row]
    BY <2>2, <2>3 DEF Note!IInv, Note!WorkerFollows
  <2>5. \A r \in round : log'[r] = "RETRYING"
    BY <2>1, <2>3 DEF Note!IInv, Note!WorkerFollows
  <2>6. \A r \in Note!Rows : \/ resends[r] < MaxResends
                        \/ /\ log'[r] \in {"SENT", "FAILED"}
                           /\ retrying # Note!Free => retrying.row # r
    BY <2>3 DEF Note!IInv, Note!WorkerFollows
  <2> QED
    BY <1>0, <2>4, <2>5, <2>6 DEF Note!IInv, Note!WorkerFollows
<1>6. Note!OpenUnsent'
  <2> SUFFICES ASSUME NEW r \in Note!Rows, ~Note!Noted(r)',
                      log'[r] \in {"none", "RETRYING", "FAILED"} \/ Note!Sending(r)
               PROVE  got[r] <= unnoted[r]
    BY <1>0 DEF Note!OpenUnsent, Note!Sending
  <2>1. CASE r[1] # h.event
    <3>1. ~Note!Noted(r)
      BY <1>1, <2>1 DEF Note!Noted
    <3> QED
      BY <1>2, <2>1, <3>1 DEF Note!IInv, Note!OpenUnsent
  <2>2. CASE r[1] = h.event
    <3>1. log[r] = "none" /\ log'[r] = h.noted[r[2]]
      BY <1>2, <2>2
    <3>2. ~Note!Sending(r)
      BY <3>1 DEF Note!Sending, Note!IInv, Note!WorkerFollows, Note!Free
    <3>3. h.noted[r[2]] # "SENT"
      BY <3>1, <3>2
    <3>4. ~Note!Noted(r)
      BY <1>h, <2>2, <3>3 DEF Note!Noted, Note!IInv, Note!SendingAlone
    <3> QED
      BY <3>1, <3>4 DEF Note!IInv, Note!OpenUnsent
  <2> QED
    BY <2>1, <2>2
<1> QED
  BY <1>0, <1>3, <1>4, <1>5, <1>6 DEF Note!IInv, Note!NotifiedOnce

\* The worker takes a row, or a step with the one it has; the consumers take none.
LEMMA NoteWorkerInv ==
    ASSUME Note!IInv, UNCHANGED <<copies, Note!consumer>>,
           NEW r \in Note!Rows, log[r] # "none", NEW s \in Note!Statuses \ {"none"},
           log' = [log EXCEPT ![r] = s],
           resends' \in [Note!Rows -> 0..MaxResends],
           \A p \in Note!Rows \ {r} : resends'[p] = resends[p],
           round' \subseteq round \ {r}, stuck' \subseteq Note!Rows, failures' \in 0..MaxFailures,
           retrying = Note!Free \/ retrying.row = r,
           \/ retrying' = Note!Free
           \/ retrying' = [step |-> "send", row |-> r] /\ s = "PROCESSING"
           \/ retrying' = [step |-> "mark", row |-> r] /\ s = "FAILED"
           \/ retrying' = [step |-> "count", row |-> r] /\ s = "RETRYING",
           resends'[r] < MaxResends \/ (retrying' = Note!Free /\ s \in {"SENT", "FAILED"}),
           got' \in [Note!Rows -> Nat], unnoted' \in [Note!Rows -> Nat],
           \A p \in Note!Rows \ {r} : got'[p] = got[p] /\ unnoted'[p] = unnoted[p],
           got'[r] <= 1 + unnoted'[r],
           s # "SENT" => got'[r] <= unnoted'[r]
    PROVE  Note!IInv'
<1>0. log'[r] = s /\ \A p \in Note!Rows \ {r} : log'[p] = log[p]
  BY DEF Note!IInv, Note!TypeOK
<1>1. Note!TypeOK'
  <2>1. log' \in [Note!Rows -> Note!Statuses]
    BY DEF Note!IInv, Note!TypeOK
  <2>2. retrying' \in {Note!Free} \union [step : {"send", "mark", "count"}, row : Note!Rows]
    OBVIOUS
  <2> QED
    BY <2>1, <2>2 DEF Note!IInv, Note!TypeOK, Note!consumer
<1>2. Note!SendingAlone'
  BY <1>0 DEF Note!IInv, Note!SendingAlone, Note!consumer
<1>3. Note!WorkerFollows'
  BY <1>0 DEF Note!IInv, Note!TypeOK, Note!WorkerFollows, Note!Free
<1>4. ASSUME NEW p \in Note!Rows
      PROVE  Note!Noted(p)' <=> Note!Noted(p)
  BY DEF Note!Noted, Note!consumer
<1>5. Note!OpenUnsent'
  <2> SUFFICES ASSUME NEW p \in Note!Rows, ~Note!Noted(p)',
                      log'[p] \in {"none", "RETRYING", "FAILED"} \/ Note!Sending(p)'
               PROVE  got'[p] <= unnoted'[p]
    BY DEF Note!OpenUnsent
  <2>1. CASE p = r
    <3>1. s # "SENT"
      BY <1>0, <2>1 DEF Note!Sending, Note!Free
    <3> QED
      BY <2>1, <3>1
  <2>2. CASE p # r
    <3>1. ~Note!Sending(p)'
      BY <2>2 DEF Note!Sending, Note!Free
    <3> QED
      BY <1>0, <1>4, <2>2, <3>1 DEF Note!IInv, Note!OpenUnsent
  <2> QED
    BY <2>1, <2>2
<1>6. Note!NotifiedOnce'
  BY DEF Note!IInv, Note!NotifiedOnce
<1> QED
  BY <1>1, <1>2, <1>3, <1>5, <1>6 DEF Note!IInv

\* The worker takes a row, or goes on with it, and sends nothing.
LEMMA NoteWorkerNotesInv ==
    ASSUME Note!IInv, UNCHANGED <<copies, Note!consumer, stuck, Note!customer, failures>>,
           NEW r \in Note!Rows, log[r] # "none", NEW s \in Note!Statuses \ {"none"}, s # "SENT",
           log' = [log EXCEPT ![r] = s],
           NEW n \in 0..MaxResends, resends' = [resends EXCEPT ![r] = n],
           round' \subseteq round \ {r},
           retrying = Note!Free \/ retrying.row = r,
           \/ retrying' = Note!Free
           \/ retrying' = [step |-> "send", row |-> r] /\ s = "PROCESSING"
           \/ retrying' = [step |-> "mark", row |-> r] /\ s = "FAILED"
           \/ retrying' = [step |-> "count", row |-> r] /\ s = "RETRYING",
           n < MaxResends \/ (retrying' = Note!Free /\ s = "FAILED"),
           got[r] <= unnoted[r]
    PROVE  Note!IInv'
<1>1. /\ resends' \in [Note!Rows -> 0..MaxResends] /\ resends'[r] = n
      /\ \A p \in Note!Rows \ {r} : resends'[p] = resends[p]
  BY DEF Note!IInv, Note!TypeOK
<1>2. /\ stuck' \subseteq Note!Rows /\ failures' \in 0..MaxFailures
      /\ got' \in [Note!Rows -> Nat] /\ unnoted' \in [Note!Rows -> Nat]
      /\ \A p \in Note!Rows : got'[p] = got[p] /\ unnoted'[p] = unnoted[p]
  BY DEF Note!IInv, Note!TypeOK, Note!customer
<1>3. got'[r] <= unnoted'[r] /\ got'[r] <= 1 + unnoted'[r]
  BY <1>2
<1>4. UNCHANGED <<copies, Note!consumer>>
  OBVIOUS
<1>5. resends'[r] < MaxResends \/ (retrying' = Note!Free /\ s \in {"SENT", "FAILED"})
  BY <1>1
<1> QED
  BY <1>1, <1>2, <1>3, <1>4, <1>5, NoteWorkerInv

\* What is known of a row that waits for the worker, or that it has.
LEMMA NoteRowIs ==
    ASSUME Note!IInv, NEW r \in Note!Rows, log[r] # "none",
           log[r] \in {"RETRYING", "FAILED"} \/ Note!Sending(r)
    PROVE  /\ got[r] \in Nat /\ unnoted[r] \in Nat /\ got[r] <= unnoted[r]
BY NoteNotNoted DEF Note!IInv, Note!TypeOK, Note!OpenUnsent

LEMMA NoteRetryingIs ==
    ASSUME Note!IInv, retrying # Note!Free
    PROVE  /\ retrying.row \in Note!Rows /\ retrying.step \in {"send", "mark", "count"}
           /\ retrying = [step |-> retrying.step, row |-> retrying.row]
           /\ retrying.row \notin round /\ log[retrying.row] # "none"
           /\ resends[retrying.row] \in 0..MaxResends
           /\ resends[retrying.row] < MaxResends
           /\ got[retrying.row] \in Nat /\ unnoted[retrying.row] \in Nat
           /\ got[retrying.row] <= unnoted[retrying.row]
<1>1. /\ retrying.row \in Note!Rows /\ retrying.step \in {"send", "mark", "count"}
      /\ retrying = [step |-> retrying.step, row |-> retrying.row]
  BY DEF Note!IInv, Note!TypeOK
<1>2. /\ retrying.row \notin round /\ log[retrying.row] # "none"
      /\ resends[retrying.row] < MaxResends
      /\ log[retrying.row] \in {"RETRYING", "FAILED"} \/ Note!Sending(retrying.row)
  BY <1>1 DEF Note!IInv, Note!WorkerFollows, Note!Sending
<1> QED
  BY <1>1, <1>2, NoteRowIs DEF Note!IInv, Note!TypeOK

LEMMA NoteResendInv ==
    ASSUME Note!IInv, Note!Resend
    PROVE  Note!IInv'
<1> DEFINE r == retrying.row
<1>0. retrying # Note!Free /\ retrying.step = "send"
  BY DEF Note!Resend, Note!Free
<1>1. PICK a \in Note!Answers :
         /\ Note!Deliver(r, a)
         /\ log' = [log EXCEPT ![r] = a.status]
         /\ retrying' = IF a.status = "SENT" THEN Note!Free ELSE [retrying EXCEPT !.step = "mark"]
  BY DEF Note!Resend
<1>2. a.sent \in BOOLEAN /\ a.status \in {"SENT", "FAILED"}
      /\ (a.status = "SENT" => a.sent)
  BY DEF Note!Answers
<1>3. UNCHANGED <<copies, Note!consumer, resends, round, stuck, failures>>
  BY DEF Note!Resend
<1>4. /\ r \in Note!Rows /\ log[r] # "none" /\ r \notin round /\ resends[r] < MaxResends
      /\ got[r] \in Nat /\ unnoted[r] \in Nat /\ got[r] <= unnoted[r]
      /\ retrying = [step |-> "send", row |-> r]
  BY <1>0, NoteRetryingIs
<1>5. /\ got' \in [Note!Rows -> Nat] /\ unnoted' \in [Note!Rows -> Nat]
      /\ \A p \in Note!Rows \ {r} : got'[p] = got[p] /\ unnoted'[p] = unnoted[p]
      /\ got'[r] = (IF a.sent THEN got[r] + 1 ELSE got[r])
      /\ unnoted'[r] = (IF a.sent /\ a.status = "FAILED" THEN unnoted[r] + 1
                        ELSE unnoted[r])
  BY <1>1, <1>4 DEF Note!Deliver, Note!IInv, Note!TypeOK
<1>6. got'[r] <= 1 + unnoted'[r] /\ (a.status # "SENT" => got'[r] <= unnoted'[r])
  BY <1>2, <1>4, <1>5
<1>7. \/ retrying' = Note!Free /\ a.status = "SENT"
      \/ retrying' = [step |-> "mark", row |-> r] /\ a.status = "FAILED"
  BY <1>1, <1>2, <1>4
<1>8. /\ resends \in [Note!Rows -> 0..MaxResends] /\ stuck \subseteq Note!Rows
      /\ failures \in 0..MaxFailures /\ a.status \in Note!Statuses \ {"none"}
  BY <1>2 DEF Note!IInv, Note!TypeOK, Note!Statuses
<1> QED
  BY <1>1, <1>3, <1>4, <1>5, <1>6, <1>7, <1>8, NoteWorkerInv

LEMMA NoteWorkerDiesInv ==
    ASSUME Note!IInv, Note!WorkerDies
    PROVE  Note!IInv'
<1>0. /\ failures < MaxFailures /\ failures' = failures + 1 /\ round' = {} /\ retrying' = Note!Free
      /\ UNCHANGED <<copies, Note!consumer, Note!rows, unnoted>>
  BY DEF Note!WorkerDies
<1>1. retrying = Note!Free => retrying.step = "free"
  BY DEF Note!Free
<1>2. /\ got' \in [Note!Rows -> Nat]
      /\ \A p \in Note!Rows : /\ got'[p] = got[p] \/ Note!Sending(p)
                         /\ got'[p] <= 1 + unnoted[p]
  <2>1. CASE UNCHANGED got
    BY <2>1 DEF Note!IInv, Note!TypeOK, Note!NotifiedOnce
  <2>2. CASE retrying.step = "send" /\ got' = [got EXCEPT ![retrying.row] = @ + 1]
    <3>1. retrying # Note!Free
      BY <1>1, <2>2
    <3>2. Note!Sending(retrying.row)
      BY <2>2, <3>1, NoteRetryingIs DEF Note!Sending
    <3>3. \A p \in Note!Rows \ {retrying.row} : got'[p] = got[p]
      BY <2>2 DEF Note!IInv, Note!TypeOK
    <3>4. /\ retrying.row \in Note!Rows /\ got'[retrying.row] = got[retrying.row] + 1
          /\ got'[retrying.row] <= 1 + unnoted[retrying.row]
      BY <2>2, <3>1, NoteRetryingIs DEF Note!IInv, Note!TypeOK
    <3>5. got' \in [Note!Rows -> Nat]
      BY <2>2, <3>4 DEF Note!IInv, Note!TypeOK
    <3> QED
      BY <3>2, <3>3, <3>4, <3>5 DEF Note!IInv, Note!NotifiedOnce
  <2> QED
    BY <2>1, <2>2 DEF Note!WorkerDies
<1>3. stuck' \subseteq Note!Rows
  <2>1. CASE retrying.step \in {"send", "mark"}
    <3>1. retrying # Note!Free
      BY <1>1, <2>1
    <3> QED
      BY <2>1, <3>1, NoteRetryingIs DEF Note!WorkerDies, Note!IInv, Note!TypeOK
  <2> QED
    BY <2>1 DEF Note!WorkerDies, Note!IInv, Note!TypeOK
<1>4. Note!TypeOK'
  BY <1>0, <1>2, <1>3, EventsAssumption DEF Note!IInv, Note!TypeOK, Note!consumer,
                                            Note!rows
<1>5. Note!SendingAlone' /\ Note!WorkerFollows'
  BY <1>0 DEF Note!IInv, Note!SendingAlone, Note!WorkerFollows, Note!consumer,
              Note!rows
<1>6. Note!OpenUnsent'
  <2> SUFFICES ASSUME NEW p \in Note!Rows, ~Note!Noted(p)',
                      log'[p] \in {"none", "RETRYING", "FAILED"} \/ Note!Sending(p)'
               PROVE  got'[p] <= unnoted'[p]
    BY DEF Note!OpenUnsent
  <2>1. ~Note!Noted(p) /\ log[p] \in {"none", "RETRYING", "FAILED"}
    BY <1>0 DEF Note!Noted, Note!Sending, Note!Free, Note!consumer, Note!rows
  <2>2. ~Note!Sending(p)
    BY <2>1 DEF Note!IInv, Note!WorkerFollows, Note!Sending, Note!Free
  <2> QED
    BY <1>0, <1>2, <2>1, <2>2 DEF Note!IInv, Note!OpenUnsent
<1>7. Note!NotifiedOnce'
  BY <1>0, <1>2 DEF Note!IInv, Note!NotifiedOnce
<1> QED
  BY <1>4, <1>5, <1>6, <1>7 DEF Note!IInv

\* A step that moves messages, or the worker's list, and nothing else.
LEMMA NoteElseInv ==
    ASSUME Note!IInv,
           UNCHANGED <<handling, inbox, lost, Note!rows, retrying, stuck, Note!customer, failures>>,
           copies' \in [Events -> 0..MaxCopies], waiting' \in [Events -> Nat],
           round' \subseteq {r \in Note!Rows : log[r] = "RETRYING"},
           retrying # Note!Free => round' \subseteq round
    PROVE  Note!IInv'
<1>1. Note!TypeOK'
  BY DEF Note!IInv, Note!TypeOK, Note!rows, Note!customer
<1>2. Note!SendingAlone' /\ Note!WorkerFollows'
  BY DEF Note!IInv, Note!SendingAlone, Note!WorkerFollows, Note!rows
<1>3. Note!OpenUnsent' /\ Note!NotifiedOnce'
  BY DEF Note!IInv, Note!OpenUnsent, Note!NotifiedOnce, Note!Noted, Note!Sending,
         Note!rows, Note!customer
<1> QED
  BY <1>1, <1>2, <1>3 DEF Note!IInv

LEMMA NoteNextInv == Note!IInv /\ [Note!Next]_(Note!vars) => Note!IInv'
<1> SUFFICES ASSUME Note!IInv, [Note!Next]_(Note!vars) PROVE Note!IInv'
  OBVIOUS
<1> USE DEF Note!consumer, Note!worker
<1>0. /\ Note!TypeOK /\ failures \in 0..MaxFailures /\ lost \subseteq Events
      /\ copies \in [Events -> 0..MaxCopies] /\ waiting \in [Events -> Nat]
      /\ round \subseteq {r \in Note!Rows : log[r] = "RETRYING"} /\ stuck \subseteq Note!Rows
      /\ got \in [Note!Rows -> Nat] /\ unnoted \in [Note!Rows -> Nat]
      /\ resends \in [Note!Rows -> 0..MaxResends]
  BY DEF Note!IInv, Note!TypeOK, Note!WorkerFollows
<1>s. /\ "PROCESSING" \in Note!Statuses \ {"none"} /\ "RETRYING" \in Note!Statuses \ {"none"}
      /\ "FAILED" \in Note!Statuses \ {"none"}
  BY DEF Note!Statuses
<1>1. ASSUME NEW e \in Events, Note!Publish(e) PROVE Note!IInv'
  <2>1. copies' \in [Events -> 0..MaxCopies] /\ waiting' \in [Events -> Nat]
    BY <1>0, <1>1, EventsAssumption DEF Note!Publish
  <2> QED
    BY <1>0, <1>1, <2>1, NoteElseInv DEF Note!Publish
<1>2. ASSUME NEW c \in Consumers, NEW e \in Events, Note!Receive(c, e) PROVE Note!IInv'
  <2> DEFINE h == [step |-> "check", event |-> e, left |-> {},
                   noted |-> [t \in Templates |-> "none"]]
  <2>1. h \in Handled /\ h.step = "check" /\ handling[c].step # "send"
        /\ \A t \in Templates : h.noted[t] = "none"
    BY <1>2 DEF Handled, Note!Receive, Note!Free
  <2>2. waiting' \in [Events -> Nat]
    BY <1>0, <1>2 DEF Note!Receive
  <2>3. handling' = [handling EXCEPT ![c] = h]
    BY <1>2 DEF Note!Receive
  <2> HIDE DEF h
  <2> QED
    BY <1>0, <1>2, <2>1, <2>2, <2>3, NoteHandlerInv DEF Note!Receive
<1>3. ASSUME NEW c \in Consumers, Note!CheckInbox(c) PROVE Note!IInv'
  <2>1. PICK s \in {"ack", "insert"} : Note!Go(c, s)
    BY <1>3 DEF Note!CheckInbox
  <2> DEFINE h == [handling[c] EXCEPT !.step = s]
  <2>2. handling[c].step = "check"
    BY <1>3 DEF Note!CheckInbox
  <2>3. handling[c] \in Handled
    BY <1>0, <2>2, NoteHandlingIs
  <2>4. h.noted = handling[c].noted
        /\ \A t \in Templates : handling[c].noted[t] = "none"
    BY <2>2, <2>3 DEF Note!IInv, Note!SendingAlone, Handled
  <2>5. h \in Handled /\ h.step = s /\ handling' = [handling EXCEPT ![c] = h]
    BY <2>1, <2>3 DEF Handled, Note!Go
  <2> HIDE DEF h
  <2> QED
    BY <1>0, <1>3, <2>2, <2>4, <2>5, NoteHandlerInv DEF Note!CheckInbox
<1>4. ASSUME NEW c \in Consumers, Note!Insert(c) PROVE Note!IInv'
  <2>1. PICK used \in SUBSET Templates :
           handling' = [handling EXCEPT ![c].step = "send", ![c].left = used]
    BY <1>4 DEF Note!Insert
  <2>2. /\ handling[c].step = "insert" /\ ~Note!Waits(c) /\ handling[c].event \notin inbox
        /\ UNCHANGED <<copies, waiting, inbox, lost, Note!rows, Note!worker, Note!customer, failures>>
    BY <1>4 DEF Note!Insert
  <2>3. handling[c] \in Handled
    BY <1>0, <2>2, NoteHandlingIs
  <2> DEFINE h0 == [handling[c] EXCEPT !.step = "send"]
             h == [h0 EXCEPT !.left = used]
  <2>4. h0 \in Handled /\ h0.event = handling[c].event /\ h0.noted = handling[c].noted
        /\ h0.step = "send"
    BY <2>3 DEF Handled
  <2>5. handling' = [handling EXCEPT ![c] = h]
    BY <2>1 DEF Note!IInv, Note!TypeOK
  <2> HIDE DEF h0
  <2>6. h \in Handled /\ h.event = handling[c].event /\ h.noted = handling[c].noted
        /\ h.step = "send"
    BY <2>4 DEF Handled
  <2> HIDE DEF h
  <2>7. \A t \in Templates : handling[c].noted[t] = "none"
    BY <2>2 DEF Note!IInv, Note!SendingAlone
  <2>8. \A d \in Consumers \ {c} :
           ~(handling[d].step = "send" /\ handling[d].event = h.event)
    BY <2>2, <2>6 DEF Note!Waits
  <2> QED
    BY <1>0, <2>2, <2>5, <2>6, <2>7, <2>8, NoteHandlerInv
<1>5. ASSUME NEW c \in Consumers, Note!InsertCollides(c) PROVE Note!IInv'
  <2>1. handling[c] # Note!Free /\ handling[c].event \in Events
    BY <1>0, <1>5, NoteHandlingIs DEF Note!InsertCollides
  <2> QED
    BY <1>0, <1>5, <2>1, NoteForgetInv DEF Note!InsertCollides
<1>6. ASSUME NEW c \in Consumers, NEW t \in Templates, Note!Send(c, t) PROVE Note!IInv'
  BY <1>6, NoteSendInv
<1>7. ASSUME NEW c \in Consumers, Note!Commit(c) PROVE Note!IInv'
  BY <1>7, NoteCommitInv
<1>8. ASSUME NEW c \in Consumers, Note!Ack(c) PROVE Note!IInv'
  BY <1>0, <1>8, NoteHandlerInv DEF Note!Ack, Note!Free
<1>9. ASSUME NEW c \in Consumers, Note!HandlerRaises(c) \/ Note!ConsumerDies(c) PROVE Note!IInv'
  <2>1. handling[c].step # "free"
    BY <1>0, <1>9 DEF Note!HandlerRaises, Note!ConsumerDies, Note!TypeOK, Note!Free
  <2>2. handling[c] # Note!Free /\ handling[c].event \in Events
    BY <1>0, <2>1, NoteHandlingIs
  <2>3. failures' \in 0..MaxFailures
    BY <1>0, <1>9, EventsAssumption DEF Note!HandlerRaises, Note!ConsumerDies
  <2>4. waiting' \in [Events -> Nat] /\ lost' \subseteq Events
    BY <1>0, <1>9, <2>2 DEF Note!HandlerRaises, Note!ConsumerDies
  <2> QED
    BY <1>9, <2>2, <2>3, <2>4, NoteForgetInv
       DEF Note!HandlerRaises, Note!ConsumerDies
<1>10. CASE Note!Select
  BY <1>0, <1>10, NoteElseInv DEF Note!Select
<1>11. ASSUME NEW r \in Note!Rows, Note!StartRetry(r) PROVE Note!IInv'
  <2>1. log[r] = "RETRYING" /\ got[r] <= unnoted[r]
    BY <1>0, <1>11, NoteRowIs DEF Note!StartRetry
  <2>2. resends[r] < MaxResends
    BY <2>1 DEF Note!IInv, Note!WorkerFollows
  <2>3. resends' = [resends EXCEPT ![r] = resends[r]] /\ resends[r] \in 0..MaxResends
    BY <1>0, <1>11 DEF Note!StartRetry
  <2> QED
    BY <1>11, <2>1, <2>2, <2>3, <1>s, NoteWorkerNotesInv DEF Note!StartRetry
<1>12. CASE Note!Resend
  BY <1>12, NoteResendInv
<1>13. CASE Note!MarkRetrying
  <2> DEFINE r == retrying.row
  <2>1. retrying # Note!Free /\ retrying.step = "mark"
    BY <1>13 DEF Note!MarkRetrying, Note!Free
  <2>2. /\ r \in Note!Rows /\ log[r] # "none" /\ r \notin round /\ resends[r] < MaxResends
        /\ got[r] \in Nat /\ unnoted[r] \in Nat /\ got[r] <= unnoted[r]
        /\ retrying = [step |-> "mark", row |-> r]
    BY <2>1, NoteRetryingIs
  <2>3. retrying' = [step |-> "count", row |-> r] /\ log' = [log EXCEPT ![r] = "RETRYING"]
    BY <1>13, <2>2 DEF Note!MarkRetrying
  <2>4. resends' = [resends EXCEPT ![r] = resends[r]] /\ resends[r] \in 0..MaxResends
        /\ round' \subseteq round \ {r}
        /\ UNCHANGED <<copies, Note!consumer, stuck, Note!customer, failures>>
    BY <1>0, <1>13, <2>2 DEF Note!MarkRetrying
  <2> HIDE DEF r
  <2> QED
    BY <2>2, <2>3, <2>4, <1>s, NoteWorkerNotesInv
<1>14. CASE Note!CountRetry
  <2> DEFINE r == retrying.row
  <2>1. retrying # Note!Free /\ retrying.step = "count"
    BY <1>14 DEF Note!CountRetry, Note!Free
  <2>2. /\ r \in Note!Rows /\ log[r] # "none" /\ r \notin round
        /\ resends[r] \in 0..MaxResends /\ resends[r] < MaxResends
        /\ got[r] \in Nat /\ unnoted[r] \in Nat /\ got[r] <= unnoted[r]
    BY <2>1, NoteRetryingIs
  <2>3. resends' = [resends EXCEPT ![r] = @ + 1] /\ retrying' = Note!Free
        /\ UNCHANGED <<copies, Note!consumer, round, stuck, Note!customer, failures>>
    BY <1>14 DEF Note!CountRetry
  <2>4. /\ resends' \in [Note!Rows -> 0..MaxResends] /\ resends'[r] = resends[r] + 1
        /\ \A p \in Note!Rows \ {r} : resends'[p] = resends[p]
    BY <2>2, <2>3, EventsAssumption DEF Note!IInv, Note!TypeOK
  <2>5. PICK s \in {"FAILED", "RETRYING"} :
           /\ log' = [log EXCEPT ![r] = s]
           /\ resends'[r] >= MaxResends => s = "FAILED"
    BY <1>14 DEF Note!CountRetry
  <2>6. resends'[r] < MaxResends \/ s = "FAILED"
    BY <2>2, <2>4, <2>5, EventsAssumption
  <2>7. /\ resends' = [resends EXCEPT ![r] = resends[r] + 1]
        /\ resends[r] + 1 \in 0..MaxResends
        /\ resends[r] + 1 < MaxResends \/ s = "FAILED"
    BY <2>2, <2>3, <2>4, <2>6, EventsAssumption
  <2>8. s \in Note!Statuses \ {"none"} /\ s # "SENT" /\ round' \subseteq round \ {r}
    BY <2>2, <2>3, <1>s
  <2>9. retrying.row = r
    OBVIOUS
  <2> HIDE DEF r
  <2> QED
    BY <2>2, <2>3, <2>5, <2>7, <2>8, <2>9, NoteWorkerNotesInv
<1>15. CASE Note!WorkerDies
  BY <1>15, NoteWorkerDiesInv
<1>16. CASE UNCHANGED Note!vars
  BY <1>0, <1>16, NoteElseInv DEF Note!vars
<1> QED
  BY <1>1, <1>2, <1>3, <1>4, <1>5, <1>6, <1>7, <1>8, <1>9, <1>10, <1>11, <1>12,
     <1>13, <1>14, <1>15, <1>16
     DEF Note!Next, Note!Handle, Note!Retry

\* Whoever writes a row or sends its message works on one that is not settled.
LEMMA NoteSettledStays ==
    ASSUME Note!IInv, [Note!Next]_(Note!vars), NEW r \in Note!Rows, Note!Settled(r)
    PROVE  UNCHANGED <<log[r], resends[r], got[r]>>
<1>0. /\ log \in [Note!Rows -> Note!Statuses] /\ got \in [Note!Rows -> Nat]
      /\ resends \in [Note!Rows -> 0..MaxResends]
      /\ log[r] \in {"SENT", "FAILED"} /\ r[1] \in inbox /\ r \notin round
  BY DEF Note!IInv, Note!TypeOK, Note!SendingAlone, Note!WorkerFollows,
         Note!Settled
<1>w. ASSUME retrying # Note!Free PROVE retrying.row # r
  <2>1. ASSUME retrying.row = r PROVE FALSE
    <3>1. retrying.step \in {"send", "mark", "count"} /\ resends[r] < MaxResends
      BY <1>w, <2>1, NoteRetryingIs
    <3>2. log[r] = "SENT" \/ resends[r] = MaxResends
      BY DEF Note!Settled
    <3>3. resends[r] \in Nat /\ MaxResends \in Nat
      BY <1>0, EventsAssumption
    <3>4. log[r] = "SENT"
      BY <3>1, <3>2, <3>3
    <3> QED
      BY <1>w, <2>1, <3>1, <3>4 DEF Note!IInv, Note!WorkerFollows
  <2> QED
    BY <2>1
<1>1. ASSUME NEW c \in Consumers, NEW t \in Templates, Note!Send(c, t)
      PROVE  UNCHANGED <<log[r], resends[r], got[r]>>
  <2>1. handling[c].event \notin inbox
    BY <1>1 DEF Note!IInv, Note!SendingAlone, Note!Send
  <2>2. <<handling[c].event, t>> # r
    BY <1>0, <2>1
  <2> QED
    BY <1>0, <1>1, <2>2 DEF Note!Send, Note!Deliver, Note!rows
<1>2. ASSUME NEW c \in Consumers, Note!Commit(c)
      PROVE  UNCHANGED <<log[r], resends[r], got[r]>>
  <2>1. handling[c].event \notin inbox
    BY <1>2 DEF Note!IInv, Note!SendingAlone, Note!Commit
  <2>2. r[1] # handling[c].event
    BY <1>0, <2>1
  <2> QED
    BY <2>2, <1>2 DEF Note!Commit, Note!customer
<1>3. ASSUME NEW p \in Note!Rows, Note!StartRetry(p)
      PROVE  UNCHANGED <<log[r], resends[r], got[r]>>
  BY <1>0, <1>3 DEF Note!StartRetry, Note!customer
<1>4. CASE Note!Resend \/ Note!MarkRetrying \/ Note!CountRetry
  <2>1. retrying # Note!Free
    BY <1>4 DEF Note!Resend, Note!MarkRetrying, Note!CountRetry, Note!Free
  <2>2. retrying.row # r
    BY <1>w, <2>1
  <2> QED
    BY <1>0, <1>4, <2>2 DEF Note!Resend, Note!MarkRetrying, Note!CountRetry,
                            Note!Deliver, Note!customer
<1>5. CASE Note!WorkerDies
  <2>1. \/ got' = got
        \/ retrying # Note!Free /\ got' = [got EXCEPT ![retrying.row] = @ + 1]
    BY <1>5 DEF Note!WorkerDies, Note!Free
  <2>2. log' = log /\ resends' = resends
    BY <1>5 DEF Note!WorkerDies, Note!rows
  <2> QED
    BY <1>0, <1>w, <2>1, <2>2
<1>6. ASSUME NEW c \in Consumers,
             \/ Note!CheckInbox(c) \/ Note!Insert(c) \/ Note!InsertCollides(c)
             \/ Note!Ack(c) \/ Note!HandlerRaises(c) \/ Note!ConsumerDies(c)
             \/ \E e \in Events : Note!Receive(c, e)
      PROVE  log' = log /\ resends' = resends /\ got' = got
  BY <1>6 DEF Note!CheckInbox, Note!Insert, Note!InsertCollides, Note!Ack,
              Note!HandlerRaises, Note!ConsumerDies, Note!Receive, Note!Forget,
              Note!rows, Note!customer
<1>7. ASSUME \/ \E e \in Events : Note!Publish(e)
             \/ Note!Select
             \/ UNCHANGED Note!vars
      PROVE  log' = log /\ resends' = resends /\ got' = got
  BY <1>7 DEF Note!Publish, Note!Select, Note!vars, Note!rows, Note!customer
<1> QED
  BY <1>1, <1>2, <1>3, <1>4, <1>5, <1>6, <1>7
     DEF Note!Next, Note!Handle, Note!Retry

------------------------------------------------------------------------------
\* The parts side by side

\* A step is one of its part, and the variables of the others stay.
LEMMA PartsStep ==
    ASSUME [MCNext]_<<part, vars, interest, notice>>
    PROVE  /\ [Track!Next]_(Track!vars)
           /\ [Note!Next]_(Note!vars)
<1>1. [Track!Next]_(Track!vars)
  BY DEF MCNext, interest, Track!vars, Track!relay, Track!consumer, Track!stores
<1>2. [Note!Next]_(Note!vars)
  BY DEF MCNext, notice, Note!vars, Note!consumer, Note!rows, Note!worker,
         Note!customer
<1> QED
  BY <1>1, <1>2

\* An interaction is counted once, and once more for each death of a relay or of
\* the consumer, and a shopper's sequence holds no interaction that is not stored.
THEOREM InteractionsCounted == MCSpec => []CountedOnce
<1>1. MCInit => Track!IInv
  BY TrackInitInv DEF MCInit
<1>2. Track!IInv /\ [MCNext]_<<part, vars, interest, notice>> => Track!IInv'
  BY PartsStep, TrackNextInv
<1>3. Track!IInv => CountedOnce
  BY DEF Track!IInv, CountedOnce
<1> QED
  BY <1>1, <1>2, <1>3, PTL DEF MCSpec

\* A customer gets a message once, and once more for each sending of which the
\* consumer or the worker could keep no trace.
THEOREM CustomersNotifiedOnce == MCSpec => []NotifiedOnce
<1>1. MCInit => Note!IInv
  BY NoteInitInv DEF MCInit
<1>2. Note!IInv /\ [MCNext]_<<part, vars, interest, notice>>
         => Note!IInv'
  BY PartsStep, NoteNextInv
<1>3. Note!IInv => NotifiedOnce
  BY DEF Note!IInv, NotifiedOnce
<1> QED
  BY <1>1, <1>2, <1>3, PTL DEF MCSpec

\* A row that is published or given up is not written or published again, although
\* relay_outbox works on the rows of a batch that it has read long before.
THEOREM RowsOver == MCSpec => Track!OverStay
<1>1. MCInit => Track!IInv
  BY TrackInitInv DEF MCInit
<1>2. Track!IInv /\ [MCNext]_<<part, vars, interest, notice>> => Track!IInv'
  BY PartsStep, TrackNextInv
<1>3. Track!IInv /\ [MCNext]_<<part, vars, interest, notice>>
        => [\A k \in Keys : Track!Over(k)
              => recorded'[k] = recorded[k] /\ queue'[k] <= queue[k]]_(Track!vars)
  BY PartsStep, TrackOverStays
<1> QED
  BY <1>1, <1>2, <1>3, PTL DEF MCSpec, Track!OverStay

\* A message that was sent, or given up after all its retries, is left alone, however
\* often its event is delivered again (process_event, notification_retry_worker).
THEOREM MessagesSettled == MCSpec => Note!SettledStay
<1>1. MCInit => Note!IInv
  BY NoteInitInv DEF MCInit
<1>2. Note!IInv /\ [MCNext]_<<part, vars, interest, notice>> => Note!IInv'
  BY PartsStep, NoteNextInv
<1>3. Note!IInv /\ [MCNext]_<<part, vars, interest, notice>>
        => [\A r \in Note!Rows : Note!Settled(r)
              => UNCHANGED <<log[r], resends[r], got[r]>>]_(Note!vars)
  BY PartsStep, NoteSettledStays
<1> QED
  BY <1>1, <1>2, <1>3, PTL DEF MCSpec, Note!SettledStay
=============================================================================
