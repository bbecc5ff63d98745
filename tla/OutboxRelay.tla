----------------------------- MODULE OutboxRelay -----------------------------
(***************************************************************************)
(* The relay_outbox commands: processes that poll an outbox table and      *)
(* publish its PENDING rows to an exchange, oldest first.                  *)
(*                                                                         *)
(* The order, inventory and payment relays are one loop: lock the row,     *)
(* look at it again, publish, record the outcome, commit.  They differ in  *)
(* whether the record can be written at all.  The order relay names        *)
(* columns its OutboxEvent does not have (published_at, error_message), so *)
(* the save that records success raises, the one that records the failure  *)
(* raises as well, the transaction is rolled back after the publish, and   *)
(* the process dies and is restarted by docker-compose.                    *)
(*                                                                         *)
(* basic_publish may raise, which counts against the row.  What it accepts  *)
(* is taken to be safe with the broker: a broker that dies with the event  *)
(* is outside this module (nothing confirms a publish).                    *)
(***************************************************************************)
EXTENDS Naturals, FiniteSetsExt

CONSTANTS
    Last,            \* rows are numbered 1..Last, by created_at
    Relays,          \* relay processes on the table
    RecordsOutcome,  \* the row has the columns the relay writes
    BrokerMayRefuse, \* basic_publish may raise
    MaxRetries,      \* retry_count at which a row is given up (5 in the code)
    MaxCrashes,      \* bound: crashes of relay processes
    MaxSends         \* bound: counts of deliveries saturate here

ASSUME RelayAssumption ==
    /\ Last \in Nat /\ MaxRetries \in Nat \ {0}
    /\ MaxCrashes \in Nat /\ MaxSends \in Nat \ {0}
    /\ RecordsOutcome \in BOOLEAN /\ BrokerMayRefuse \in BOOLEAN

VARIABLES
    row,      \* OutboxEvent.status, "ABSENT" until its writer commits
    retries,  \* retry_count
    sent,     \* how often the exchange got the event
    todo,     \* rows of a relay's last poll it has yet to handle, in their order
    at,       \* where a relay is with the first of them
    crashes

vars == <<row, retries, sent, todo, at, crashes>>
Rows == 1..Last

TypeOK ==
    /\ row \in [Rows -> {"ABSENT", "PENDING", "PUBLISHED", "FAILED"}]
    /\ retries \in [Rows -> 0..MaxRetries]
    /\ sent \in [Rows -> 0..MaxSends]
    /\ todo \in [Relays -> SUBSET Rows]
    /\ at \in [Relays -> {"free", "locked", "handed"}]
    /\ crashes \in 0..MaxCrashes

Init ==
    /\ row = [e \in Rows |-> "ABSENT"]
    /\ retries = [e \in Rows |-> 0]
    /\ sent = [e \in Rows |-> 0]
    /\ todo = [w \in Relays |-> {}]
    /\ at = [w \in Relays |-> "free"]
    /\ crashes = 0

\* A business transaction commits its event.  created_at was taken before the
\* commit, so rows become visible in any order.
Commit(e) ==
    /\ row[e] = "ABSENT"
    /\ row' = [row EXCEPT ![e] = "PENDING"]
    /\ UNCHANGED <<retries, sent, todo, at, crashes>>

\* ORDER BY created_at.
First(rows) == Min(rows)
Current(w) == First(todo[w])

\* Mutant: the relay goes on from the last row published.
PollFromCursor(w) ==
    /\ todo[w] = {}
    /\ LET due == {e \in Rows : row[e] = "PENDING"
                                /\ \A d \in Rows : row[d] = "PUBLISHED" => d < e} IN
       /\ due # {}
       /\ todo' = [todo EXCEPT ![w] = due]
    /\ UNCHANGED <<row, retries, sent, at, crashes>>

Poll(w) ==
    /\ todo[w] = {}
    /\ \E e \in Rows : row[e] = "PENDING"
    /\ todo' = [todo EXCEPT ![w] = {e \in Rows : row[e] = "PENDING"}]
    /\ UNCHANGED <<row, retries, sent, at, crashes>>

\* Another relay's transaction holds the row.
Locked(e, w) ==
    \E x \in Relays \ {w} : at[x] # "free" /\ Current(x) = e

\* The row is locked and read again; a row another relay has settled since the
\* poll is passed over.
Lock(w) ==
    /\ todo[w] # {} /\ at[w] = "free"
    /\ ~ Locked(Current(w), w)
    /\ IF row[Current(w)] = "PENDING"
       THEN at' = [at EXCEPT ![w] = "locked"] /\ UNCHANGED todo
       ELSE todo' = [todo EXCEPT ![w] = @ \ {Current(w)}] /\ UNCHANGED at
    /\ UNCHANGED <<row, retries, sent, crashes>>

\* The process is gone and with it its transaction and its list.
Restarted(w) ==
    /\ todo' = [todo EXCEPT ![w] = {}]
    /\ at' = [at EXCEPT ![w] = "free"]

\* The transaction on the first row commits and the loop moves on.
Done(w) ==
    /\ todo' = [todo EXCEPT ![w] = @ \ {Current(w)}]
    /\ at' = [at EXCEPT ![w] = "free"]

\* basic_publish returns.
Publish(w) ==
    /\ at[w] = "locked"
    /\ at' = [at EXCEPT ![w] = "handed"]
    /\ sent' = [sent EXCEPT ![Current(w)] = IF @ < MaxSends THEN @ + 1 ELSE @]
    /\ UNCHANGED <<row, retries, todo, crashes>>

\* basic_publish raises.
PublishFails(w) ==
    /\ at[w] = "locked"
    /\ BrokerMayRefuse
    /\ IF RecordsOutcome
       THEN LET e == Current(w) IN
            /\ retries' = [retries EXCEPT ![e] = @ + 1]
            /\ row' = [row EXCEPT ![e] =
                         IF retries[e] + 1 >= MaxRetries THEN "FAILED" ELSE "PENDING"]
            /\ Done(w)
       ELSE Restarted(w) /\ UNCHANGED <<row, retries>>
    /\ UNCHANGED <<sent, crashes>>

\* Mutant: no status saved.
RecordNothing(w) ==
    /\ at[w] = "handed"
    /\ Done(w)
    /\ UNCHANGED <<row, retries, sent, crashes>>

\* The outcome is recorded, or cannot be.
RecordPublished(w) ==
    /\ at[w] = "handed"
    /\ IF RecordsOutcome
       THEN /\ row' = [row EXCEPT ![Current(w)] = "PUBLISHED"]
            /\ Done(w)
       ELSE Restarted(w) /\ UNCHANGED row
    /\ UNCHANGED <<retries, sent, crashes>>

Crash(w) ==
    /\ crashes < MaxCrashes
    /\ todo[w] # {}
    /\ Restarted(w)
    /\ crashes' = crashes + 1
    /\ UNCHANGED <<row, retries, sent>>

RelayStep(w) ==
    \/ Poll(w) \/ Lock(w) \/ Publish(w) \/ PublishFails(w) \/ RecordPublished(w)

Next ==
    \/ \E e \in Rows : Commit(e)
    \/ \E w \in Relays : RelayStep(w) \/ Crash(w)

Spec == Init /\ [][Next]_vars

\* The loops never stop for good: docker-compose restarts what dies.  And no
\* outage of the broker lasts for ever.
Fairness == \A w \in Relays : WF_vars(RelayStep(w)) /\ SF_vars(Publish(w))

FairSpec == Spec /\ Fairness

------------------------------------------------------------------------------

\* A row is in one relay's transaction at a time, and is PENDING while it is.
RowsExclusive ==
    \A w \in Relays : at[w] # "free" =>
        /\ todo[w] # {}
        /\ row[Current(w)] = "PENDING"
        /\ \A x \in Relays \ {w} : at[x] # "free" => Current(x) # Current(w)

\* However many relays poll one table, an event goes out twice only if a relay
\* died between its publish and its commit.
DuplicatesNeedCrashes ==
    \A e \in Rows : sent[e] <= 1 + crashes

\* A row that was settled is never touched again: no late relay turns a
\* PUBLISHED row into a FAILED one or the reverse.
OutcomeFinal ==
    [][\A e \in Rows : row[e] \in {"PUBLISHED", "FAILED"} => row'[e] = row[e]]_vars

\* No committed event is forgotten, however late its row became visible: it
\* goes out, or its row says FAILED and can be found.
EventsSettled ==
    \A e \in Rows : row[e] = "PENDING" ~> sent[e] > 0 \/ row[e] = "FAILED"

\* Every committed event reaches the exchange ("at-least-once delivery", "events
\* are not lost when publishing fails": docs/CHUONG2 606 and 1268).
EventsNotLost ==
    \A e \in Rows : row[e] = "PENDING" ~> sent[e] > 0

\* A row not settled yet has attempts left.
AttemptsLeft ==
    \A e \in Rows : row[e] \in {"ABSENT", "PENDING"} => retries[e] < MaxRetries

\* A row whose event went out without a crash is PUBLISHED, or about to be.
SentIsRecorded ==
    \A e \in Rows :
        sent[e] <= IF row[e] = "PUBLISHED" \/ \E w \in Relays : at[w] = "handed" /\ Current(w) = e
                   THEN crashes + 1 ELSE crashes

\* The inductive invariant behind the theorems of EventsProofs, for a
\* relay that can record what it did.
IInv ==
    /\ TypeOK
    /\ AttemptsLeft
    /\ RowsExclusive
    /\ SentIsRecorded
==============================================================================
