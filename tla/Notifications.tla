---------------------------- MODULE Notifications ----------------------------
(***************************************************************************)
(* notification-service: the consumer that turns a domain event into       *)
(* messages to the customer, and the worker that repeats those that        *)
(* failed.                                                                 *)
(*                                                                         *)
(* The consumer looks into the inbox, and then does everything in one      *)
(* transaction, the provider's calls included; what raises is dead-        *)
(* lettered.  The worker saves every step on its own, and selects RETRYING *)
(* rows alone: one it dies with stays PROCESSING, or FAILED, for good.     *)
(*                                                                         *)
(* Events are as the service's tests hand them in, with an event_id.  A    *)
(* provider does what BaseNotificationProvider promises, or raises after   *)
(* it has sent; the mocks, the only ones there are, always send.           *)
(***************************************************************************)
EXTENDS Naturals, FiniteSets

CONSTANTS
    Events,
    Templates,    \* of these events: a channel may have several versions active
    Consumers,    \* processes of consume_events
    MaxRetries,   \* len(BACKOFF_MINUTES)
    MaxCopies,    \* bound: messages of an event (a relay may repeat it)
    MaxFaults     \* bound: deaths of each kind, and database errors

VARIABLES
    copies,     \* messages of each event published so far
    queue,      \* those that wait in notification_trigger_queue
    handling,   \* of each consumer: its message, its step and its transaction
    inbox,      \* ProcessedEvent
    log,        \* NotificationLog.status, "none" before the row
    retries,    \* NotificationLog.retry_count
    batch,      \* rows of this round of the worker to come
    retrying,   \* the worker's row and its step
    got,        \* how often the customer got each
    unnoted,    \* how often nothing was kept of that
    lost,       \* events of which a message was dead-lettered
    stuck,      \* rows the worker died with
    faults

consumer == <<queue, handling, inbox, lost>>
worker == <<batch, retrying, stuck>>
rows == <<log, retries>>
customer == <<got, unnoted>>
vars == <<copies, consumer, rows, worker, customer, faults>>

Rows == Events \X Templates
Statuses == {"none", "SENT", "PROCESSING", "FAILED", "RETRYING"}
Free == [step |-> "free"]

TypeOK ==
    /\ copies \in [Events -> 0..MaxCopies] /\ queue \in [Events -> Nat]
    /\ handling \in [Consumers -> {Free} \union
          [step : {"check", "insert", "send", "ack"}, event : Events,
           left : SUBSET Templates, noted : [Templates -> {"none", "SENT", "RETRYING"}]]]
    /\ inbox \subseteq Events /\ lost \subseteq Events
    /\ log \in [Rows -> Statuses]
    /\ retries \in [Rows -> 0..MaxRetries]
    /\ batch \subseteq Rows /\ stuck \subseteq Rows
    /\ retrying \in {Free} \union [step : {"send", "mark", "count"}, row : Rows]
    /\ got \in [Rows -> Nat] /\ unnoted \in [Rows -> Nat]
    /\ faults \in 0..MaxFaults

Init ==
    /\ copies = [e \in Events |-> 0] /\ queue = copies
    /\ handling = [c \in Consumers |-> Free]
    /\ inbox = {} /\ lost = {}
    /\ log = [r \in Rows |-> "none"] /\ retries = [r \in Rows |-> 0]
    /\ batch = {} /\ retrying = Free /\ stuck = {}
    /\ got = [r \in Rows |-> 0] /\ unnoted = got
    /\ faults = 0

Publish(e) ==
    /\ copies[e] < MaxCopies
    /\ copies' = [copies EXCEPT ![e] = @ + 1]
    /\ queue' = [queue EXCEPT ![e] = @ + 1]
    /\ UNCHANGED <<handling, inbox, lost, rows, worker, customer, faults>>

\* What a provider answers: it has sent, it has not, or it has and raises.
Answers == [status : {"SENT"}, sent : {TRUE}] \union [status : {"FAILED"}, sent : BOOLEAN]

\* Mutant: a failed message is left FAILED.
KeepFailed(a) == a.status

\* What _dispatch leaves in the row.
Kept(a) == IF a.status = "SENT" THEN "SENT" ELSE "RETRYING"

Deliver(r, a) ==
    /\ got' = IF a.sent THEN [got EXCEPT ![r] = @ + 1] ELSE got
    /\ unnoted' = IF a.sent /\ a.status = "FAILED" THEN [unnoted EXCEPT ![r] = @ + 1]
                  ELSE unnoted

------------------------------------------------------------------------------
\* consume_events and process_event

Go(c, step) == handling' = [handling EXCEPT ![c].step = step]

Receive(c, e) ==
    /\ handling[c] = Free /\ queue[e] > 0
    /\ queue' = [queue EXCEPT ![e] = @ - 1]
    /\ handling' = [handling EXCEPT ![c] =
          [step |-> "check", event |-> e, left |-> {},
           noted |-> [t \in Templates |-> "none"]]]
    /\ UNCHANGED <<copies, inbox, lost, rows, worker, customer, faults>>

CheckInbox(c) ==
    /\ handling[c].step = "check"
    /\ Go(c, IF handling[c].event \in inbox THEN "ack" ELSE "insert")
    /\ UNCHANGED <<copies, queue, inbox, lost, rows, worker, customer, faults>>

\* The key of another transaction that has not ended is waited for.
Waits(c) ==
    \E d \in Consumers \ {c} :
        handling[d].step = "send" /\ handling[d].event = handling[c].event

\* Mutant: ignore_conflicts, as the check has been made.
InsertAnyway(c) ==
    /\ handling[c].step = "insert" /\ ~Waits(c)
    /\ \E used \in SUBSET Templates :
          handling' = [handling EXCEPT ![c].step = "send", ![c].left = used]
    /\ UNCHANGED <<copies, queue, inbox, lost, rows, worker, customer, faults>>

\* A message goes out for every active template, also for two versions of one on the
\* same channel, if it renders, its channel is not switched off and has an address;
\* for none if the user is unknown.
Insert(c) ==
    /\ handling[c].step = "insert" /\ ~Waits(c)
    /\ handling[c].event \notin inbox
    /\ \E used \in SUBSET Templates :
          handling' = [handling EXCEPT ![c].step = "send", ![c].left = used]
    /\ UNCHANGED <<copies, queue, inbox, lost, rows, worker, customer, faults>>

Send(c, t) ==
    /\ handling[c].step = "send" /\ t \in handling[c].left
    /\ \E a \in Answers :
          /\ Deliver(<<handling[c].event, t>>, a)
          /\ handling' = [handling EXCEPT
                ![c].left = @ \ {t},
                ![c].noted[t] = Kept(a)]
    /\ UNCHANGED <<copies, queue, inbox, lost, rows, worker, faults>>

Commit(c) ==
    LET h == handling[c]
    IN  /\ h.step = "send" /\ h.left = {}
        /\ inbox' = inbox \union {h.event}
        /\ log' = [r \in Rows |-> IF r[1] = h.event /\ h.noted[r[2]] # "none"
                                  THEN h.noted[r[2]] ELSE log[r]]
        /\ Go(c, "ack")
        /\ UNCHANGED <<copies, queue, lost, retries, worker, customer, faults>>
Ack(c) ==
    /\ handling[c].step = "ack"
    /\ handling' = [handling EXCEPT ![c] = Free]
    /\ UNCHANGED <<copies, queue, inbox, lost, rows, worker, customer, faults>>

\* The transaction rolls back, and with it what it knew of messages sent.
Forget(c) ==
    /\ handling' = [handling EXCEPT ![c] = Free]
    /\ unnoted' = [r \in Rows |->
          IF handling[c].step = "send" /\ r[1] = handling[c].event
             /\ handling[c].noted[r[2]] = "SENT"
          THEN unnoted[r] + 1 ELSE unnoted[r]]
    /\ UNCHANGED <<copies, inbox, rows, worker, got>>

\* The key is there after all.
InsertCollides(c) ==
    /\ handling[c].step = "insert" /\ ~Waits(c)
    /\ handling[c].event \in inbox
    /\ lost' = lost \union {handling[c].event}
    /\ Forget(c)
    /\ UNCHANGED <<queue, faults>>

\* The database fails: the handler refuses the message, or dies with it.
HandlerRaises(c) ==
    /\ handling[c].step \in {"check", "insert", "send"} /\ faults < MaxFaults
    /\ faults' = faults + 1
    /\ lost' = lost \union {handling[c].event}
    /\ Forget(c)
    /\ UNCHANGED queue
ConsumerDies(c) ==
    /\ handling[c] # Free /\ faults < MaxFaults
    /\ faults' = faults + 1
    /\ queue' = [queue EXCEPT ![handling[c].event] = @ + 1]
    /\ Forget(c)
    /\ UNCHANGED lost

------------------------------------------------------------------------------
\* notification_retry_worker

\* Rows whose next_retry_at has passed.
Select ==
    /\ retrying = Free /\ batch = {}
    /\ batch' \in (SUBSET {r \in Rows : log[r] = "RETRYING"}) \ {{}}
    /\ UNCHANGED <<copies, consumer, rows, retrying, stuck, customer, faults>>

StartRetry(r) ==
    /\ retrying = Free /\ r \in batch
    /\ batch' = batch \ {r}
    /\ retrying' = [step |-> "send", row |-> r]
    /\ log' = [log EXCEPT ![r] = "PROCESSING"]
    /\ UNCHANGED <<copies, consumer, retries, stuck, customer, faults>>

Resend ==
    /\ retrying.step = "send"
    /\ \E a \in Answers :
          /\ Deliver(retrying.row, a)
          /\ log' = [log EXCEPT ![retrying.row] = a.status]
          /\ retrying' = IF a.status = "SENT" THEN Free
                         ELSE [retrying EXCEPT !.step = "mark"]
    /\ UNCHANGED <<copies, consumer, retries, batch, stuck, faults>>

MarkRetrying ==
    /\ retrying.step = "mark"
    /\ log' = [log EXCEPT ![retrying.row] = "RETRYING"]
    /\ retrying' = [retrying EXCEPT !.step = "count"]
    /\ UNCHANGED <<copies, consumer, retries, batch, stuck, customer, faults>>

CountRetry ==
    /\ retrying.step = "count"
    /\ LET r == retrying.row IN
          /\ retries' = [retries EXCEPT ![r] = @ + 1]
          /\ log' = IF retries'[r] >= MaxRetries THEN [log EXCEPT ![r] = "FAILED"]
                  ELSE [log EXCEPT ![r] = "RETRYING"]
    /\ retrying' = Free
    /\ UNCHANGED <<copies, consumer, batch, stuck, customer, faults>>

\* The worker dies, perhaps after the provider has sent.
WorkerDies ==
    /\ batch # {} \/ retrying # Free
    /\ faults < MaxFaults
    /\ faults' = faults + 1
    /\ batch' = {} /\ retrying' = Free
    /\ stuck' = IF retrying.step \in {"send", "mark"} THEN stuck \union {retrying.row}
                ELSE stuck
    /\ \/ UNCHANGED got
       \/ retrying.step = "send" /\ got' = [got EXCEPT ![retrying.row] = @ + 1]
    /\ UNCHANGED <<copies, consumer, rows, unnoted>>

------------------------------------------------------------------------------

Handle(c) ==
    \/ CheckInbox(c) \/ Insert(c) \/ InsertCollides(c)
    \/ (\E t \in Templates : Send(c, t)) \/ Commit(c) \/ Ack(c)
Retry == Resend \/ MarkRetrying \/ CountRetry \/ \E r \in Rows : StartRetry(r)

Next ==
    \/ \E e \in Events : Publish(e) \/ \E c \in Consumers : Receive(c, e)
    \/ \E c \in Consumers : Handle(c) \/ HandlerRaises(c) \/ ConsumerDies(c)
    \/ Select \/ Retry \/ WorkerDies

\* Consumers and the worker run, the queue hands out its messages, and the time
\* of every retry comes.
Fairness ==
    /\ \A c \in Consumers : WF_vars(Handle(c))
    /\ \A e \in Events : WF_vars(\E c \in Consumers : Receive(c, e))
    /\ WF_vars(Retry)
    /\ \A r \in Rows : SF_vars(Select /\ r \in batch')

Spec == Init /\ [][Next]_vars /\ Fairness

------------------------------------------------------------------------------

\* A customer gets the message of an event once from each of its templates, but for
\* those sendings of which nothing was kept: however often the event is delivered,
\* to whichever consumer, and whatever the worker repeats.
NotifiedOnce == \A r \in Rows : got[r] <= 1 + unnoted[r]

\* An event that was published ends up in the inbox or among the dead letters, and
\* a message that failed is sent or given up after all its retries, unless the
\* worker died with it.
EachNotified ==
    /\ \A e \in Events : copies[e] > 0 ~> e \in inbox \union lost
    /\ \A r \in Rows :
          log[r] \in {"FAILED", "RETRYING"} ~>
                \/ log[r] = "SENT" \/ r \in stuck
                \/ log[r] = "FAILED" /\ retries[r] = MaxRetries

\* A message that was sent, or given up after all its retries, is left alone for good,
\* whatever is delivered again to whichever consumer, and whoever dies.
Settled(r) == log[r] = "SENT" \/ (log[r] = "FAILED" /\ retries[r] = MaxRetries)
SettledStay == [][\A r \in Rows : Settled(r) => UNCHANGED <<log[r], retries[r], got[r]>>]_vars

\* Support for the proofs.  One transaction at a time sends the messages of an
\* event, none after it is in the inbox, and the first that commits writes the rows.
SendingAlone ==
    /\ \A c \in Consumers :
          LET h == handling[c]
          IN  /\ h.step \in {"check", "insert"} => \A t \in Templates : h.noted[t] = "none"
              /\ h.step = "send" => /\ h.event \notin inbox
                                    /\ \A t \in h.left : h.noted[t] = "none"
    /\ \A c, d \in Consumers :
          handling[c].step = "send" /\ handling[d].step = "send"
          /\ handling[c].event = handling[d].event => c = d
    /\ \A r \in Rows : r[1] \notin inbox => log[r] = "none"

\* The worker's row is as its step says, and those before it still wait.
WorkerFollows ==
    /\ \A r \in batch : log[r] = "RETRYING"
    /\ retrying # Free =>
          /\ retrying.row \notin batch
          /\ retrying.step = "send" => log[retrying.row] = "PROCESSING"
          /\ retrying.step = "mark" => log[retrying.row] = "FAILED"
          /\ retrying.step = "count" => log[retrying.row] = "RETRYING"
    /\ \A r \in Rows :
          \/ retries[r] < MaxRetries
          \/ log[r] \in {"SENT", "FAILED"} /\ (retrying # Free => retrying.row # r)

\* A message that may be sent again has not been, but for sendings of which
\* nothing was kept.
Sending(r) == retrying = [step |-> "send", row |-> r]
Noted(r) ==
    \E c \in Consumers :
        /\ handling[c].step = "send" /\ handling[c].event = r[1]
        /\ handling[c].noted[r[2]] = "SENT"
OpenUnsent ==
    \A r \in Rows :
        (log[r] \in {"none", "RETRYING", "FAILED"} \/ Sending(r)) /\ ~Noted(r)
            => got[r] <= unnoted[r]

\* The inductive invariant behind the theorem of EventsProofs.
IInv ==
    /\ TypeOK
    /\ SendingAlone
    /\ WorkerFollows
    /\ OpenUnsent
    /\ NotifiedOnce
=============================================================================
