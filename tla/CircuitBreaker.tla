--------------------------- MODULE CircuitBreaker ---------------------------
(***************************************************************************)
(* common/client.py: the circuit of one host as the requests of all        *)
(* services share it through Redis, with the three attempts of a request.  *)
(*                                                                         *)
(* A request reads the circuit once, keeps that copy over all its attempts *)
(* and writes it back whole after each of them, whatever others wrote in   *)
(* the meantime.  last_failure_time is reduced to whether reset_timeout    *)
(* has passed since.                                                       *)
(***************************************************************************)
EXTENDS Naturals

CONSTANTS
    Callers,        \* requests in progress at a time, of all services
    FailThreshold,  \* InternalClient.fail_threshold
    MaxRetries      \* InternalClient.max_retries

VARIABLES
    hostUp,     \* the host answers
    circuit,    \* the key circuit:<host>; Fresh if there is none
    rested,     \* reset_timeout has passed since its last failure
    call,       \* where each request is, and the attempts it has made
    copy        \* what it knows of the circuit

vars == <<hostUp, circuit, rested, call, copy>>

Circuits == [status : {"CLOSED", "OPEN", "HALF_OPEN"}, failures : Nat]
Fresh == [status |-> "CLOSED", failures |-> 0]

TypeOK ==
    /\ hostUp \in BOOLEAN /\ rested \in BOOLEAN
    /\ circuit \in Circuits
    /\ call \in [Callers -> [at : {"idle", "check", "attempt"}, attempt : 0..MaxRetries]]
    /\ copy \in [Callers -> Circuits]

Init ==
    /\ hostUp = TRUE /\ rested = FALSE
    /\ circuit = Fresh
    /\ call = [r \in Callers |-> [at |-> "idle", attempt |-> 0]]
    /\ copy = [r \in Callers |-> Fresh]

------------------------------------------------------------------------------
\* The environment: requests come, the host fails and recovers (it is up again
\* when no attempt that it left unanswered waits any more), time passes.

Arrive(r) ==
    /\ call[r].at = "idle"
    /\ call' = [call EXCEPT ![r] = [at |-> "check", attempt |-> 0]]
    /\ UNCHANGED <<hostUp, circuit, rested, copy>>
HostChanges ==
    /\ hostUp' = ~hostUp
    /\ UNCHANGED <<circuit, rested, call, copy>>
Rest ==
    /\ circuit.status = "OPEN" /\ ~rested
    /\ rested' = TRUE
    /\ UNCHANGED <<hostUp, circuit, call, copy>>

\* The key's lifetime, a minute or an hour, ends.
Expire ==
    /\ circuit # Fresh
    /\ circuit' = Fresh
    /\ UNCHANGED <<hostUp, rested, call, copy>>

------------------------------------------------------------------------------

Leave(r) == call' = [call EXCEPT ![r] = [at |-> "idle", attempt |-> 0]]

\* _check_circuit: an open circuit refuses the request, until it has rested.
CheckCircuit(r) ==
    /\ call[r].at = "check"
    /\ IF circuit.status = "OPEN" /\ ~rested
       THEN Leave(r) /\ UNCHANGED <<circuit, copy>>
       ELSE /\ call' = [call EXCEPT ![r].at = "attempt"]
            /\ circuit' = IF circuit.status = "OPEN"
                          THEN [circuit EXCEPT !.status = "HALF_OPEN"] ELSE circuit
            /\ copy' = [copy EXCEPT ![r] = circuit']
    /\ UNCHANGED <<hostUp, rested>>

\* Mutant: only the failures are forgotten, not the status.
ForgetFailures(r) ==
    /\ copy' = [copy EXCEPT ![r].failures = 0]
    /\ circuit' = IF copy[r] = Fresh THEN circuit ELSE copy'[r]

\* _record_success: a copy that knows of no failure writes nothing.
RecordSuccess(r) ==
    /\ copy' = [copy EXCEPT ![r] = Fresh]
    /\ circuit' = IF copy[r] = Fresh THEN circuit ELSE Fresh

\* _record_failure; failures beyond the threshold make no difference.
RecordFailure(r) ==
    LET failures == IF copy[r].failures < FailThreshold
                    THEN copy[r].failures + 1 ELSE FailThreshold
        opens == copy[r].status = "HALF_OPEN" \/ failures = FailThreshold
    IN  /\ copy' = [copy EXCEPT ![r].failures = failures,
                                ![r].status = IF opens THEN "OPEN" ELSE @]
        /\ circuit' = copy'[r]

Answered(r) ==
    /\ call[r].at = "attempt" /\ hostUp
    /\ RecordSuccess(r)
    /\ Leave(r)
    /\ UNCHANGED <<hostUp, rested>>

\* A timeout, a network error or a 5xx; the next attempt does not look at the
\* circuit again.
AttemptFails(r) ==
    /\ call[r].at = "attempt" /\ ~hostUp
    /\ RecordFailure(r)
    /\ rested' = FALSE
    /\ IF call[r].attempt < MaxRetries
       THEN call' = [call EXCEPT ![r].attempt = @ + 1]
       ELSE Leave(r)
    /\ UNCHANGED hostUp

\* The process of a request dies.
Die(r) ==
    /\ call[r].at # "idle"
    /\ Leave(r)
    /\ UNCHANGED <<hostUp, circuit, rested, copy>>

------------------------------------------------------------------------------

Request(r) == CheckCircuit(r) \/ Answered(r) \/ AttemptFails(r)

Next ==
    \/ \E r \in Callers : Arrive(r) \/ Request(r) \/ Die(r)
    \/ HostChanges \/ Rest \/ Expire

\* A request in progress goes on, and the clock does.
Fairness == WF_vars(Rest) /\ \A r \in Callers : WF_vars(Request(r))

Spec == Init /\ [][Next]_vars /\ Fairness

------------------------------------------------------------------------------

\* A host that stays well, and that requests whose processes live keep asking for,
\* gets its circuit closed and keeps it closed: an open circuit lets one in again,
\* no probe that died leaves it half open, no stale copy opens it again.
Recovers ==
    /\ <>[]hostUp
    /\ []<>(\E r \in Callers : call[r].at = "check")
    /\ <>[][~\E r \in Callers : Die(r)]_vars
    => <>[](circuit.status = "CLOSED")

\* What Redis holds and what each request knows count the same: a circuit is
\* open, or being probed, exactly as long as the threshold of failures is on
\* record.  No stale copy written over a newer one opens a circuit on fewer
\* failures, or leaves one closed that has seen enough.
Consistent(c) == c.status # "CLOSED" <=> c.failures = FailThreshold
OpensAtThreshold ==
    /\ Consistent(circuit)
    /\ \A r \in Callers : Consistent(copy[r])

\* The inductive invariant behind the theorem about it in OrdersProofs.
IInv == TypeOK /\ OpensAtThreshold
=============================================================================
