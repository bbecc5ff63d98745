------------------------------ MODULE Accounts ------------------------------
(***************************************************************************)
(* Registration: auth-service stores the user, user-service its profile.   *)
(*                                                                         *)
(* user-service creates a profile in three commits of their own, and a     *)
(* call whose answer is not heard may be executed at any later time, also  *)
(* after the user was deleted.  tenacity repeats a call that failed in a   *)
(* way that may pass, the circuit breaker refuses some; both only decide   *)
(* how often a call is made, which a bound stands for.                     *)
(*                                                                         *)
(* Logins take no step: they write a time and an audit row, and the lock   *)
(* after failed logins counts in a field that AuthUser does not have.      *)
(***************************************************************************)
EXTENDS Naturals, FiniteSets

CONSTANTS
    Requests,     \* registrations; each makes up its own user id
    Names,        \* user names, and e-mail addresses with them
    MaxAttempts   \* AUTH_RETRY_ATTEMPTS

VARIABLES
    reg,        \* of each request: the step it is at, its name, calls made
    users,      \* AuthUser: the requests whose user exists
    profiles,   \* user-service: how far the profile of each user id is
    creations   \* calls of POST /internal/users/ that user-service has before
                \* it or in progress: user id, attempt, next commit

vars == <<reg, users, profiles, creations>>

Progress == {"none", "row", "roles", "full"}
Steps == {"idle", "check", "save", "post", "wait", "erase",
          "done", "refused", "crashed"}

TypeOK ==
    /\ reg \in [Requests -> [at : Steps, name : Names, calls : 0..MaxAttempts]]
    /\ users \subseteq Requests
    /\ profiles \in [Requests -> Progress]
    /\ creations \subseteq Requests \X (1..MaxAttempts) \X {"row", "roles", "full"}

Init ==
    /\ reg \in [Requests -> [at : {"idle"}, name : Names, calls : {0}]]
    /\ users = {}
    /\ profiles = [r \in Requests |-> "none"]
    /\ creations = {}

At(r, steps) == reg[r].at \in steps
Go(r, step) == reg' = [reg EXCEPT ![r].at = step]
Taken(name) == \E u \in users : reg[u].name = name

------------------------------------------------------------------------------
\* user-service

\* One commit of UserProfileView.post: the row, whose key must be new, its roles,
\* and the customer profile.
Commit(c) ==
    /\ c[3] = "row" => profiles[c[1]] = "none"
    /\ profiles' = [profiles EXCEPT ![c[1]] = c[3]]
Following(c) ==
    CASE c[3] = "row"   -> {<<c[1], c[2], "roles">>}
      [] c[3] = "roles" -> {<<c[1], c[2], "full">>}
      [] c[3] = "full"  -> {}

\* The caller still waits for this call.
Heard(c) == At(c[1], {"wait"}) /\ reg[c[1]].calls = c[2]

\* Mutant: a profile that is there is taken for created.
CreateOrFind(c) ==
    /\ IF c[3] = "row" /\ profiles[c[1]] # "none"
       THEN /\ creations' = creations \ {c}
            /\ IF Heard(c) THEN Go(c[1], "done") ELSE UNCHANGED reg
            /\ UNCHANGED profiles
       ELSE /\ Commit(c)
            /\ creations' = (creations \ {c}) \union Following(c)
            /\ IF c[3] = "full" /\ Heard(c) THEN Go(c[1], "done") ELSE UNCHANGED reg
    /\ UNCHANGED users

\* A commit of a call; after the last one the caller, if it still listens, has
\* the profile, writes the audit row and answers with the tokens.
CreateProfile(c) ==
    /\ Commit(c)
    /\ creations' = (creations \ {c}) \union Following(c)
    /\ IF c[3] = "full" /\ Heard(c) THEN Go(c[1], "done") ELSE UNCHANGED reg
    /\ UNCHANGED users

\* Any exception, a key that is there among them, ends the call with a 400, which
\* is not repeated; what was committed stays.
CreationFails(c) ==
    /\ creations' = creations \ {c}
    /\ IF Heard(c) THEN Go(c[1], "erase") ELSE UNCHANGED reg
    /\ UNCHANGED <<users, profiles>>

\* user-service dies with the call.
CreationDies(c) ==
    /\ creations' = creations \ {c}
    /\ UNCHANGED <<reg, users, profiles>>

------------------------------------------------------------------------------
\* auth-service

Begin(r) ==
    /\ At(r, {"idle"})
    /\ Go(r, "check")
    /\ UNCHANGED <<users, profiles, creations>>

\* The name is looked for, and stored later; its column is unique, and the
\* error of that is not caught.
CheckName(r) ==
    /\ At(r, {"check"})
    /\ Go(r, IF Taken(reg[r].name) THEN "refused" ELSE "save")
    /\ UNCHANGED <<users, profiles, creations>>
SaveUser(r) ==
    /\ At(r, {"save"})
    /\ IF Taken(reg[r].name)
       THEN Go(r, "refused") /\ UNCHANGED users
       ELSE Go(r, "post") /\ users' = users \union {r}
    /\ UNCHANGED <<profiles, creations>>

\* The call is sent, and arrives or not.
Post(r) ==
    /\ At(r, {"post"}) /\ reg[r].calls < MaxAttempts
    /\ reg' = [reg EXCEPT ![r] = [at |-> "wait", name |-> @.name, calls |-> @.calls + 1]]
    /\ \/ creations' = creations \union {<<r, reg[r].calls + 1, "row">>}
       \/ UNCHANGED creations
    /\ UNCHANGED <<users, profiles>>

\* No answer in time, or a 5xx: again, or the request gives up.
TimeOut(r) ==
    /\ At(r, {"wait"})
    /\ Go(r, IF reg[r].calls < MaxAttempts THEN "post" ELSE "erase")
    /\ UNCHANGED <<users, profiles, creations>>
BreakerOpen(r) ==
    /\ At(r, {"post"})
    /\ Go(r, "erase")
    /\ UNCHANGED <<users, profiles, creations>>

\* The user is deleted; what user-service has of it is not.
EraseUser(r) ==
    /\ At(r, {"erase"})
    /\ users' = users \ {r}
    /\ Go(r, "refused")
    /\ UNCHANGED <<profiles, creations>>

Crash(r) ==
    /\ At(r, {"check", "save", "post", "wait", "erase"})
    /\ Go(r, "crashed")
    /\ UNCHANGED <<users, profiles, creations>>

Next ==
    \/ \E r \in Requests :
          \/ Begin(r) \/ CheckName(r) \/ SaveUser(r) \/ Post(r)
          \/ TimeOut(r) \/ BreakerOpen(r) \/ EraseUser(r) \/ Crash(r)
    \/ \E c \in creations : CreateProfile(c) \/ CreationFails(c) \/ CreationDies(c)

Spec == Init /\ [][Next]_vars

------------------------------------------------------------------------------

Registering(r) == At(r, {"post", "wait", "erase"})

\* Whoever is told of a new account has it, profile and all, although the call
\* that made the profile may have been repeated and half executed; whoever is
\* refused leaves no user behind that would keep the name; and no account is there
\* that nobody was told of, unless the process died.
AccountWhole ==
    \A r \in Requests :
        /\ At(r, {"done"}) => r \in users /\ profiles[r] = "full"
        /\ At(r, {"refused"}) => r \notin users
        /\ r \in users => Registering(r) \/ At(r, {"done", "crashed"})

\* Support for the proofs.  A user is there exactly while the request counts on it.
UsersFollow ==
    \A r \in Requests :
        /\ Registering(r) => r \in users
        /\ r \in users => Registering(r) \/ At(r, {"done", "crashed"})

\* Only one call gets past the row of a profile, and the profile waits for it.
OneCreator ==
    \A c \in creations :
        /\ c[3] = "roles" => profiles[c[1]] = "row"
        /\ c[3] = "full" => profiles[c[1]] = "roles"
        /\ c[3] # "row" =>
              \A d \in creations : d[1] = c[1] /\ d[3] # "row" => d = c

\* The inductive invariant behind the theorems of ShopProofs.
IInv == TypeOK /\ UsersFollow /\ OneCreator /\ AccountWhole
=============================================================================
