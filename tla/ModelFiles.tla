----------------------------- MODULE ModelFiles -----------------------------
(***************************************************************************)
(* The matrix model of recommender-ai-service: a training writes it to     *)
(* three files, and the engine inside the server reads them again when one *)
(* of them is newer than what it has.                                      *)
(*                                                                         *)
(* Nothing is locked.  The server is threaded and has one engine; the flag *)
(* that keeps trainings apart is looked at and set in two steps, and the   *)
(* nightly training, a process of its own, does not see it.                *)
(*                                                                         *)
(* Data: a file's content is the training that wrote it; one that is open  *)
(* or was garbled does not load.  Of a modification time that somebody has *)
(* seen only matters whether it is still the newest of the three; no two   *)
(* writes get the same one.                                                *)
(***************************************************************************)
EXTENDS Naturals, FiniteSets

CONSTANTS
    Last,        \* bound: trainings are numbered 1..Last, as they begin
    Threads,     \* requests for recommendations in progress at a time
    MaxDeaths    \* bound: deaths of the server or of the nightly process

ASSUME ModelAssumption == Last \in Nat /\ MaxDeaths \in Nat

VARIABLES
    file,       \* what each file holds
    training,   \* how far each training is, and whether it is the nightly one
    running,    \* _retrain_running
    engine,     \* ImplicitCFEngine: what is loaded, and whether _mtime is the
                \* newest time
    loading,    \* where each request is in reload, whether the time it has seen is
                \* the newest, and what it has read and not yet kept
    crossed,    \* two requests that saw different times have loaded at once
    deaths

trainer == <<training, running>>
reader == <<engine, loading, crossed>>
vars == <<file, trainer, reader, deaths>>

Trainings == 1..Last
\* What a file can hold instead of what a training of this run wrote: that of an
\* earlier one, as at the start, or what does not load; and what the engine has
\* when it has nothing.
Before == 0
Opened == Last + 1
Garbled == Last + 2
None == Last + 3

Files == {"factors", "interactions", "meta"}
Following == [factors |-> "interactions", interactions |-> "meta"]
Phases == {"idle", "allowed", "over"} \union Files
NextRead == [meta |-> "factors", factors |-> "interactions"]
Loads == {"idle", "stat"} \union Files
Contents == Trainings \union {Before}
Nothing == [factors |-> None, interactions |-> None, meta |-> None, newest |-> FALSE]
Idle == [at |-> "idle", newest |-> FALSE, got |-> None]
Over == [at |-> "over", open |-> FALSE, nightly |-> FALSE]

TypeOK ==
    /\ file \in [Files -> {Before, Opened, Garbled} \union Trainings]
    /\ training \in [Trainings -> [at : Phases, open : BOOLEAN, nightly : BOOLEAN]]
    /\ running \in BOOLEAN
    /\ engine \in [factors : Contents \union {None}, newest : BOOLEAN,
                   interactions : Contents \union {None}, meta : Contents \union {None}]
    /\ loading \in [Threads -> [at : Loads, newest : BOOLEAN,
                                got : Contents \union {None}]]
    /\ crossed \in BOOLEAN
    /\ deaths \in 0..MaxDeaths

Init ==
    /\ file = [f \in Files |-> Before]
    /\ training = [t \in Trainings |-> [at |-> "idle", open |-> FALSE, nightly |-> FALSE]]
    /\ running = FALSE
    /\ engine = Nothing
    /\ loading = [r \in Threads |-> Idle]
    /\ crossed = FALSE /\ deaths = 0

Sound(f) == file[f] \notin {Opened, Garbled}

------------------------------------------------------------------------------
\* Training

Due(t) == training[t].at = "idle" /\ \A u \in 1..(t - 1) : training[u].at # "idle"

\* trigger_retrain: the flag is looked at, and then set.
CheckFlag(t) ==
    /\ Due(t) /\ ~running
    /\ training' = [training EXCEPT ![t].at = "allowed"]
    /\ UNCHANGED <<file, running, reader, deaths>>
SetFlag(t) ==
    /\ training[t].at = "allowed"
    /\ training' = [training EXCEPT ![t].at = "factors"]
    /\ running' = TRUE
    /\ UNCHANGED <<file, reader, deaths>>

\* ensure_recommender_models --force, from the crontab.
BeginNightly(t) ==
    /\ Due(t)
    /\ training' = [training EXCEPT ![t].at = "factors", ![t].nightly = TRUE]
    /\ UNCHANGED <<file, running, reader, deaths>>

\* Whatever ends a training of the server, the flag is taken back.
Lower(t) == running' = IF training[t].nightly THEN running ELSE FALSE

\* No data, or an error before the first file.
EndUntrained(t) ==
    /\ training[t].at = "factors" /\ ~training[t].open
    /\ training' = [training EXCEPT ![t] = Over]
    /\ Lower(t)
    /\ UNCHANGED <<file, reader, deaths>>

\* A write makes every time that was seen an old one.
Write(f, content) ==
    /\ file' = [file EXCEPT ![f] = content]
    /\ engine' = [engine EXCEPT !.newest = FALSE]
    /\ loading' = [r \in Threads |-> [loading[r] EXCEPT !.newest = FALSE]]
    /\ UNCHANGED <<crossed, deaths>>

OthersOn(t, f) == \E u \in Trainings \ {t} : training[u].at = f /\ training[u].open

\* save_nmf_model writes the files one after the other, each in its place.
OpenFile(t) ==
    LET f == training[t].at
    IN  /\ f \in Files /\ ~training[t].open
        /\ training' = [training EXCEPT ![t].open = TRUE]
        /\ Write(f, IF OthersOn(t, f) THEN Garbled ELSE Opened)
        /\ UNCHANGED running
CloseFile(t) ==
    LET f == training[t].at
    IN  /\ f \in Files /\ training[t].open
        /\ training' = [training EXCEPT ![t] = IF f = "meta" THEN Over
              ELSE [@ EXCEPT !.open = FALSE, !.at = Following[f]]]
        /\ \E content \in {t, Garbled} :
              /\ file[f] = Opened => content = t
              /\ OthersOn(t, f) => content = Garbled
              /\ Write(f, content)
        /\ IF f = "meta" THEN Lower(t) ELSE UNCHANGED running

------------------------------------------------------------------------------
\* The engine

Ask(r) ==
    /\ loading[r].at = "idle"
    /\ loading' = [loading EXCEPT ![r].at = "stat"]
    /\ UNCHANGED <<file, trainer, engine, crossed, deaths>>

\* reload: nothing is newer, or it reads all three.
Stat(r) ==
    /\ loading[r].at = "stat"
    /\ IF engine.factors # None /\ engine.newest
       THEN loading' = [loading EXCEPT ![r] = Idle] /\ UNCHANGED crossed
       ELSE /\ loading' = [loading EXCEPT ![r] =
                              [at |-> "meta", newest |-> TRUE, got |-> None]]
            /\ crossed' = (crossed \/ \E q \in Threads :
                              loading[q].at \in Files /\ ~loading[q].newest)
    /\ UNCHANGED <<file, trainer, engine, deaths>>

\* It reads a file, unless that fails, ...
ReadFile(r) ==
    /\ loading[r].at \in Files /\ loading[r].got = None
    /\ loading' = [loading EXCEPT ![r] =
           IF Sound(@.at) THEN [@ EXCEPT !.got = file[loading[r].at]] ELSE Idle]
    /\ UNCHANGED <<file, trainer, engine, crossed, deaths>>

\* Mutant: the time is taken after the files were read.
TimeAfter(r) == TRUE

\* What is kept as _mtime is the time seen before the first of them was read.
TimeBefore(r) == loading[r].newest

\* ... and keeps what it has read; after the last file, the time too.
KeepFile(r) ==
    LET f == loading[r].at
    IN  /\ loading[r].got # None
        /\ IF f = "interactions"
           THEN /\ engine' = [engine EXCEPT !.interactions = loading[r].got,
                                            !.newest = TimeBefore(r)]
                /\ loading' = [loading EXCEPT ![r] = Idle]
           ELSE /\ engine' = [engine EXCEPT ![f] = loading[r].got]
                /\ loading' = [loading EXCEPT ![r].at = NextRead[f], ![r].got = None]
        /\ UNCHANGED <<file, trainer, crossed, deaths>>

------------------------------------------------------------------------------
\* Deaths.  What was open stays as it is; a server that starts again trains only
\* if a file is missing.

Killed(t) == IF training[t].at = "idle" THEN training[t] ELSE Over

NightlyDies(t) ==
    /\ deaths < MaxDeaths /\ training[t].nightly
    /\ deaths' = deaths + 1
    /\ training' = [training EXCEPT ![t] = Killed(t)]
    /\ UNCHANGED <<file, running, reader>>
ServerDies ==
    /\ deaths < MaxDeaths
    /\ deaths' = deaths + 1
    /\ training' = [t \in Trainings |-> Killed(t)]
    /\ running' = FALSE
    /\ engine' = Nothing
    /\ loading' = [r \in Threads |-> Idle]
    /\ UNCHANGED <<file, crossed>>

------------------------------------------------------------------------------

Request(r) == Stat(r) \/ ReadFile(r) \/ KeepFile(r)

Next ==
    \/ \E t \in Trainings :
          \/ CheckFlag(t) \/ SetFlag(t) \/ BeginNightly(t) \/ EndUntrained(t)
          \/ OpenFile(t) \/ CloseFile(t) \/ NightlyDies(t)
    \/ \E r \in Threads : Ask(r) \/ Request(r)
    \/ ServerDies

\* A request in progress goes on.
Fairness == \A r \in Threads : WF_vars(Request(r))

Spec == Init /\ [][Next]_vars /\ Fairness

------------------------------------------------------------------------------

\* Once the files are of one training again, the engine of a server that is asked
\* for recommendations gets them, all three, and keeps them, although it may have
\* read them while they were written; unless requests that saw different times
\* have loaded at once.
EngineCatchesUp ==
    []~crossed /\ []<>(\E r \in Threads : loading[r].at = "stat") =>
        <>[](\A t \in Contents :
                (\A f \in Files : file[f] = t) => \A f \in Files : engine[f] = t)

\* An engine that would not read the files again has what they hold, unless requests
\* that saw different times have loaded at once.
EngineCurrent == ~crossed /\ engine.newest => \A f \in Files : engine[f] = file[f]

\* Support for its proof: whoever has seen the newest time reads what the files hold
\* and has kept it, and requests that have not crossed have seen the same time.
ReadsFollow ==
    \A r \in Threads :
        /\ loading[r].got # None => loading[r].at \in Files
        /\ loading[r].newest /\ loading[r].got # None =>
              loading[r].got = file[loading[r].at]
        /\ ~crossed /\ loading[r].newest =>
              /\ loading[r].at # "meta" => engine.meta = file.meta
              /\ loading[r].at = "interactions" => engine.factors = file.factors
TimesAgree ==
    ~crossed => \A r \in Threads : loading[r].at \in Files =>
        /\ engine.newest => loading[r].newest
        /\ \A q \in Threads :
              loading[q].at \in Files => loading[q].newest = loading[r].newest
NewestLoads == \A r \in Threads : loading[r].newest => loading[r].at \in Files

\* The inductive invariant of ModelFilesProofs.
IInv == TypeOK /\ EngineCurrent /\ ReadsFollow /\ TimesAgree /\ NewestLoads
=============================================================================
