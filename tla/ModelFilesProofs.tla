-------------------------- MODULE ModelFilesProofs --------------------------
(***************************************************************************)
(* Proofs about ModelFiles, for any number of trainings, of requests and   *)
(* of deaths.                                                              *)
(*                                                                         *)
(* The time that a request has seen is forgotten as the newest with the    *)
(* next write, so what a request with the newest time has read and kept is *)
(* what the files hold.  Others may keep what they had read before; but as *)
(* long as requests have not crossed, all that load have seen the same     *)
(* time.                                                                   *)
(***************************************************************************)
EXTENDS ModelFiles, TLAPS

\* What a request is in, as TypeOK has it.
Loading == [at : Loads, newest : BOOLEAN, got : Contents \union {None}]

LEMMA RecordsTyped ==
    /\ Idle \in Loading
    /\ [at |-> "meta", newest |-> TRUE, got |-> None] \in Loading
    /\ Nothing \in [factors : Contents \union {None}, newest : BOOLEAN,
                    interactions : Contents \union {None},
                    meta : Contents \union {None}]
    /\ Over \in [at : Phases, open : BOOLEAN, nightly : BOOLEAN]
BY DEF Idle, Loading, Loads, Files, Nothing, Over, Phases

LEMMA InitInv == Init => IInv
<1> SUFFICES ASSUME Init  PROVE IInv
  OBVIOUS
<1>1. [at |-> "idle", open |-> FALSE, nightly |-> FALSE]
         \in [at : Phases, open : BOOLEAN, nightly : BOOLEAN]
  BY DEF Phases
<1>2. TypeOK
  <2>1. loading \in [Threads -> Loading] /\ file \in [Files -> {Before}]
    BY RecordsTyped DEF Init
  <2>2. deaths \in 0..MaxDeaths /\ running \in BOOLEAN /\ crossed \in BOOLEAN
    <3>1. deaths \in 0..MaxDeaths
      BY ModelAssumption DEF Init
    <3> QED
      BY <3>1 DEF Init
  <2>3. training \in [Trainings -> [at : Phases, open : BOOLEAN, nightly : BOOLEAN]]
    BY <1>1 DEF Init
  <2> QED
    BY <2>1, <2>2, <2>3, RecordsTyped DEF Init, TypeOK, Loading
<1>3. ~engine.newest /\ \A r \in Threads : loading[r] = Idle
  BY DEF Init, Nothing
<1> QED
  BY <1>2, <1>3 DEF IInv, EngineCurrent, ReadsFollow, TimesAgree, NewestLoads, Idle,
                    Files

\* Steps of a training between its writes.
LEMMA TrainingInv ==
    ASSUME IInv, UNCHANGED <<file, reader>>, running' \in BOOLEAN,
           training' \in [Trainings -> [at : Phases, open : BOOLEAN, nightly : BOOLEAN]],
           deaths' \in 0..MaxDeaths
    PROVE  IInv'
BY DEF IInv, TypeOK, EngineCurrent, ReadsFollow, TimesAgree, NewestLoads, reader

\* A write leaves nobody who has seen the newest time.
LEMMA WriteInv ==
    ASSUME IInv, NEW f \in Files, NEW content \in Contents \union {Opened, Garbled},
           Write(f, content), running' \in BOOLEAN,
           training' \in [Trainings -> [at : Phases, open : BOOLEAN, nightly : BOOLEAN]]
    PROVE  IInv'
<1>1. ~engine'.newest
  BY DEF Write, IInv, TypeOK
<1>2. \A r \in Threads : /\ loading'[r].newest = FALSE /\ loading'[r].at = loading[r].at
                         /\ loading'[r].got = loading[r].got
  BY DEF Write, IInv, TypeOK
<1>3. TypeOK'
  BY DEF Write, IInv, TypeOK, Contents
<1>4. crossed' = crossed
  BY DEF Write
<1>5. EngineCurrent' /\ NewestLoads'
  BY <1>1, <1>2 DEF EngineCurrent, NewestLoads
<1>6. ReadsFollow'
  BY <1>2 DEF IInv, ReadsFollow
<1>7. TimesAgree'
  BY <1>1, <1>2 DEF TimesAgree
<1> QED
  BY <1>3, <1>5, <1>6, <1>7 DEF IInv

LEMMA TrainerNextInv ==
    ASSUME IInv, NEW t \in Trainings,
           \/ CheckFlag(t) \/ SetFlag(t) \/ BeginNightly(t) \/ EndUntrained(t)
           \/ OpenFile(t) \/ CloseFile(t) \/ NightlyDies(t)
    PROVE  IInv'
<1> DEFINE T == [at : Phases, open : BOOLEAN, nightly : BOOLEAN]
<1>0. /\ training \in [Trainings -> T] /\ running \in BOOLEAN /\ deaths \in 0..MaxDeaths
      /\ Over \in T /\ "allowed" \in Phases /\ Files \subseteq Phases
      /\ \A f \in Files : f # "meta" => Following[f] \in Files
      /\ "factors" \in Files
  BY DEF IInv, TypeOK, Over, Phases, Files, Following
<1>1. CASE CheckFlag(t) \/ SetFlag(t) \/ BeginNightly(t) \/ EndUntrained(t)
  <2>1. /\ UNCHANGED <<file, reader, deaths>> /\ running' \in BOOLEAN
        /\ training' \in [Trainings -> T]
    <3>0. \A phase \in {"allowed", "factors"} :
             [training EXCEPT ![t].at = phase] \in [Trainings -> T]
      <4>1. \A phase \in {"allowed", "factors"} :
               [training[t] EXCEPT !.at = phase] \in T
        BY <1>0
      <4> QED
        BY <1>0, <4>1
    <3>1. CASE CheckFlag(t) \/ SetFlag(t)
      <4>1. training' \in [Trainings -> T]
        BY <3>0, <3>1 DEF CheckFlag, SetFlag
      <4> QED
        BY <1>0, <3>1, <4>1 DEF CheckFlag, SetFlag
    <3>2. CASE BeginNightly(t)
      <4>1. "factors" \in Phases
        BY <1>0
      <4>2. [training[t] EXCEPT !.at = "factors", !.nightly = TRUE] \in T
        BY <1>0, <4>1
      <4>3. training' = [training EXCEPT ![t] =
                            [training[t] EXCEPT !.at = "factors", !.nightly = TRUE]]
        BY <1>0, <3>2 DEF BeginNightly
      <4> QED
        BY <1>0, <3>2, <4>2, <4>3 DEF BeginNightly
    <3>3. CASE EndUntrained(t)
      BY <1>0, <3>3 DEF EndUntrained, Lower
    <3> QED
      BY <1>1, <3>1, <3>2, <3>3
  <2> QED
    BY <1>0, <2>1, TrainingInv
<1>2. CASE OpenFile(t)
  <2>1. /\ training[t].at \in Files /\ running' \in BOOLEAN
        /\ training' \in [Trainings -> T]
    BY <1>0, <1>2 DEF OpenFile
  <2>2. PICK content \in {Opened, Garbled} : Write(training[t].at, content)
    BY <1>2 DEF OpenFile
  <2> QED
    BY <2>1, <2>2, WriteInv
<1>3. CASE CloseFile(t)
  <2>1. training[t].at \in Files /\ running' \in BOOLEAN
    BY <1>0, <1>3 DEF CloseFile, Lower
  <2>2. training' \in [Trainings -> T]
    BY <1>0, <1>3 DEF CloseFile
  <2>3. PICK content \in {t, Garbled} : Write(training[t].at, content)
    BY <1>3 DEF CloseFile
  <2>4. content \in Contents \union {Opened, Garbled}
    BY DEF Contents
  <2> QED
    BY <2>1, <2>2, <2>3, <2>4, WriteInv
<1>4. CASE NightlyDies(t)
  <2>1. /\ UNCHANGED <<file, reader, running>> /\ training' \in [Trainings -> T]
        /\ deaths' \in 0..MaxDeaths
    BY <1>0, <1>4, ModelAssumption DEF NightlyDies, Killed
  <2> QED
    BY <1>0, <2>1, TrainingInv
<1> QED
  BY <1>1, <1>2, <1>3, <1>4

LEMMA AskInv ==
    ASSUME IInv, NEW r \in Threads, Ask(r)
    PROVE  IInv'
<1>1. TypeOK'
  BY DEF Ask, IInv, TypeOK, trainer, Loads
<1>2. /\ \A q \in Threads \ {r} : loading'[q] = loading[q]
      /\ loading'[r].at = "stat" /\ loading'[r].got = None /\ ~loading'[r].newest
  BY DEF Ask, IInv, TypeOK, ReadsFollow, NewestLoads, Files
<1> QED
  BY <1>1, <1>2 DEF Ask, IInv, EngineCurrent, ReadsFollow, TimesAgree, NewestLoads,
                    Files

LEMMA StatInv ==
    ASSUME IInv, NEW r \in Threads, Stat(r)
    PROVE  IInv'
<1>1. TypeOK'
  <2>1. crossed' \in BOOLEAN
    BY DEF Stat, IInv, TypeOK
  <2>2. loading' \in [Threads -> Loading]
    BY RecordsTyped DEF Stat, IInv, TypeOK, Loading
  <2> QED
    BY <2>1, <2>2 DEF Stat, IInv, TypeOK, trainer, Loading
<1>2. \A q \in Threads \ {r} : loading'[q] = loading[q]
  BY DEF Stat, IInv, TypeOK
<1>3. CASE engine.factors # None /\ engine.newest
  <2>1. loading'[r] = Idle /\ crossed' = crossed
    BY <1>3 DEF Stat, IInv, TypeOK
  <2> QED
    BY <1>1, <1>2, <2>1 DEF Stat, IInv, EngineCurrent, ReadsFollow, TimesAgree,
                            NewestLoads, Files, Idle
<1>4. CASE ~(engine.factors # None /\ engine.newest)
  <2>1. /\ loading'[r].at = "meta" /\ loading'[r].newest /\ loading'[r].got = None
        /\ UNCHANGED <<file, engine>>
    BY <1>4 DEF Stat, IInv, TypeOK
  <2>2. ~crossed' => /\ ~crossed
                     /\ \A q \in Threads : loading[q].at \in Files => loading[q].newest
    BY <1>4 DEF Stat
  <2>3. EngineCurrent'
    BY <2>1, <2>2 DEF IInv, EngineCurrent
  <2>4. ReadsFollow' /\ NewestLoads'
    BY <1>2, <2>1, <2>2 DEF IInv, ReadsFollow, NewestLoads, Files
  <2>5. TimesAgree'
    BY <1>2, <2>1, <2>2 DEF TimesAgree
  <2> QED
    BY <1>1, <2>3, <2>4, <2>5 DEF IInv
<1> QED
  BY <1>3, <1>4

LEMMA ReadFileInv ==
    ASSUME IInv, NEW r \in Threads, ReadFile(r)
    PROVE  IInv'
<1>1. \A q \in Threads \ {r} : loading'[q] = loading[q]
  BY DEF ReadFile, IInv, TypeOK
<1>2. CASE Sound(loading[r].at)
  <2>1. file[loading[r].at] \in Contents
    BY <1>2 DEF ReadFile, Sound, IInv, TypeOK, Contents
  <2>2. /\ loading'[r].at = loading[r].at /\ loading'[r].newest = loading[r].newest
        /\ loading'[r].got = file[loading[r].at] /\ loading[r].at \in Files
        /\ UNCHANGED <<file, engine, crossed>>
    BY <1>2 DEF ReadFile, IInv, TypeOK
  <2>3. TypeOK'
    BY <1>2, <2>1 DEF ReadFile, IInv, TypeOK, trainer
  <2> QED
    BY <1>1, <2>2, <2>3 DEF IInv, EngineCurrent, ReadsFollow, TimesAgree,
                            NewestLoads
<1>3. CASE ~Sound(loading[r].at)
  <2>1. loading'[r] = Idle /\ UNCHANGED <<file, engine, crossed>>
    BY <1>3 DEF ReadFile, IInv, TypeOK
  <2>2. TypeOK'
    BY <1>3 DEF ReadFile, IInv, TypeOK, trainer, Idle, Loads
  <2> QED
    BY <1>1, <2>1, <2>2 DEF IInv, EngineCurrent, ReadsFollow, TimesAgree,
                            NewestLoads, Idle, Files
<1> QED
  BY <1>2, <1>3

\* The engine gets what a request has read.  If nothing has crossed and somebody has
\* seen the newest time, that is what the file holds.
LEMMA KeepFileInv ==
    ASSUME IInv, NEW r \in Threads, KeepFile(r)
    PROVE  IInv'
<1> DEFINE f == loading[r].at
           c == loading[r].got
<1>1. f \in Files /\ c \in Contents /\ c # None
  BY DEF KeepFile, IInv, TypeOK, ReadsFollow
<1>2. \A q \in Threads \ {r} : loading'[q] = loading[q]
  BY DEF KeepFile, IInv, TypeOK
<1>3. UNCHANGED <<file, crossed>>
  BY DEF KeepFile
<1>4. ASSUME ~crossed, NEW q \in Threads, loading[q].newest
      PROVE  c = file[f]
  BY <1>1, <1>4 DEF IInv, KeepFile, ReadsFollow, TimesAgree, NewestLoads
<1>5. ASSUME ~crossed, engine.newest
      PROVE  c = file[f]
  BY <1>1, <1>5 DEF IInv, KeepFile, ReadsFollow, TimesAgree
<1>6. CASE f = "interactions"
  <2>1. loading'[r] = Idle
    BY <1>6 DEF KeepFile, IInv, TypeOK
  <2>2. /\ engine'.interactions = c /\ engine'.newest = loading[r].newest
        /\ engine'.meta = engine.meta /\ engine'.factors = engine.factors
    BY <1>6 DEF KeepFile, TimeBefore, IInv, TypeOK
  <2>3. TypeOK'
    <3>1. loading' \in [Threads -> Loading]
      BY <1>6, RecordsTyped DEF KeepFile, IInv, TypeOK, Loading
    <3>2. loading[r].newest \in BOOLEAN
      BY DEF IInv, TypeOK
    <3>3. engine' \in [factors : Contents \union {None}, newest : BOOLEAN,
                       interactions : Contents \union {None},
                       meta : Contents \union {None}]
      BY <1>1, <1>6, <3>2 DEF KeepFile, TimeBefore, IInv, TypeOK
    <3> QED
      BY <3>1, <3>3 DEF KeepFile, IInv, TypeOK, trainer, Loading
  <2>4. EngineCurrent'
    <3> SUFFICES ASSUME ~crossed, loading[r].newest
                 PROVE  \A g \in Files : engine'[g] = file[g]
      BY <1>3, <2>2 DEF EngineCurrent
    <3>1. engine.meta = file.meta /\ engine.factors = file.factors
      BY <1>6 DEF IInv, ReadsFollow
    <3>2. c = file.interactions
      BY <1>4, <1>6
    <3> QED
      BY <2>2, <3>1, <3>2 DEF Files
  <2>5. ReadsFollow' /\ NewestLoads'
    BY <1>2, <1>3, <2>1, <2>2 DEF IInv, ReadsFollow, NewestLoads, Idle
  <2>6. TimesAgree'
    BY <1>1, <1>2, <1>3, <2>1, <2>2 DEF IInv, TimesAgree, Idle, Files
  <2> QED
    BY <2>3, <2>4, <2>5, <2>6 DEF IInv
<1>7. CASE f # "interactions"
  <2>1. f \in {"meta", "factors"}
    BY <1>1, <1>7 DEF Files
  <2>2. /\ loading'[r].at = NextRead[f] /\ loading'[r].newest = loading[r].newest
        /\ loading'[r].got = None /\ NextRead[f] \in Files
        /\ f = "meta" => NextRead[f] = "factors"
        /\ f = "factors" => NextRead[f] = "interactions"
    BY <1>7, <2>1 DEF KeepFile, IInv, TypeOK, NextRead, Files
  <2>3. /\ engine'[f] = c /\ engine'.newest = engine.newest
        /\ \A g \in Files \ {f} : engine'[g] = engine[g]
    BY <1>7, <2>1 DEF KeepFile, IInv, TypeOK, Files
  <2>4. TypeOK'
    BY <1>1, <1>7, <2>1, <2>2 DEF KeepFile, IInv, TypeOK, trainer, Loads, Files,
                                  NextRead
  <2>5. EngineCurrent'
    BY <1>3, <1>5, <2>3 DEF IInv, EngineCurrent
  <2>6. ReadsFollow'
    BY <1>1, <1>2, <1>3, <1>4, <2>1, <2>2, <2>3 DEF IInv, ReadsFollow, Files
  <2>7. TimesAgree' /\ NewestLoads'
    BY <1>1, <1>2, <1>3, <2>2, <2>3 DEF IInv, TimesAgree, NewestLoads
  <2> QED
    BY <2>4, <2>5, <2>6, <2>7 DEF IInv
<1> QED
  BY <1>6, <1>7

LEMMA ServerDiesInv == IInv /\ ServerDies => IInv'
<1> SUFFICES ASSUME IInv, ServerDies  PROVE IInv'
  OBVIOUS
<1>1. TypeOK'
  <2>1. \A t \in Trainings :
           Killed(t) \in [at : Phases, open : BOOLEAN, nightly : BOOLEAN]
    BY RecordsTyped DEF Killed, IInv, TypeOK
  <2>2. deaths' \in 0..MaxDeaths
    BY ModelAssumption DEF ServerDies, IInv, TypeOK
  <2> QED
    BY <2>1, <2>2, RecordsTyped DEF ServerDies, IInv, TypeOK, Loading
<1>2. ~engine'.newest /\ \A r \in Threads : loading'[r] = Idle
  BY DEF ServerDies, Nothing
<1> QED
  BY <1>1, <1>2 DEF IInv, EngineCurrent, ReadsFollow, TimesAgree, NewestLoads, Idle,
                    Files

LEMMA NextInv == IInv /\ [Next]_vars => IInv'
<1> SUFFICES ASSUME IInv, [Next]_vars  PROVE IInv'
  OBVIOUS
<1>1. ASSUME NEW r \in Threads, Request(r)
      PROVE  IInv'
  BY <1>1, StatInv, ReadFileInv, KeepFileInv DEF Request
<1>2. CASE UNCHANGED vars
  BY <1>2 DEF vars, trainer, reader, IInv, TypeOK, EngineCurrent, ReadsFollow,
              TimesAgree, NewestLoads
<1> QED
  BY <1>1, <1>2, TrainerNextInv, AskInv, ServerDiesInv DEF Next

LEMMA Inductive == Spec => []IInv
BY InitInv, NextInv, PTL DEF Spec

\* The variables keep their types.
THEOREM FilesTypeCorrect == Spec => []TypeOK
BY Inductive, PTL DEF IInv

\* An engine that would not read the files again has what they hold, whatever is
\* written while it reads, and whoever dies; unless requests have crossed.
THEOREM EngineHasTheFiles == Spec => []EngineCurrent
BY Inductive, PTL DEF IInv
=============================================================================
