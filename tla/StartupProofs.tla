---------------------------- MODULE StartupProofs ----------------------------
(***************************************************************************)
(* Proofs about Startup for any directories, environments, working         *)
(* directories and number of launches.                                     *)
(***************************************************************************)
EXTENDS Startup, FiniteSetTheorems, TLAPS

-----------------------------------------------------------------------------
(* The inductive invariant.                                                *)

(* The launch has gone past warn_on_suspicious_paths().                    *)
Warned == Steps \ {"settings", "warn"}
PastWarning == pc \in Warned \/ (pc = "refused" /\ by \in Warned)

(* assert_runtime_ready() let the launch through, and what it looked at    *)
(* does not change.                                                        *)
SecretsJudged == pc = "warn" \/ PastWarning => RuntimeReady

(* Nothing is written before the warning, and only what it looked at after *)
(* it.                                                                     *)
WarnedFirst ==
    IF PastWarning THEN warned = Checked \cap Prefix /\ written \subseteq Checked
                   ELSE written = {}

RefusedByClient == pc = "refused" /\ by = "clients" => ~KeyAccepted

(* The steps at which a task may already run.                              *)
TasksLate ==
    opened \cap Tasks # {} =>
        \/ pc \in {"workers", "sweeper", "requeue", "serving"}
        \/ pc = "refused" /\ by = "requeue"

(* The .env file of this launch is counted, and every launch that found    *)
(* one had its database there, unless the path says where it is.           *)
HomesBesideEnv ==
    /\ IsFiniteSet(loaded)
    /\ pc \in Steps => envFile \in loaded
    /\ None \notin loaded =>
           \A h \in homes : IF env.dbPath = Relative THEN h \in loaded
                                                     ELSE h = env.dbPath

Inv == /\ TypeOK /\ SecretsJudged /\ WarnedFirst
       /\ RefusedByClient /\ TasksLate /\ HomesBesideEnv

-----------------------------------------------------------------------------
(* lifespan() goes through its steps in this order.                        *)
LEMMA OrderAt ==
    ASSUME NEW n \in 1 .. 11, NEW k \in DOMAIN Order, Order[k] = Order[n]
    PROVE  k = n
  BY DEF Order

LEMMA StepOrder ==
    /\ After("settings") = "warn"        /\ After("warn") = "config"
    /\ After("config") = "store"         /\ After("store") = "raw"
    /\ After("raw") = "clients"          /\ After("clients") = "dispatcher"
    /\ After("dispatcher") = "tape"      /\ After("tape") = "workers"
    /\ After("workers") = "sweeper"      /\ After("sweeper") = "requeue"
    /\ After("requeue") = "serving"
<1>1. ASSUME NEW n \in 1 .. 11 PROVE After(Order[n]) = Order[n + 1]
  <2> DEFINE c == CHOOSE k \in DOMAIN Order : Order[k] = Order[n]
  <2>1. n \in DOMAIN Order
    BY DEF Order
  <2>2. c \in DOMAIN Order /\ Order[c] = Order[n]
    BY <2>1
  <2>3. c = n
    BY <2>2, OrderAt
  <2>4. After(Order[n]) = Order[1 + c]
    BY DEF After
  <2> HIDE DEF c
  <2>5. 1 + c = n + 1
    BY <2>3
  <2> QED
    BY <2>4, <2>5
<1>2. /\ Order[1] = "settings" /\ Order[2] = "warn"      /\ Order[3] = "config"
      /\ Order[4] = "store"    /\ Order[5] = "raw"       /\ Order[6] = "clients"
      /\ Order[7] = "dispatcher" /\ Order[8] = "tape"    /\ Order[9] = "workers"
      /\ Order[10] = "sweeper" /\ Order[11] = "requeue"  /\ Order[12] = "serving"
  BY DEF Order
<1> QED
  BY <1>1, <1>2

LEMMA StepNames ==
    /\ Steps = {"settings", "warn", "config", "store", "raw", "clients",
                "dispatcher", "tape", "workers", "sweeper", "requeue", "serving"}
    /\ Order[1] = "settings"
  BY DEF Steps, Order

(* Every path ends up in a directory, whatever .env file was found.        *)
LEMMA ResolvedType ==
    ASSUME TypeOK, NEW path \in Dirs \cup {Relative}
    PROVE  Resolved(path) \in Dirs
<1>1. walk \in Seq(Dirs) /\ walk # <<>>
  BY StartupAssumption DEF TypeOK
<1>2. walk[1] \in Dirs
  BY <1>1
<1>3. env.package \in Dirs /\ App \in Dirs /\ envFile \in Dirs \cup {None}
  BY StartupAssumption DEF TypeOK, Environment
<1> QED
  BY <1>2, <1>3 DEF Resolved, Anchor

-----------------------------------------------------------------------------
LEMMA Initially == Init => Inv
<1> SUFFICES ASSUME Init PROVE Inv
  OBVIOUS
<1>1. walk \in Seq(Dirs) /\ walk # <<>> /\ 1 \in DOMAIN walk
  <2>1. walk \in Seq(Dirs) /\ walk # <<>>
    BY StartupAssumption DEF Init
  <2> QED
    BY <2>1
<1>2. TypeOK
  BY <1>1, StartupAssumption DEF Init, TypeOK, Finding
<1>3. IsFiniteSet(loaded)
  BY FS_EmptySet DEF Init
<1> QED
  BY <1>2, <1>3, StepNames DEF Init, Inv, SecretsJudged, WarnedFirst, PastWarning,
     Warned, RefusedByClient, TasksLate, HomesBesideEnv

LEMMA RelaunchKeeps == Inv /\ (\E w \in Walks : Relaunch(w)) => Inv'
<1> SUFFICES ASSUME Inv, NEW w \in Walks, Relaunch(w) PROVE Inv'
  OBVIOUS
<1>1. 1 \in DOMAIN w
  <2>1. w \in Seq(Dirs) /\ w # <<>>
    BY StartupAssumption
  <2> QED
    BY <2>1
<1>2. TypeOK'
  BY <1>1, StartupAssumption DEF Relaunch, Inv, TypeOK, Finding
<1> QED
  BY <1>2, StepNames DEF Relaunch, Inv, SecretsJudged, WarnedFirst, PastWarning,
     Warned, RefusedByClient, TasksLate, HomesBesideEnv

(* get_settings() only moves to where lifespan() begins.                   *)
LEMMA FindingKeeps == Inv /\ (Override \/ Walk \/ Module) => Inv'
<1> SUFFICES ASSUME Inv, Override \/ Walk \/ Module PROVE Inv'
  OBVIOUS
<1>1. /\ pc \in Finding /\ pc' \in Finding \cup {"settings"}
      /\ UNCHANGED <<env, walk, by, warned, written, opened, homes, launches>>
      /\ at' \in DOMAIN walk
      /\ \/ UNCHANGED <<envFile, loaded>> /\ pc' \in Finding
         \/ /\ envFile' \in Dirs \cup {None} /\ loaded' = loaded \cup {envFile'}
            /\ pc' = "settings"
  <2>1. CASE Override
    BY <2>1, StepNames DEF Override, Found, FindingUnchanged, effects, files, Finding,
       Inv, TypeOK, Environment
  <2>2. CASE Walk
    <3>1. walk[at] \in Dirs
      BY StartupAssumption DEF Inv, TypeOK
    <3> QED
      BY <2>2, <3>1, StepNames DEF Walk, Found, FindingUnchanged, effects, files,
         Finding, Above, Inv, TypeOK
  <2>3. CASE Module
    BY <2>3, StepNames DEF Module, Found, FindingUnchanged, effects, files, Finding,
       Inv, TypeOK, Environment
  <2> QED
    BY <2>1, <2>2, <2>3
<1>2. TypeOK'
  BY <1>1, StepNames DEF Inv, TypeOK
<1>3. HomesBesideEnv'
  <2>1. IsFiniteSet(loaded')
    BY <1>1, FS_AddElement DEF Inv, HomesBesideEnv
  <2> QED
    BY <1>1, <2>1, StepNames DEF Inv, HomesBesideEnv, Finding
<1> QED
  BY <1>1, <1>2, <1>3, StepNames DEF Inv, SecretsJudged, WarnedFirst, PastWarning,
     Warned, RefusedByClient, TasksLate, Finding

(* A step of lifespan() leaves alone what the judgements look at.          *)
LEMMA SameJudgement ==
    ASSUME LifespanUnchanged
    PROVE  /\ UNCHANGED <<env, walk, at, envFile, loaded, launches>>
           /\ RuntimeReady' = RuntimeReady /\ Checked' = Checked
           /\ KeyAccepted' = KeyAccepted
  BY DEF LifespanUnchanged, files, RuntimeReady, Checked, KeyAccepted, Resolved,
     Anchor, OnDisk

(* A step that raises, with the step's own reason.                         *)
LEMMA RaiseKeeps ==
    ASSUME Inv, LifespanUnchanged, pc \in Steps, pc' = "refused", by' = pc,
           UNCHANGED <<warned, opened, homes>>,
           pc \in Warned => written' \subseteq Checked,
           pc \notin Warned => written' = written,
           pc = "clients" => ~KeyAccepted,
           pc \in {"config", "store", "clients", "dispatcher", "tape", "requeue", "settings"}
    PROVE  Inv'
<1>1. TypeOK'
  <2>1. Checked \subseteq Dirs
    BY ResolvedType DEF Inv, TypeOK, Environment, Checked
  <2> QED
    BY <2>1, SameJudgement DEF Inv, TypeOK, Warned, Steps
<1> QED
  BY <1>1, SameJudgement, StepNames DEF Inv, SecretsJudged, WarnedFirst, PastWarning,
     Warned, RefusedByClient, TasksLate, HomesBesideEnv

(* A step that passes, and what it may change on the way.                  *)
LEMMA PassKeeps ==
    ASSUME Inv, NEW step \in Steps, Passes(step),
           pc' \in Steps,
           step # "settings" => pc' \in Warned,
           warned' \subseteq Prefix, homes' \subseteq Dirs,
           opened' \subseteq {"store", "raw", "clients"} \cup Tasks,
           step = "settings" => RuntimeReady /\ pc' = "warn",
           step \in Warned => warned' = warned /\ written' \subseteq Checked,
           step = "warn" => warned' = Checked \cap Prefix /\ written' = written,
           step = "settings" => written' = written,
           opened' \cap Tasks # {} =>
               pc' \in {"workers", "sweeper", "requeue", "serving"},
           homes' \subseteq homes \cup (IF OnDisk THEN {Resolved(env.dbPath)} ELSE {})
    PROVE  Inv'
<1>1. LifespanUnchanged /\ pc = step /\ by' = by
  BY DEF Passes
<1>2. TypeOK'
  <2>1. Checked \subseteq Dirs
    BY ResolvedType DEF Inv, TypeOK, Environment, Checked
  <2>2. step \notin Warned => written' = written
    BY DEF Warned
  <2>3. written' \subseteq Dirs
    BY <2>1, <2>2 DEF Inv, TypeOK
  <2> QED
    BY <1>1, <2>3, SameJudgement DEF Inv, TypeOK
<1>3. SecretsJudged' /\ RefusedByClient' /\ TasksLate'
  BY <1>1, SameJudgement, StepNames DEF Inv, SecretsJudged, PastWarning, Warned,
     RefusedByClient, TasksLate
<1>4. WarnedFirst'
  BY <1>1, SameJudgement, StepNames DEF Inv, WarnedFirst, PastWarning, Warned
<1>5. HomesBesideEnv'
  <2>1. envFile \in loaded
    BY <1>1 DEF Inv, HomesBesideEnv
  <2>2. ASSUME None \notin loaded, NEW h \in homes'
        PROVE  IF env.dbPath = Relative THEN h \in loaded ELSE h = env.dbPath
    BY <2>1, <2>2 DEF Inv, HomesBesideEnv, Resolved, Anchor
  <2> QED
    BY <1>1, <2>1, <2>2, SameJudgement DEF Inv, HomesBesideEnv
<1> QED
  BY <1>2, <1>3, <1>4, <1>5 DEF Inv

LEMMA CheckSettingsKeeps == Inv /\ CheckSettings => Inv'
<1> SUFFICES ASSUME Inv, CheckSettings PROVE Inv'
  OBVIOUS
<1>1. CASE RuntimeReady /\ Passes("settings") /\ UNCHANGED <<effects, homes>>
  <2>1. pc' = "warn" /\ UNCHANGED <<warned, written, opened, homes>>
    BY <1>1, StepOrder DEF Passes, effects
  <2> QED
    BY <1>1, <2>1, StepNames, PassKeeps DEF Inv, TypeOK, TasksLate, Warned, Passes
<1>2. CASE Raises("settings")
  BY <1>2, StepNames, RaiseKeeps DEF Raises, effects, Warned
<1> QED
  BY <1>1, <1>2 DEF CheckSettings

LEMMA WarnKeeps == Inv /\ Warn => Inv'
<1> SUFFICES ASSUME Inv, Warn PROVE Inv'
  OBVIOUS
<1>1. /\ Passes("warn") /\ pc = "warn" /\ pc' = "config"
      /\ warned' = Checked \cap Prefix /\ UNCHANGED <<written, opened, homes>>
  BY StepOrder DEF Warn, Passes
<1> QED
  BY <1>1, StepNames, PassKeeps DEF Inv, TypeOK, TasksLate, Warned

(* What the warning looked at covers where the stores and the tape write.  *)
LEMMA WritesChecked ==
    /\ OnDisk => Resolved(env.dbPath) \in Checked
    /\ Resolved(env.rawPath) \in Checked
    /\ TapeDir \in Checked
  BY DEF Checked, TapeDir, OnDisk

LEMMA LoadConfigKeeps == Inv /\ LoadConfig => Inv'
<1> SUFFICES ASSUME Inv, LoadConfig PROVE Inv'
  OBVIOUS
<1>1. CASE Passes("config") /\ UNCHANGED <<effects, homes>>
  <2>1. pc = "config" /\ pc' = "store" /\ UNCHANGED <<warned, written, opened, homes>>
    BY <1>1, StepOrder DEF Passes, effects
  <2>2. PastWarning
    BY <2>1, StepNames DEF PastWarning, Warned
  <2> QED
    BY <1>1, <2>1, <2>2, StepNames, PassKeeps
       DEF Inv, TypeOK, TasksLate, WarnedFirst, Warned
<1>2. CASE Raises("config")
  <2>1. pc = "config" /\ PastWarning
    BY <1>2, StepNames DEF Raises, PastWarning, Warned
  <2> QED
    BY <1>2, <2>1, StepNames, RaiseKeeps DEF Raises, effects, Inv, WarnedFirst
<1> QED
  BY <1>1, <1>2 DEF LoadConfig

LEMMA OpenStoreKeeps == Inv /\ OpenStore => Inv'
<1> SUFFICES ASSUME Inv, OpenStore PROVE Inv'
  OBVIOUS
<1>1. pc = "store" /\ PastWarning /\ UNCHANGED <<warned, homes>>
  BY StepNames DEF OpenStore, Passes, PastWarning, Warned
<1>2. written' \subseteq Checked
  BY <1>1, WritesChecked DEF OpenStore, Inv, WarnedFirst
<1>3. CASE Passes("store") /\ opened' = opened \cup {"store"}
  <2>1. pc' = "raw"
    BY <1>3, StepOrder DEF Passes
  <2>2. opened' \cap Tasks = {}
    BY <1>1, <1>3 DEF Inv, TasksLate, Tasks
  <2> QED
    BY <1>1, <1>2, <1>3, <2>1, <2>2, StepNames, PassKeeps DEF Inv, TypeOK, Warned
<1>4. CASE pc' = "refused" /\ by' = "store" /\ LifespanUnchanged /\ UNCHANGED opened
  BY <1>1, <1>2, <1>4, StepNames, RaiseKeeps DEF Warned
<1> QED
  BY <1>3, <1>4 DEF OpenStore

LEMMA BuildRawStoreKeeps == Inv /\ BuildRawStore => Inv'
<1> SUFFICES ASSUME Inv, BuildRawStore PROVE Inv'
  OBVIOUS
<1>1. /\ Passes("raw") /\ pc = "raw" /\ pc' = "clients"
      /\ UNCHANGED <<warned, written, homes>>
      /\ opened' \subseteq opened \cup {"raw"}
  BY StepOrder DEF BuildRawStore, Passes
<1>2. PastWarning
  BY <1>1, StepNames DEF PastWarning, Warned
<1>3. opened' \cap Tasks = {}
  BY <1>1 DEF Inv, TasksLate, Tasks
<1> QED
  BY <1>1, <1>2, <1>3, StepNames, PassKeeps DEF Inv, TypeOK, WarnedFirst, Warned

LEMMA CreateClientsKeeps == Inv /\ CreateClients => Inv'
<1> SUFFICES ASSUME Inv, CreateClients PROVE Inv'
  OBVIOUS
<1>1. CASE /\ Passes("clients") /\ opened' = opened \cup {"clients"}
           /\ UNCHANGED <<warned, written, homes>>
  <2>1. pc = "clients" /\ pc' = "dispatcher"
    BY <1>1, StepOrder DEF Passes
  <2>2. PastWarning
    BY <2>1, StepNames DEF PastWarning, Warned
  <2>3. opened' \cap Tasks = {}
    BY <1>1, <2>1 DEF Inv, TasksLate, Tasks
  <2> QED
    BY <1>1, <2>1, <2>2, <2>3, StepNames, PassKeeps
       DEF Inv, TypeOK, WarnedFirst, Warned
<1>2. CASE ~KeyAccepted /\ Raises("clients")
  <2>1. pc = "clients" /\ PastWarning
    BY <1>2, StepNames DEF Raises, PastWarning, Warned
  <2> QED
    BY <1>2, <2>1, StepNames, RaiseKeeps DEF Raises, effects, Inv, WarnedFirst
<1> QED
  BY <1>1, <1>2 DEF CreateClients

LEMMA CreateDispatcherKeeps == Inv /\ CreateDispatcher => Inv'
<1> SUFFICES ASSUME Inv, CreateDispatcher PROVE Inv'
  OBVIOUS
<1>1. CASE Passes("dispatcher") /\ UNCHANGED <<effects, homes>>
  <2>1. /\ pc = "dispatcher" /\ pc' = "tape"
        /\ UNCHANGED <<warned, written, opened, homes>>
    BY <1>1, StepOrder DEF Passes, effects
  <2>2. PastWarning
    BY <2>1, StepNames DEF PastWarning, Warned
  <2> QED
    BY <1>1, <2>1, <2>2, StepNames, PassKeeps
       DEF Inv, TypeOK, TasksLate, WarnedFirst, Warned
<1>2. CASE Raises("dispatcher")
  <2>1. pc = "dispatcher" /\ PastWarning
    BY <1>2, StepNames DEF Raises, PastWarning, Warned
  <2> QED
    BY <1>2, <2>1, StepNames, RaiseKeeps DEF Raises, effects, Inv, WarnedFirst
<1> QED
  BY <1>1, <1>2 DEF CreateDispatcher

LEMMA StartTapeKeeps == Inv /\ StartTape => Inv'
<1> SUFFICES ASSUME Inv, StartTape PROVE Inv'
  OBVIOUS
<1>1. CASE /\ Passes("tape")
           /\ written' = written \cup {TapeDir} /\ opened' = opened \cup {"tape"}
           /\ UNCHANGED <<warned, homes>>
  <2>1. pc = "tape" /\ pc' = "workers"
    BY <1>1, StepOrder DEF Passes
  <2>2. PastWarning
    BY <2>1, StepNames DEF PastWarning, Warned
  <2>3. written' \subseteq Checked
    BY <1>1, <2>2, WritesChecked DEF Inv, WarnedFirst
  <2> QED
    BY <1>1, <2>1, <2>3, StepNames, PassKeeps DEF Inv, TypeOK, Warned, Tasks
<1>2. CASE Raises("tape")
  <2>1. pc = "tape" /\ PastWarning
    BY <1>2, StepNames DEF Raises, PastWarning, Warned
  <2> QED
    BY <1>2, <2>1, StepNames, RaiseKeeps DEF Raises, effects, Inv, WarnedFirst
<1> QED
  BY <1>1, <1>2 DEF StartTape

LEMMA StartTaskKeeps ==
    ASSUME Inv, NEW task \in {"workers", "sweeper"}, StartTask(task)
    PROVE  Inv'
<1>1. /\ Passes(task) /\ pc = task /\ pc' \in {"sweeper", "requeue"}
      /\ opened' = opened \cup {task} /\ UNCHANGED <<warned, written, homes>>
  BY StepOrder DEF StartTask, Passes
<1>2. PastWarning
  BY <1>1, StepNames DEF PastWarning, Warned
<1> QED
  BY <1>1, <1>2, StepNames, PassKeeps DEF Inv, TypeOK, WarnedFirst, Warned, Tasks

LEMMA RequeueKeeps == Inv /\ Requeue => Inv'
<1> SUFFICES ASSUME Inv, Requeue PROVE Inv'
  OBVIOUS
<1>1. CASE /\ Passes("requeue") /\ UNCHANGED effects
           /\ homes' = homes \cup (IF OnDisk THEN {Resolved(env.dbPath)} ELSE {})
  <2>1. /\ pc = "requeue" /\ pc' = "serving"
        /\ UNCHANGED <<warned, written, opened>>
    BY <1>1, StepOrder DEF Passes, effects
  <2>2. PastWarning
    BY <2>1, StepNames DEF PastWarning, Warned
  <2>3. homes' \subseteq Dirs
    BY <1>1, ResolvedType DEF Inv, TypeOK, Environment
  <2> QED
    BY <1>1, <2>1, <2>2, <2>3, StepNames, PassKeeps
       DEF Inv, TypeOK, WarnedFirst, Warned
<1>2. CASE Raises("requeue")
  <2>1. pc = "requeue" /\ PastWarning
    BY <1>2, StepNames DEF Raises, PastWarning, Warned
  <2> QED
    BY <1>2, <2>1, StepNames, RaiseKeeps DEF Raises, effects, Inv, WarnedFirst
<1> QED
  BY <1>1, <1>2 DEF Requeue

LEMMA NextKeeps == Inv /\ [Next]_vars => Inv'
<1> SUFFICES ASSUME Inv, [Next]_vars PROVE Inv'
  OBVIOUS
<1>1. CASE \E w \in Walks : Relaunch(w)
  BY <1>1, RelaunchKeeps
<1>2. CASE BootStep
  BY <1>2, FindingKeeps, CheckSettingsKeeps, WarnKeeps, LoadConfigKeeps,
     OpenStoreKeeps, BuildRawStoreKeeps, CreateClientsKeeps, CreateDispatcherKeeps,
     StartTapeKeeps, StartTaskKeeps, RequeueKeeps DEF BootStep
<1>3. CASE Terminated \/ UNCHANGED vars
  <2>1. LifespanUnchanged /\ UNCHANGED <<pc, by, warned, written, opened, homes>>
    BY <1>3 DEF Terminated, vars, files, effects, LifespanUnchanged
  <2>2. TypeOK' /\ TasksLate' /\ HomesBesideEnv'
    BY <2>1, SameJudgement DEF Inv, TypeOK, TasksLate, HomesBesideEnv
  <2>3. SecretsJudged' /\ WarnedFirst' /\ RefusedByClient'
    BY <2>1, SameJudgement DEF Inv, SecretsJudged, WarnedFirst, PastWarning,
       RefusedByClient
  <2> QED
    BY <2>2, <2>3 DEF Inv
<1> QED
  BY <1>1, <1>2, <1>3 DEF Next

LEMMA Invariant == Spec => []Inv
  BY Initially, NextKeeps, PTL DEF Spec

-----------------------------------------------------------------------------
(* The launch only ever holds directories it knows, and opens only what    *)
(* lifespan() opens.                                                       *)
THEOREM StartupTypeCorrect == Spec => []TypeOK
  BY Invariant, PTL DEF Inv

(* A deployment that has not opted out is stopped by assert_runtime_ready()*)
(* (settings.py) before the first directory is made.                       *)
THEOREM SecretsBeforeDisk == Spec => []RefusedBeforeWriting
<1>1. ClientMarkers \subseteq SettingsMarkers
  BY DEF ClientMarkers, SettingsMarkers
<1>2. Inv => RefusedBeforeWriting
  BY <1>1 DEF Inv, WarnedFirst, SecretsJudged, RuntimeReady, RefusedBeforeWriting
<1> QED
  BY <1>2, Invariant, PTL

(* What the settings accept, _validate_api_key() (do_inference.py) accepts *)
(* too, unless dummy keys are allowed and there is no key whatever.        *)
THEOREM OneJudgement == Spec => []ClientOverrulesOnlyNoKey
<1>1. ClientMarkers \subseteq SettingsMarkers
  BY DEF ClientMarkers, SettingsMarkers
<1>2. Inv => ClientOverrulesOnlyNoKey
  BY <1>1, StepNames DEF Inv, RefusedByClient, SecretsJudged, PastWarning, Warned,
     RuntimeReady, KeyAccepted, ClientOverrulesOnlyNoKey
<1> QED
  BY <1>2, Invariant, PTL

(* Only the startup query can fail once a background task runs (main.py).  *)
THEOREM OnlyTheQueryAbandons == Spec => []TasksStartLast
<1>1. Inv => TasksStartLast
  BY DEF Inv, TasksLate, TasksStartLast
<1> QED
  BY <1>1, Invariant, PTL

(* warn_on_suspicious_paths() (settings.py) names every directory under    *)
(* the install prefix that the launch goes on to write to, the tape's too. *)
THEOREM WarnedBeforeWritten == Spec => []WritesAreWarned
<1>1. Inv => WritesAreWarned
  BY DEF Inv, WarnedFirst, WritesAreWarned
<1> QED
  BY <1>1, Invariant, PTL

(* Launches that find the same .env file share one database, however many  *)
(* there are and wherever they start (_find_env_file(), settings.py).      *)
THEOREM SameEnvSameDatabase == Spec => []OneDatabasePerEnvFile
<1>1. Inv => OneDatabasePerEnvFile
  <2> SUFFICES ASSUME Inv, Cardinality(loaded) = 1, None \notin loaded
               PROVE  Cardinality(homes) <= 1
    BY DEF OneDatabasePerEnvFile
  <2>1. PICK d : loaded = {d}
    BY FS_Singleton DEF Inv, HomesBesideEnv
  <2>2. \E x : homes \subseteq {x}
    BY <2>1 DEF Inv, HomesBesideEnv
  <2>3. PICK x : homes \subseteq {x}
    BY <2>2
  <2>4. IsFiniteSet({x}) /\ Cardinality({x}) = 1
    BY FS_Singleton
  <2> QED
    BY <2>3, <2>4, FS_Subset
<1> QED
  BY <1>1, Invariant, PTL
=============================================================================
