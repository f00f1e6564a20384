------------------------------ MODULE Startup ------------------------------
(***************************************************************************)
(* From the launch of a process to its first request: get_settings() finds *)
(* a .env file (settings.py), and lifespan() (main.py) checks the secrets, *)
(* loads the configuration, opens the stores, creates the clients and      *)
(* starts the background tasks, one action per step.  ShadowProxy begins   *)
(* where this module ends.                                                 *)
(*                                                                         *)
(* A directory is a model value; a path is the directory it is in.  The    *)
(* settings are the process environment's, which overrides the .env file,  *)
(* so all that the file found decides here is where relative paths go.     *)
(* Left out: expanduser() and symbolic links, a path that is itself the    *)
(* top of the install prefix, log levels, and the import of aioboto3.      *)
(***************************************************************************)
EXTENDS Integers, Sequences, FiniteSets

CONSTANTS
    Dirs, None,
    Relative,        \* a path that is not absolute
    App,             \* the directory /app
    Prefix,          \* directories under _INSTALL_PREFIX_MARKERS
    Environments,    \* what a deployment may look like, see Environment
    Walks,           \* sequences of a working directory and its parents
    MaxLaunches      \* bound: launches of the process

SettingsMarkers ==
    {"fake", "dummy", "example", "placeholder", "changeme", "change-me",
     "your-key", "your_key", "yourkey", "todo", "xxx", "abc123", "secret-here",
     "paste-"}

ClientMarkers ==
    {"fake", "dummy", "example", "placeholder", "changeme", "your-key",
     "your_key", "yourkey", "todo", "xxx", "abc123", "paste-"}

SpacesCredentials == {"bucket", "key", "secret"}

(* DO_INFERENCE_API_KEY: what suspicious text is in it (README.md names    *)
(* "test" as well), and how long it is.                                    *)
Key == [marks : SUBSET (SettingsMarkers \cup ClientMarkers \cup {"test"}),
        length : {"none", "short", "plausible"}]

(* What the YAML file may hold that ends a launch; "absent" stands for the *)
(* bundled file in its place, "missing" for neither.                       *)
BadYaml == {"invalid", "no_route", "no_capacity"}

(* What is fixed before the process starts.                                *)
Environment ==
    [ override : Dirs \cup {None},     \* $SHADOW_PROXY_ENV_FILE, if a file
      dotenv   : SUBSET Dirs,          \* directories with a .env file
      project  : SUBSET Dirs,          \* directories with a pyproject.toml
      config   : SUBSET Dirs,          \* directories with a config/ directory
      app      : BOOLEAN,              \* /app is a directory
      module   : Dirs, package : Dirs, \* settings.py: parents[2] and parent
      key      : Key,
      allow    : BOOLEAN,              \* SHADOW_PROXY_ALLOW_DUMMY_KEY
      raw      : {"filesystem", "spaces"},
      spaces   : SUBSET SpacesCredentials,        \* those that are set
      rawPath  : Dirs \cup {Relative},
      db       : {"aiosqlite", "sqlite", "server"},
      dbPath   : Dirs \cup {Relative},
      yaml     : {"good", "absent", "missing"} \cup BadYaml,
      yamlPath : Dirs \cup {Relative} ]

ASSUME StartupAssumption ==
    /\ App \in Dirs /\ Prefix \subseteq Dirs
    /\ Environments \subseteq Environment
    /\ Walks \subseteq Seq(Dirs) /\ <<>> \notin Walks
    /\ MaxLaunches \in Nat \ {0}

VARIABLES
    env,         \* the environment, a member of Environments
    walk, at,    \* the working directory and its parents; where the walk is
    pc,          \* the next step of the launch
    by,          \* the step that ended it with an exception, or None
    envFile,     \* the directory of _LOADED_ENV_FILE, or None
    warned,      \* directories that warn_on_suspicious_paths() logged
    written,     \* directories that this launch has written to
    opened,      \* what it has opened or started
    loaded,      \* envFile of every launch so far
    homes,       \* the directory of the database of every launch that served
    launches

files    == <<envFile, loaded>>
effects  == <<warned, written, opened>>
vars == <<env, walk, at, pc, by, files, effects, homes, launches>>

Finding == {"override", "walk", "module"}

(* A slip: the directories are made before the secrets are looked at.      *)
OrderStoreFirst == <<"store", "raw", "settings", "warn", "config", "clients",
                     "dispatcher", "tape", "workers", "sweeper", "requeue", "serving">>

(* A slip: the tape is opened together with the other stores.              *)
OrderTapeEarly == <<"settings", "warn", "config", "store", "raw", "tape", "clients",
                    "dispatcher", "workers", "sweeper", "requeue", "serving">>

(* lifespan(), step by step.                                               *)
Order == <<"settings", "warn", "config", "store", "raw", "clients", "dispatcher",
           "tape", "workers", "sweeper", "requeue", "serving">>

Steps == {Order[n] : n \in DOMAIN Order}
Tasks == {"tape", "workers", "sweeper"}

TypeOK ==
    /\ env \in Environment
    /\ walk \in Walks /\ at \in DOMAIN walk
    /\ pc \in {"refused"} \cup Finding \cup Steps
    /\ by \in Steps \cup {None}
    /\ envFile \in Dirs \cup {None} /\ loaded \subseteq Dirs \cup {None}
    /\ warned \subseteq Prefix /\ written \subseteq Dirs /\ homes \subseteq Dirs
    /\ opened \subseteq {"store", "raw", "clients"} \cup Tasks
    /\ launches \in 1 .. MaxLaunches

Init ==
    /\ env \in Environments
    /\ walk \in Walks /\ at = 1
    /\ pc = "override" /\ by = None
    /\ envFile = None /\ loaded = {}
    /\ warned = {} /\ written = {} /\ opened = {}
    /\ homes = {} /\ launches = 1

(* The process has ended, and starts again from another directory; what it *)
(* had opened is gone with it.                                             *)
Relaunch(w) ==
    /\ pc \in {"serving", "refused"}
    /\ launches < MaxLaunches
    /\ launches' = launches + 1
    /\ walk' = w /\ at' = 1
    /\ pc' = "override" /\ by' = None
    /\ envFile' = None
    /\ warned' = {} /\ written' = {} /\ opened' = {}
    /\ UNCHANGED <<env, loaded, homes>>

-----------------------------------------------------------------------------
(* get_settings() and _find_env_file().                                    *)
FindingUnchanged == UNCHANGED <<env, walk, by, effects, homes, launches>>

Found(d) ==
    /\ envFile' = d
    /\ loaded' = loaded \cup {d}
    /\ pc' = Order[1]
    /\ UNCHANGED at

Override ==
    /\ pc = "override"
    /\ \/ env.override # None /\ Found(env.override)
       \/ env.override = None /\ pc' = "walk" /\ UNCHANGED <<at, files>>
    /\ FindingUnchanged

HasEnv(d) == d \in env.dotenv

(* The next of (cwd, *cwd.parents), if there is one.                       *)
Above(n) == {m \in DOMAIN walk : m = n + 1}

Walk ==
    /\ pc = "walk"
    /\ LET d == walk[at]
       IN  \/ HasEnv(d) /\ Found(d)
           \/ /\ ~HasEnv(d) /\ d \notin env.project
              /\ at' \in Above(at)
              /\ UNCHANGED <<pc, files>>
           \/ /\ ~HasEnv(d) /\ (d \in env.project \/ Above(at) = {})
              /\ pc' = "module"
              /\ UNCHANGED <<at, files>>
    /\ FindingUnchanged

Module ==
    /\ pc = "module"
    /\ Found(IF HasEnv(env.module) THEN env.module ELSE None)
    /\ FindingUnchanged

-----------------------------------------------------------------------------
(* Where paths go.                                                         *)

(* A slip: a working directory that looks like a project goes first.       *)
AnchorCwdFirst ==
    CASE walk[1] \in env.project \cup env.config -> walk[1]
      [] envFile # None -> envFile
      [] env.app        -> App
      [] OTHER          -> env.package

(* _anchor_dir()                                                           *)
Anchor ==
    IF envFile # None THEN envFile
    ELSE IF walk[1] \in env.project \cup env.config THEN walk[1]
    ELSE IF env.app THEN App
    ELSE env.package

Resolved(path) == IF path = Relative THEN Anchor ELSE path

OnDisk == env.db \in {"aiosqlite", "sqlite"}

(* A slip: the raw store's path matters only to its own kind of store.     *)
CheckedIfUsed ==
    {Resolved(env.yamlPath)}
    \cup (IF env.raw = "filesystem" THEN {Resolved(env.rawPath)} ELSE {})
    \cup (IF OnDisk THEN {Resolved(env.dbPath)} ELSE {})

(* The checks of warn_on_suspicious_paths().                               *)
Checked == {Resolved(env.yamlPath), Resolved(env.rawPath)}
           \cup (IF OnDisk THEN {Resolved(env.dbPath)} ELSE {})

(* _mismatch_tape_path(): beside the database, else beside the raw store.  *)
TapeDir == Resolved(IF env.db = "aiosqlite" THEN env.dbPath ELSE env.rawPath)

-----------------------------------------------------------------------------
(* lifespan(): a step succeeds, or raises and ends the launch; nothing of  *)
(* what was opened before is closed then.                                  *)
After(step) == Order[1 + CHOOSE n \in DOMAIN Order : Order[n] = step]

LifespanUnchanged == UNCHANGED <<env, walk, at, files, launches>>

Passes(step) == /\ pc = step
                /\ pc' = After(step)
                /\ UNCHANGED by
                /\ LifespanUnchanged

Raises(step) == /\ pc = step
                /\ pc' = "refused" /\ by' = step
                /\ LifespanUnchanged /\ UNCHANGED <<effects, homes>>

(* assert_runtime_ready() does not raise.                                  *)
RuntimeReady ==
    \/ env.allow
    \/ /\ env.key.length = "plausible"
       /\ env.key.marks \cap SettingsMarkers = {}
       /\ env.raw = "spaces" => env.spaces = SpacesCredentials

CheckSettings ==
    \/ RuntimeReady /\ Passes("settings") /\ UNCHANGED <<effects, homes>>
    \/ ~RuntimeReady /\ Raises("settings")

Warn ==
    /\ Passes("warn")
    /\ warned' = Checked \cap Prefix
    /\ UNCHANGED <<written, opened, homes>>

(* load_app_config() falls back to the bundled file; config.route().       *)
Loadable == env.yaml \notin {"missing", "invalid", "no_route"}

LoadConfig ==
    \/ Loadable /\ Passes("config") /\ UNCHANGED <<effects, homes>>
    \/ ~Loadable /\ Raises("config")

(* _ensure_local_dirs(), then the engine of the database: SQLAlchemy       *)
(* refuses the synchronous driver of "sqlite:///".                         *)
OpenStore ==
    LET made == (IF OnDisk THEN {Resolved(env.dbPath)} ELSE {})
                \cup (IF env.raw = "filesystem" THEN {Resolved(env.rawPath)} ELSE {})
    IN  /\ written' = written \cup made
        /\ \/ /\ env.db # "sqlite"
              /\ Passes("store") /\ opened' = opened \cup {"store"}
           \/ \* the driver is refused, or initialize() fails
              /\ pc = "store" /\ pc' = "refused" /\ by' = "store"
              /\ LifespanUnchanged /\ UNCHANGED opened
        /\ UNCHANGED <<warned, homes>>

(* _build_raw_store(): none for "spaces" without a bucket.                 *)
BuildRawStore ==
    /\ Passes("raw")
    /\ opened' = IF env.raw = "spaces" /\ "bucket" \notin env.spaces
                 THEN opened ELSE opened \cup {"raw"}
    /\ UNCHANGED <<warned, written, homes>>

(* A slip: a marker was added to the client's list alone.                  *)
KeyAcceptedStricter ==
    /\ env.key.length # "none"
    /\ ~env.allow => /\ env.key.marks \cap (ClientMarkers \cup {"test"}) = {}
                     /\ env.key.length = "plausible"

(* _validate_api_key(), strict unless dummy keys are allowed.              *)
KeyAccepted ==
    /\ env.key.length # "none"
    /\ ~env.allow => /\ env.key.marks \cap ClientMarkers = {}
                     /\ env.key.length = "plausible"

CreateClients ==
    \/ /\ KeyAccepted
       /\ Passes("clients") /\ opened' = opened \cup {"clients"}
       /\ UNCHANGED <<warned, written, homes>>
    \/ ~KeyAccepted /\ Raises("clients")

(* The dispatcher checks its capacity itself: AppConfig does not.          *)
CreateDispatcher ==
    \/ /\ env.yaml # "no_capacity"
       /\ Passes("dispatcher") /\ UNCHANGED <<effects, homes>>
    \/ env.yaml = "no_capacity" /\ Raises("dispatcher")

(* MismatchTape(): its file may be out of reach.                           *)
StartTape ==
    \/ /\ Passes("tape")
       /\ written' = written \cup {TapeDir}
       /\ opened' = opened \cup {"tape"}
       /\ UNCHANGED <<warned, homes>>
    \/ Raises("tape")

(* dispatcher.start() and sweeper.start() create tasks and cannot fail.    *)
StartTask(task) ==
    /\ Passes(task)
    /\ opened' = opened \cup {task}
    /\ UNCHANGED <<warned, written, homes>>

(* requeue_all_unfinished(); its query may fail.                           *)
Requeue ==
    \/ /\ Passes("requeue")
       /\ homes' = homes \cup (IF OnDisk THEN {Resolved(env.dbPath)} ELSE {})
       /\ UNCHANGED effects
    \/ Raises("requeue")

BootStep ==
    \/ Override \/ Walk \/ Module
    \/ CheckSettings \/ Warn \/ LoadConfig \/ OpenStore \/ BuildRawStore
    \/ CreateClients \/ CreateDispatcher
    \/ StartTape \/ StartTask("workers") \/ StartTask("sweeper") \/ Requeue

Terminated == pc \in {"serving", "refused"} /\ UNCHANGED vars

Next == (\E w \in Walks : Relaunch(w)) \/ BootStep \/ Terminated

Spec == Init /\ [][Next]_vars

-----------------------------------------------------------------------------
(* "warn_on_suspicious_paths shouts if a writable path ends up under the   *)
(* install prefix": also for the tape, whose path is derived from another  *)
(* one, under every combination of stores.                                 *)
WritesAreWarned == written \cap Prefix \subseteq warned

(* A deployment that has not opted out never gets as far as the disk with  *)
(* a placeholder for a key or with half of its Spaces credentials.         *)
RefusedBeforeWriting ==
    (written # {} /\ ~env.allow) =>
        /\ env.key.marks \cap (SettingsMarkers \cup ClientMarkers) = {}
        /\ env.key.length = "plausible"
        /\ env.raw = "spaces" => env.spaces = SpacesCredentials

(* The key is judged twice, from two lists.  The second judgement takes    *)
(* down no deployment that the first one let through, but for the one that *)
(* has opted out of the first and set no key at all: "lets the server boot *)
(* without a valid DO key" holds of a dummy key, not of a missing one.     *)
ClientOverrulesOnlyNoKey ==
    pc = "refused" /\ by = "clients" => env.allow /\ env.key.length = "none"

(* Nothing checks its configuration once background tasks run: after that  *)
(* only the startup query can fail, and abandon them.                      *)
TasksStartLast == pc = "refused" /\ opened \cap Tasks # {} => by = "requeue"

(* As long as launches find the same .env file they open one database,     *)
(* whichever directory each of them was launched from.                     *)
OneDatabasePerEnvFile ==
    Cardinality(loaded) = 1 /\ None \notin loaded => Cardinality(homes) <= 1

=============================================================================
