---------------------------- MODULE Configuration ----------------------------
(***************************************************************************)
(* The settings (core/config.py), what the migrations make of them         *)
(* (alembic/env.py) and what the object storage client does               *)
(* (services/storage.py).  Every process reads the environment when it     *)
(* starts, refuses to start on settings that do not validate, and keeps    *)
(* them (lru_cache) while the environment may be edited.  In production    *)
(* compose starts app and worker after "alembic upgrade head" has ended    *)
(* well; in development they are started by hand.                          *)
(*                                                                         *)
(* config.py compares the name of the environment in lower case, env.py as *)
(* it is written.                                                          *)
(***************************************************************************)
EXTENDS FiniteSets

CONSTANTS
  Names,          \* the values that ENVIRONMENT may be given
  Lower,          \* [Names -> Names], str.lower
  Processes       \* app and worker

Endpoint == "R2_ENDPOINT_URL"
PublicBase == "R2_PUBLIC_BASE_URL"

\* One name stands for the bucket, the access key and its secret.
R2 == {Endpoint, "R2_BUCKET", PublicBase}
Urls == {Endpoint, PublicBase}

ASSUME NamesAssumption ==
  /\ Lower \in [Names -> Names]
  /\ \A n \in Names \cap {"dev", "development", "staging", "production", "test"} : Lower[n] = n

\* A value is missing (or empty), malformed, which only a URL can be, or good;
\* an endpoint is unusable when it is no malformed URL to config.py and boto3
\* does not take it.
Values == {"missing", "malformed", "unusable", "good"}

Environments ==
  {e \in [environment : Names, r2 : [R2 -> Values], testDatabase : BOOLEAN] :
     /\ \A n \in R2 \ Urls : e.r2[n] # "malformed"
     /\ \A n \in R2 \ {Endpoint} : e.r2[n] # "unusable"}

VARIABLES
  env,            \* the environment that a process started now would read
  alive,          \* the processes that run
  settings,       \* what each has read when it was started
  composed        \* those that compose has started

settingsVars == <<env, alive, settings, composed>>

SettingsTypeOK ==
  /\ env \in Environments
  /\ composed \subseteq alive /\ alive \subseteq Processes
  /\ settings \in [Processes -> Environments]

SettingsInit ==
  /\ env \in Environments
  /\ alive = {} /\ settings = [p \in Processes |-> env]
  /\ composed = {}

-----------------------------------------------------------------------------
Deployed(e) == Lower[e.environment] \in {"staging", "production"}
Missing(e) == {n \in R2 : e.r2[n] = "missing"}

\* Mutant: only a deployed environment is asked for all of it.
ValidWhenDeployed(e) ==
  /\ Deployed(e) => Missing(e) = {}
  /\ \A n \in Urls : e.r2[n] # "malformed"

\* validate_r2_configuration: all of it or nothing, and all of it when deployed.
Valid(e) ==
  /\ Deployed(e) => Missing(e) = {}
  /\ Missing(e) \in {{}, R2}
  /\ \A n \in Urls : e.r2[n] # "malformed"

\* Mutant: anything that is not "test" is migrated as the primary database.
TargetsOrPrimary(e) ==
  IF e.environment = "test"
  THEN IF e.testDatabase THEN {"test"} ELSE {}
  ELSE {"primary"}

\* resolve_database_url: the database that migrations run on, none if it raises.
Targets(e) ==
  IF e.environment = "test"
  THEN IF e.testDatabase THEN {"test"} ELSE {}
  ELSE IF e.environment \in {"dev", "development", "staging", "production"}
       THEN {"primary"} ELSE {}

\* _get_r2_config, and boto3, which takes neither a malformed nor an unusable
\* endpoint.
Stores(e) == e.r2[Endpoint] = "good" /\ Missing(e) \subseteq {PublicBase}

\* get_public_url.
Shows(e) == e.r2[PublicBase] # "missing"

-----------------------------------------------------------------------------
\* What a process that does not run will read is what the environment says.
EditEnvironment ==
  /\ env' \in Environments
  /\ settings' = [p \in Processes |-> IF p \in alive THEN settings[p] ELSE env']
  /\ UNCHANGED <<alive, composed>>

StartByHand(p) ==
  /\ p \notin alive
  /\ Valid(env)
  /\ alive' = alive \cup {p}
  /\ UNCHANGED <<env, settings, composed>>

\* "docker compose up": migrate, then the processes asked for, recreated when
\* they are running already, or some of them only.
ComposeUp ==
  /\ Valid(env)
  /\ Targets(env) # {}
  /\ \E started \in SUBSET Processes :
       /\ settings' = [p \in Processes |-> IF p \in started THEN env ELSE settings[p]]
       /\ alive' = alive \cup started
       /\ composed' = composed \cup started
  /\ UNCHANGED env

\* A container that has stopped and is started again has the environment it was
\* created with, so that only processes started by hand come to an end.
Stop(p) ==
  /\ p \in alive \ composed
  /\ alive' = alive \ {p}
  /\ settings' = [settings EXCEPT ![p] = env]
  /\ UNCHANGED <<env, composed>>

SettingsNext ==
  \/ EditEnvironment \/ ComposeUp
  \/ \E p \in Processes : StartByHand(p) \/ Stop(p)

SettingsSpec == SettingsInit /\ [][SettingsNext]_settingsVars

-----------------------------------------------------------------------------
\* A process that runs can store and delete objects exactly when it can give
\* their URLs: no settings that validate let photos be uploaded that cannot be
\* shown, nor shown that cannot be deleted, unless by an endpoint that only
\* boto3 knows to be unusable.
WholeOrNothing ==
  \A p \in alive :
    /\ Stores(settings[p]) => Shows(settings[p])
    /\ Shows(settings[p]) => Stores(settings[p]) \/ settings[p].r2[Endpoint] = "unusable"

\* What compose starts either has the storage, or settings for the whole of it
\* of which the endpoint is unusable, or says that it is a development or test
\* environment.  A name misspelt, which config.py takes for one that may
\* do without, is stopped by the migration before it.
NoTypoLosesStorage ==
  \A p \in composed :
    \/ Stores(settings[p])
    \/ Missing(settings[p]) = {} /\ settings[p].r2[Endpoint] = "unusable"
    \/ settings[p].environment \in {"dev", "development", "test"}
=============================================================================
