----------------------------- MODULE Deployment ------------------------------
(***************************************************************************)
(* The deployment workflow (.github/workflows/deploy.yml) and the services *)
(* of docker-compose.prod.yml that it brings up.  It notes the commit that *)
(* is checked out on the server, pulls, builds, migrates, brings app and   *)
(* worker up and asks for /health; when a step fails it checks the noted   *)
(* commit out again and brings app up.                                     *)
(*                                                                         *)
(* app and worker depend on the service migrate ("alembic upgrade head")   *)
(* having ended well.  "docker compose up" of either first removes its     *)
(* container if that is not of the image just built, then runs migrate     *)
(* with the new code, and starts the new container when migrate has ended  *)
(* well: where it fails the service is down.  alembic refuses a database   *)
(* whose version its code does not know.                                   *)
(***************************************************************************)
EXTENDS Migrations, FiniteSets

CONSTANTS
  Deploys,        \* workflows, each with the alembic commands it runs
  LastRelease,    \* releases are numbered from 1 in the order they are pushed
  HeadOf,         \* the last revision each release has
  Unhealthy       \* the releases whose app does not answer /health

Releases == 1..LastRelease
Services == {"app", "worker"}
None == 0         \* what a service runs where it is not up

ASSUME HeadAssumption ==
  /\ Deploys \subseteq Runs
  /\ LastRelease \in Nat \ {0}
  /\ HeadOf \in [Releases -> Versions \ {0}]
  /\ \A r, s \in Releases : r <= s => HeadOf[r] <= HeadOf[s]
  /\ Unhealthy \subseteq Releases \ {1}

VARIABLES
  main,           \* the last release pushed
  checkout,       \* the release checked out on the server
  image,          \* the release the images are built from
  running,        \* the release each service runs
  step,           \* the step each workflow is at, or how it ended
  previous        \* the release it has noted

deployVars == <<main, checkout, image, running, step, previous>>
deploymentVars == <<deployVars, migrationVars>>

\* "deployed", "rolled_back": the last health check passed; "refused": the
\* rollback could not bring app up, alembic not knowing the version;
\* "failed": the rollback or what came before it failed for another reason.
Ends == {"idle", "deployed", "rolled_back", "refused", "failed"}
DeploySteps == {"pull", "build", "migrate", "up", "depend", "start", "health"}
RollbackSteps ==
  {"reset", "rollback_up", "rollback_depend", "rollback_start", "rollback_health"}

\* The steps in which alembic runs: "docker compose run migrate", and the
\* dependency of the services that "up" is to start.
MigrateSteps == {"migrate", "depend", "rollback_depend"}

DeploymentTypeOK ==
  /\ MigrationTypeOK
  /\ main \in Releases /\ checkout \in Releases /\ image \in Releases
  /\ running \in [Services -> Releases \cup {None}]
  /\ step \in [Deploys -> Ends \cup {"record"} \cup DeploySteps \cup RollbackSteps]
  /\ previous \in [Deploys -> Releases]

\* The first release is deployed.
DeploymentInit ==
  /\ MigrationInit(HeadOf[1])
  /\ main = 1 /\ checkout = 1 /\ image = 1
  /\ running = [s \in Services |-> 1]
  /\ step = [e \in Deploys |-> "idle"]
  /\ previous = [e \in Deploys |-> 1]

-----------------------------------------------------------------------------
Goto(e, s) == step' = [step EXCEPT ![e] = s]

\* A push, or somebody who starts the workflow by hand.
Trigger(e) ==
  /\ step[e] \in Ends
  /\ main' \in {main, main + 1} \cap Releases
  /\ Goto(e, "record")
  /\ UNCHANGED <<checkout, image, running, previous, migrationVars>>

RecordPrevious(e) ==
  /\ step[e] = "record"
  /\ previous' = [previous EXCEPT ![e] = checkout]
  /\ Goto(e, "pull")
  /\ UNCHANGED <<main, checkout, image, running, migrationVars>>

Pull(e) ==
  /\ step[e] = "pull"
  /\ checkout' = main
  /\ Goto(e, "build")
  /\ UNCHANGED <<main, image, running, previous, migrationVars>>

Build(e) ==
  /\ step[e] = "build"
  /\ image' = checkout
  /\ Goto(e, "migrate")
  /\ UNCHANGED <<main, checkout, running, previous, migrationVars>>

\* "alembic upgrade head" with the code of the images.
StartMigrate(e) ==
  /\ step[e] \in MigrateSteps
  /\ Latest(version) <= HeadOf[image]
  /\ Begin(e, HeadOf[image])
  /\ UNCHANGED deployVars

Migrating(e) ==
  /\ Upgrade(e) \/ Record(e)
  /\ UNCHANGED deployVars

Migrated(e) ==
  /\ Commit(e)
  /\ Goto(e, CASE step[e] = "migrate" -> "up"
               [] step[e] = "depend" -> "start"
               [] step[e] = "rollback_depend" -> "rollback_start")
  /\ UNCHANGED <<main, checkout, image, running, previous>>

\* "up" of app and worker: their containers are stopped and removed, unless they
\* are of the image just built; only some of them when it fails.
Up(e) ==
  /\ step[e] = "up"
  /\ LET old == {s \in Services : running[s] \notin {None, image}}
     IN \E removed \in SUBSET old :
          /\ running' = [s \in Services |-> IF s \in removed THEN None ELSE running[s]]
          /\ Goto(e, IF removed = old THEN "depend" ELSE "reset")
  /\ UNCHANGED <<main, checkout, image, previous, migrationVars>>

\* Mutant: "up" without the dependency on migrate, and no step of its own.
StartUnmigrated(e) ==
  /\ step[e] \in {"migrate", "up", "depend", "start"}
  /\ running' = [s \in Services |-> image]
  /\ Goto(e, "health")
  /\ UNCHANGED <<main, checkout, image, previous, migrationVars>>

\* Their containers of the image are started, or only some of them.
Start(e) ==
  /\ step[e] = "start"
  /\ \E started \in SUBSET Services :
       /\ running' = [s \in Services |-> IF s \in started THEN image ELSE running[s]]
       /\ Goto(e, IF started = Services THEN "health" ELSE "reset")
  /\ UNCHANGED <<main, checkout, image, previous, migrationVars>>

\* /health says nothing of the database, nor of the worker.
HealthCheck(e) ==
  /\ step[e] \in {"health", "rollback_health"}
  /\ running["app"] \notin Unhealthy \cup {None}
  /\ Goto(e, IF step[e] = "health" THEN "deployed" ELSE "rolled_back")
  /\ UNCHANGED <<main, checkout, image, running, previous, migrationVars>>

HealthTimeout(e) ==
  /\ step[e] \in {"health", "rollback_health"}
  /\ running["app"] \in Unhealthy \cup {None}
  /\ Goto(e, IF step[e] = "health" THEN "reset" ELSE "failed")
  /\ UNCHANGED <<main, checkout, image, running, previous, migrationVars>>

\* git reset --hard to the noted commit; "up --build" builds it.
Reset(e) ==
  /\ step[e] = "reset"
  /\ checkout' = previous[e] /\ image' = previous[e]
  /\ Goto(e, "rollback_up")
  /\ UNCHANGED <<main, running, previous, migrationVars>>

\* "up ... app": the worker is left as it is.
RollbackUp(e) ==
  /\ step[e] = "rollback_up"
  /\ running' = [running EXCEPT !["app"] = IF @ = image THEN image ELSE None]
  /\ Goto(e, "rollback_depend")
  /\ UNCHANGED <<main, checkout, image, previous, migrationVars>>

RollbackStart(e) ==
  /\ step[e] = "rollback_start"
  /\ running' = [running EXCEPT !["app"] = image]
  /\ Goto(e, "rollback_health")
  /\ UNCHANGED <<main, checkout, image, previous, migrationVars>>

\* The code just built does not have the version of the database: "Can't locate
\* revision".
VersionUnknown(e) ==
  /\ step[e] \in MigrateSteps
  /\ e \notin active
  /\ Latest(version) > HeadOf[image]
  /\ Goto(e, IF step[e] = "rollback_depend" THEN "refused" ELSE "reset")
  /\ UNCHANGED <<main, checkout, image, running, previous, migrationVars>>

\* Any step can fail for reasons of its own, a migration among them.
StepFails(e) ==
  /\ step[e] \notin Ends
  /\ Goto(e, IF step[e] \in DeploySteps THEN "reset" ELSE "failed")
  /\ IF e \in active THEN Abort(e) ELSE UNCHANGED migrationVars
  /\ UNCHANGED <<main, checkout, image, running, previous>>

DeploymentNext ==
  \E e \in Deploys :
    \/ Trigger(e) \/ RecordPrevious(e) \/ Pull(e) \/ Build(e)
    \/ StartMigrate(e) \/ Migrating(e) \/ Migrated(e) \/ VersionUnknown(e)
    \/ Up(e) \/ Start(e) \/ HealthCheck(e) \/ HealthTimeout(e)
    \/ Reset(e) \/ RollbackUp(e) \/ RollbackStart(e) \/ StepFails(e)

DeploymentSpec == DeploymentInit /\ [][DeploymentNext]_deploymentVars

-----------------------------------------------------------------------------
\* No service ever runs code whose revisions the database does not have,
\* whichever step of a deployment or of a rollback fails.
CodeHasItsSchema ==
  \A s \in Services : running[s] # None => Created(HeadOf[running[s]]) \subseteq schema

\* "... rebuilds, runs migrations, restarts the app, and health-checks - rolling
\* back on failure" (README): when nothing but the release is at fault, the app
\* that runs in the end is the one the workflow found.
UnhealthyIsRolledBack ==
  \A e \in Deploys : step[e] = "refused" => running["app"] = previous[e]
=============================================================================
