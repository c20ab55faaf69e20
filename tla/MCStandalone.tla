---------------------------- MODULE MCStandalone -----------------------------
(***************************************************************************)
(* The components that share no state with any other: the database of a    *)
(* developer, who runs alembic by hand, the server that workflows deploy   *)
(* to, the settings of processes, and the checks of an uploaded file.  A   *)
(* behaviour is of one of them, chosen at its beginning, while the others  *)
(* stay where they are: their product would show nothing more.             *)
(***************************************************************************)
EXTENDS Deployment, Configuration, PhotoValidation

VARIABLE subject

allVars == <<subject, deploymentVars, settingsVars, validationVars>>

(***************************************************************************)
(* Four releases: the second and the fourth do not answer /health, the     *)
(* second and the third bring revisions.                                   *)
(***************************************************************************)
MCHead == <<4, 6, 7, 7>>

\* Names that are recognised, one in another case and one that nobody knows.
MCLower == [n \in Names |-> IF n = "Production" THEN "production" ELSE n]

(***************************************************************************)
(* Files at, below and above each limit, of which the one on pixels rules  *)
(* out a square with the longest sides, as in the code.                    *)
(***************************************************************************)
Sides == {<<1, 1>>, <<4, 3>>, <<3, 4>>, <<4, 4>>, <<5, 1>>, <<1, 5>>, <<7, 7>>}

MCFiles ==
  {[type |-> t, name |-> n, bytes |-> b, format |-> f, width |-> s[1], height |-> s[2],
    pillow |-> p, result |-> r] :
     t \in {"image/heif", "image/jpeg", "other"}, n \in {2, 3}, b \in {0, 1, 2, 3},
     f \in {"HEIF", "JPEG", "none", "other"}, s \in Sides,
     p \in {"sound", "unverified", "verify_raises", "undecodable", "decode_raises"},
     r \in {1, 2, 3}}

-----------------------------------------------------------------------------
\* No container is up where a developer works.
DeveloperInit ==
  /\ MigrationInit(0)
  /\ main = 1 /\ checkout = 1 /\ image = 1
  /\ running = [s \in Services |-> None]
  /\ step = [e \in Deploys |-> "idle"]
  /\ previous = [e \in Deploys |-> 1]

\* A component that is not the subject stays in one of its initial states.
OneEnvironment == CHOOSE e \in Environments : TRUE
OneFile == CHOOSE f \in Files : TRUE

StandaloneInit ==
  /\ subject \in {"developer", "server", "settings", "file"}
  /\ IF subject = "developer" THEN DeveloperInit ELSE DeploymentInit
  /\ subject \in {"settings", "file"} => schema = Created(Latest(version))
  /\ IF subject = "settings" THEN env \in Environments ELSE env = OneEnvironment
  /\ IF subject = "file" THEN file \in Files ELSE file = OneFile
  /\ SettingsInit /\ ValidationInit

Developer ==
  /\ subject = "developer"
  /\ \E r \in Runs \ Deploys : ByHand(r)
  /\ UNCHANGED <<deployVars, settingsVars, validationVars>>

Server ==
  /\ subject = "server"
  /\ DeploymentNext
  /\ UNCHANGED <<settingsVars, validationVars>>

Settings ==
  /\ subject = "settings"
  /\ SettingsNext
  /\ UNCHANGED <<deploymentVars, validationVars>>

Upload ==
  /\ subject = "file"
  /\ ValidationNext
  /\ UNCHANGED <<deploymentVars, settingsVars>>

StandaloneNext == (Developer \/ Server \/ Settings \/ Upload) /\ UNCHANGED subject

StandaloneSpec == StandaloneInit /\ [][StandaloneNext]_allVars
=============================================================================
