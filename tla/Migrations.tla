----------------------------- MODULE Migrations ------------------------------
(***************************************************************************)
(* The alembic migrations: a chain of seven revisions, each of which       *)
(* creates some objects of the database, and the commands that move a      *)
(* database along the chain, upgrade and downgrade.  A command runs all    *)
(* its revisions in one transaction (env.py), each followed by its record: *)
(* a statement that moves a row of alembic_version, an UPDATE of the row   *)
(* of the revision before or, for the first of the chain, an INSERT.       *)
(*                                                                         *)
(* Nothing keeps two commands from running at once.  They meet at the      *)
(* objects they create or drop and at the rows of alembic_version, where   *)
(* one waits for the other.  The first revision is open to a command that  *)
(* began when the table was empty, whatever has been committed since: it   *)
(* creates the extension if there is none and inserts its row beside any   *)
(* other.  alembic_version is therefore a set of rows.                     *)
(***************************************************************************)
EXTENDS Naturals, Sequences

CONSTANT Runs      \* alembic commands that may be under way at once

\* What upgrade() of each revision creates; indexes go with their tables.
AddExtensions == {"postgis"}                                        \* a9220af8ab24
InitialCraneTable == {"crane"}                                      \* 69af4f84e5fc
AddGoneReport == {"gone_report"}                                    \* ef1668582c31
AddCranePhoto == {"crane_photo", "crane_photo_status"}              \* 42da8c9cd521
CreateOutboxJob == {"outbox_job", "job_operation", "job_status"}    \* 89fe23b2ed7d
AddAdminAccounts == {"admin_user", "admin_token"}                   \* c781932ae015
AddPhotoReports == {"photo_report"}                                 \* d891a34b70f2

\* Revisions are numbered along the chain.
Creates == <<AddExtensions, InitialCraneTable, AddGoneReport, AddCranePhoto,
             CreateOutboxJob, AddAdminAccounts, AddPhotoReports>>

Types == {"crane_photo_status", "job_operation", "job_status"}

\* downgrade() drops the tables and not the enumeration types.
Drops == [k \in DOMAIN Creates |-> Creates[k] \ Types]

\* What the objects of a revision refer to outside it: foreign keys, and the
\* geometry column of crane.
Refers ==
  <<{}, {"postgis"}, {"crane"}, {"crane"}, {}, {}, {"crane_photo"}>>

Revisions == 1..Len(Creates)
Versions == 0..Len(Creates)
Created(v) == UNION {Creates[k] : k \in 1..v}
Objects == Created(Len(Creates))

VARIABLES
  schema,     \* the objects of the database
  version,    \* the rows of alembic_version, none for a database at base
  active,     \* the commands under way
  goal,       \* the revision each goes to, 0 for base
  heads,      \* the rows it believes there are: as it read them, and its own
  ran,        \* whether the next revision has run and is yet to be recorded
  made,       \* the objects it has created, not committed
  dropped,    \* and dropped
  locked,     \* the objects it has locked
  touched     \* the rows of alembic_version it has inserted, changed or deleted

commandVars == <<active, goal, heads, ran, made, dropped, locked, touched>>
migrationVars == <<schema, version, commandVars>>

MigrationTypeOK ==
  /\ schema \subseteq Objects /\ version \subseteq Revisions
  /\ active \subseteq Runs
  /\ goal \in [Runs -> Versions] /\ heads \in [Runs -> SUBSET Revisions]
  /\ ran \in [Runs -> BOOLEAN]
  /\ made \in [Runs -> SUBSET Objects] /\ dropped \in [Runs -> SUBSET Objects]
  /\ locked \in [Runs -> SUBSET Objects] /\ touched \in [Runs -> SUBSET Revisions]

\* The revision that is the last of some, or base where there are none.
Latest(rows) == CHOOSE v \in Versions : v \in rows \cup {0} /\ \A w \in rows : w <= v

\* The image of the database may come with the extension.
MigrationInit(v) ==
  /\ schema \in {Created(v), Created(v) \cup {"postgis"}}
  /\ version = {v} \ {0}
  /\ active = {}
  /\ goal = [r \in Runs |-> v] /\ heads = [r \in Runs |-> {}]
  /\ ran = [r \in Runs |-> FALSE]
  /\ made = [r \in Runs |-> {}] /\ dropped = [r \in Runs |-> {}]
  /\ locked = [r \in Runs |-> {}] /\ touched = [r \in Runs |-> {}]

-----------------------------------------------------------------------------
\* What a statement of the command sees of the objects and of the rows, each of
\* which is committed or its own.
Seen(r) == (schema \ dropped[r]) \cup made[r]
Rows(r) == (version \ touched[r]) \cup (heads[r] \cap touched[r])

At(r) == Latest(heads[r])

\* The objects, or the rows, that a statement waits for.
Free(r, things) == \A s \in Runs \ {r} : locked[s] \cap things = {}
FreeRows(r, rows) == \A s \in Runs \ {r} : touched[s] \cap rows = {}

\* What a revision that changes some objects locks.  A table is not kept from
\* losing the extension its columns are of, nor the extension locked for it.
Holds(k, changed) == changed \cup (Refers[k] \ {"postgis"})

EndCommand(r) ==
  /\ active' = active \ {r}
  /\ heads' = [heads EXCEPT ![r] = {}] /\ ran' = [ran EXCEPT ![r] = FALSE]
  /\ made' = [made EXCEPT ![r] = {}] /\ dropped' = [dropped EXCEPT ![r] = {}]
  /\ locked' = [locked EXCEPT ![r] = {}] /\ touched' = [touched EXCEPT ![r] = {}]

\* The command reads alembic_version, and with it the revisions it has to run.
Begin(r, v) ==
  /\ r \notin active
  /\ active' = active \cup {r}
  /\ goal' = [goal EXCEPT ![r] = v]
  /\ heads' = [heads EXCEPT ![r] = version]
  /\ UNCHANGED <<schema, version, ran, made, dropped, locked, touched>>

\* upgrade() of the next revision.  CREATE EXTENSION alone is written IF NOT
\* EXISTS.  alembic does not upgrade from two rows of one chain.
Upgrade(r) ==
  /\ r \in active /\ ~ran[r]
  /\ At(r) < goal[r] /\ heads[r] \subseteq {At(r)}
  /\ LET k == At(r) + 1
         new == Creates[k] \ Seen(r)
     IN /\ Free(r, Holds(k, new))
        /\ Refers[k] \subseteq Seen(r)
        /\ Creates[k] \ new \subseteq {"postgis"}
        /\ made' = [made EXCEPT ![r] = @ \cup new]
        /\ locked' = [locked EXCEPT ![r] = @ \cup Holds(k, new)]
  /\ ran' = [ran EXCEPT ![r] = TRUE]
  /\ UNCHANGED <<schema, version, active, goal, heads, dropped, touched>>

\* downgrade() of the revision it is at, which fails while another object
\* refers to one of those it drops.  DROP EXTENSION alone is written IF EXISTS.
Downgrade(r) ==
  /\ r \in active /\ ~ran[r]
  /\ goal[r] < At(r)
  /\ LET k == At(r)
         old == Drops[k] \cap Seen(r)
     IN /\ Free(r, Holds(k, old))
        /\ Drops[k] \ old \subseteq {"postgis"}
        /\ \A j \in DOMAIN Creates :
             Refers[j] \cap old # {} => Drops[j] \cap Seen(r) = {}
        /\ dropped' = [dropped EXCEPT ![r] = @ \cup old]
        /\ locked' = [locked EXCEPT ![r] = @ \cup Holds(k, old)]
  /\ ran' = [ran EXCEPT ![r] = TRUE]
  /\ UNCHANGED <<schema, version, active, goal, heads, made, touched>>

\* Mutant: the row is written, and not looked for.
MoveUnmatched(r, old, new) ==
  /\ FreeRows(r, old \cup new)
  /\ new \cap Rows(r) = {}
  /\ heads' = [heads EXCEPT ![r] = (@ \ old) \cup new]
  /\ touched' = [touched EXCEPT ![r] = @ \cup old \cup new]
  /\ ran' = [ran EXCEPT ![r] = FALSE]
  /\ UNCHANGED <<schema, version, active, goal, made, dropped, locked>>

\* The statement on alembic_version, which has to find the rows it changes or
\* deletes; the column is its primary key.
Move(r, old, new) ==
  /\ FreeRows(r, old \cup new)
  /\ old \subseteq Rows(r)
  /\ new \cap Rows(r) = {}
  /\ heads' = [heads EXCEPT ![r] = (@ \ old) \cup new]
  /\ touched' = [touched EXCEPT ![r] = @ \cup old \cup new]
  /\ ran' = [ran EXCEPT ![r] = FALSE]
  /\ UNCHANGED <<schema, version, active, goal, made, dropped, locked>>

\* An UPDATE of the row of the revision before, or the INSERT of the first one.
RecordUpgrade(r) ==
  /\ r \in active /\ ran[r]
  /\ At(r) < goal[r]
  /\ Move(r, {At(r)} \ {0}, {At(r) + 1})

\* The UPDATE back, or a DELETE where no revision is left or the one before has
\* a row already.
RecordDowngrade(r) ==
  /\ r \in active /\ ran[r]
  /\ goal[r] < At(r)
  /\ Move(r, {At(r)}, {At(r) - 1} \ ({0} \cup heads[r]))

Record(r) == RecordUpgrade(r) \/ RecordDowngrade(r)

\* Mutant: a transaction for each revision.
CommitEach(r) ==
  /\ r \in active /\ ~ran[r]
  /\ schema' = Seen(r)
  /\ version' = Rows(r)
  /\ EndCommand(r)
  /\ UNCHANGED goal

Commit(r) ==
  /\ r \in active /\ ~ran[r]
  /\ At(r) = goal[r]
  /\ schema' = Seen(r)
  /\ version' = Rows(r)
  /\ EndCommand(r)
  /\ UNCHANGED goal

\* A statement fails, for what it finds or for any other reason, or the command
\* dies: the transaction is rolled back.
Abort(r) ==
  /\ r \in active
  /\ EndCommand(r)
  /\ UNCHANGED <<schema, version, goal>>

Command(r) == Upgrade(r) \/ Downgrade(r) \/ Record(r) \/ Commit(r) \/ Abort(r)

\* "alembic upgrade" and "alembic downgrade" as a developer gives them.
ByHand(r) == (\E v \in Versions : Begin(r, v)) \/ Command(r)

MigrationNext == \E r \in Runs : ByHand(r)

MigrationSpec == MigrationInit(0) /\ [][MigrationNext]_migrationVars

-----------------------------------------------------------------------------
\* The tables and types of the database are those that the last revision
\* recorded in it promises, but for types that a downgrade has left: no
\* interleaving of commands, and no failure in the middle of one, leaves them
\* to belong to no revision or to another.  Of the extension nothing is said:
\* commands that begin at base beside others can leave revisions recorded that
\* have lost it.
SchemaMatchesVersion ==
  /\ Created(Latest(version)) \subseteq schema \cup {"postgis"}
  /\ schema \subseteq Created(Latest(version)) \cup Types \cup {"postgis"}

\* The database changes when a command ends well, tables and record together,
\* and the record by the revision it was to go to, with none of those between;
\* one that fails has changed nothing.
AllOrNothing ==
  [][<<schema, version>>' # <<schema, version>> =>
       /\ version' # version
       /\ \E r \in Runs : /\ r \in active /\ r \notin active'
                        /\ version' \ version \subseteq {goal[r]}]_migrationVars
=============================================================================
