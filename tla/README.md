# Verification of crane_tracker

TLA+ models of the crane_tracker backend (`src/app`), TLC runs that check them
on small instances and TLAPS proofs that hold for every value of the constants.
Paths below are relative to `src/`.

## 1. The system

FastAPI handlers and one background worker share a PostgreSQL database and a
Cloudflare R2 bucket. Handlers run in a thread pool, each with its own session;
the worker is a process of its own. They exchange nothing but rows and objects:
a handler leaves work in table `outbox_job`, the worker picks it up.

| component | state it keeps | operations | interacts with |
|---|---|---|---|
| photo upload (`routes/crane.py`, `services/photo.py`) | `crane_photo.status` | `upload_crane_photo`: preupload, put, finalize, abandon | crane row lock, bucket, outbox |
| photo worker (`worker/`) | `outbox_job` (status, attempts, available_at, lease_expires_at), shutdown event | `claim_jobs`, `delete_photo`, `capture_success/failure`, `run_reap_crane_photos` | photo rows, bucket |
| admin photo deletion (`routes/crane.py:220`) | `crane_photo.status` | `delete_crane_photo` | photo row lock, outbox |
| object storage client (`services/storage.py`) | objects in the bucket | `upload_photo`, `delete_photo`, `get_public_url` | R2 |
| gone reports (`services/crane.py:207`) | `gone_report`, `crane.status` | `report_crane_as_gone` | crane row lock |
| crane creation (`services/crane.py:45`, `services/geocode.py`) | `crane` | `create_crane` | geocoder over HTTP |
| crane queries (`services/crane.py`) | none | `get_crane`, `get_cranes` | `crane`, `crane_photo` |
| crane deletion (`services/crane.py:109`) | `crane` | `delete_crane` (no route calls it) | bucket, photo rows by cascade |
| photo validation (`services/photo.py:55`) | the file's position | `prepare_image` and the checks before it | the put of a photo upload |
| photo reports and review (`services/photo.py:304`) | `photo_report` | `report_crane_photo`, `get_crane_photos` | photo row lock |
| admin authentication (`services/auth.py`, `admin.py`) | `admin_user`, `admin_token` | provisioning, login, logout, `get_admin` | every admin route |
| settings (`core/config.py`) | a cached `Settings` per process | validation, `get_settings` | storage client, migrations |
| migrations (`alembic/`) | the schema, `alembic_version` | upgrade, downgrade, `resolve_database_url` | every table |
| deployment (`.github/workflows/deploy.yml`, `docker-compose.prod.yml`) | the checkout, images and containers on the server | deploy, health check, rollback | migrations |
| rate limiter, exceptions, logging, wiring | in memory or none | | all |

What is hard in it:

- **Concurrency.** Handlers for one crane count and insert together; the
  reaper, the worker, an admin and the uploader all act on one photo row. The
  defence is a mixture of `FOR UPDATE`, `SKIP LOCKED`, a conditional `UPDATE`
  and, in `abandon_crane_photo_upload`, a read without any lock.
- **Failure.** Every transaction can fail, and a commit can succeed and still
  raise. A put or a delete can take effect and lose its answer. The web server
  and the worker can die between any two steps.
- **Time.** The reaper's window (5 s), the back-off and the lease (300 s) are
  compared with the database clock and bound nothing that the other side does.
- **Releases.** Migrations run while the containers of the former release are up, and a
  rollback runs older code on a newer schema.
- **Retries.** Jobs are retried on failure and taken over when a lease expires.

What makes each component correct:

| component | property |
|---|---|
| photo upload | a crane never has more live photos than allowed; a published photo has its object; every request is answered |
| photo worker | no row marked for deletion is forgotten; a job that is being processed can always be taken over; retries stop at the limit; completed jobs stay completed |
| admin deletion | only an admin takes a published photo down, and adds one job for it |
| storage | an upload that did not succeed leaves no object behind |
| gone reports | a crane is gone exactly when enough different reporters said so |
| crane creation | no two cranes within 100 m unless the client overrides the warning |
| photo review | paging skips no photo that stays |
| crane queries | a list that is not said to be cut is whole; only active photos are shown |
| crane deletion | no photo row outlives its crane; only uploads under way can leave an object |
| photo validation | what is stored is whole and within the limits; a refusal has the reason of its status |
| admin authentication | a revoked, expired or blocked session admits no new request; a session ends only so |
| settings | a process has all of the storage or none; a misspelt environment name does not get into production |
| migrations | tables and types are those of the last recorded revision, whatever fails or overlaps |
| deployment | no service runs on a schema that lacks its revisions |

`PROJECT.json` lists the hazards at their source lines with the properties that
watch over them.

## 2. Modules

| module | models |
|---|---|
| `PhotoStore` | the rows, jobs, objects and row locks everyone shares; `CreateDeleteJobs`, `Selections` |
| `PhotoUpload` | one action per step of an upload request (`upc` is its place in the handler) |
| `PhotoWorker` | one action per step of a worker (`wpc`), its process life included |
| `PhotoSystem` | the two together, admin deletions, the clock, the properties, `Inv`, fairness |
| `PhotoSystemProofs` | theorems about `PhotoSystem` |
| `PhotoCatalog` | the life cycle of photos as readers of `crane_photo` may rely on it |
| `PhotoReview` | photo reports and an admin's review, beside any life cycle that `PhotoCatalog` allows |
| `PhotoReviewProofs` | theorems about `PhotoReview` |
| `GoneReports` | gone reports, properties and `Inv` |
| `GoneReportsProofs` | theorems about `GoneReports` |
| `CraneCreation` | the duplicate check, the geocoder and the insert, properties and `Inv` |
| `CraneCreationProofs` | theorems about `CraneCreation` |
| `AdminSessions` | sessions as a client and an operator may rely on them |
| `AdminAuth` | accounts, tokens and the handlers that use them, properties, `Inv`, fairness |
| `AdminAuthProofs` | theorems about `AdminAuth` |
| `CraneDeletion` | `delete_crane` beside everything in `PhotoSystem` |
| `CraneDeletionProofs` | theorems about `CraneDeletion` |
| `CraneQueries` | `get_crane` and `get_cranes` while cranes and photos come and go |
| `CraneQueriesProofs` | theorems about `CraneQueries` |
| `PhotoValidation` | the checks of an uploaded file, which `PhotoUpload` has as one outcome |
| `Configuration` | the settings of processes and of the migrations |
| `Migrations` | the seven revisions and the commands that run them |
| `Deployment` | the deployment workflow, on top of `Migrations` |
| `StandaloneProofs` | theorems about the four modules above |
| `MCPhotoSystem`, `MCGoneReports`, `MCPhotoReview`, `MCCraneCreation`, `MCAdminAuth`, `MCCraneDeletion`, `MCCraneQueries`, `MCDeployment` | instances for TLC |
| `MCStandalone` | the instances of `Migrations`, `Deployment`, `Configuration` and `PhotoValidation` |

`MCStandalone` puts the components that share no state with others into one instance. A
behaviour belongs to one of them, chosen at its beginning; the variables of the others stay as they
are. Since no action of one reads a variable of another, a property of one holds in all
interleavings if and only if it holds so, and the union is checked instead of the product.

`AdminSessions` is the abstract specification of authentication: sessions are opened, admit requests
while their account is enabled and their deadline has not come, and are closed. `AdminAuth`
implements it (`ImplementsSessions`): a session is live while its row in `admin_token` would let a
request in, so the expiry needs no step and the sweep of a login is a stutter.

`CraneDeletion` adds one transaction to `PhotoSystem` and takes all its actions unchanged, but
for the wait on the lock of the crane's row. `Deployment` drives the commands of `Migrations`.

`PhotoCatalog` is the abstract specification between the writers of photos and their
readers. `PhotoSystem` implements it (`ImplementsCatalog`; the mapping
`CatalogState` reads a photo's stage off its row and the place of its
request), and `PhotoReview` takes its actions as the environment of reports and reviews.
So what the review relies on is what the detailed system does. `PhotoSystem` knows no reporters:
their row locks only delay a withdrawal, which `WithdrawUnlocked` says in `PhotoReview`.

### State and actions against the code

`photo[u]` is the status column of the row of upload `u`, or `"absent"`. An
upload inserts at most one row, with a fresh uuid7 and a storage key derived
from it, so request, row and key are one identity. `jobs` is the `outbox_job`
table with the columns some condition reads; `objects` the bucket; `photoLock`
and `craneLock` the row locks of open transactions.

| transaction | actions |
|---|---|
| `preupload_crane_photo` | `RejectInvalid`, `CraneNotFound`, `LockCrane`, `LimitExceeded`, `BelowLimit`, `InsertPhoto`, `PreuploadDbError` |
| the put | `StoreObject`, `StoreObjectFails` |
| `finalize_crane_photo` | `Finalize`, `FinalizeRace`, `CommitActive`, `FinalizeDbError` |
| `_abandon_helper` | `AbandonRead`, `AbandonFlush`, `AbandonCommit`, `AbandonDbError` |
| `claim_jobs` | `Claim`, `ClaimDbError` |
| `run_delete_batch` | `DeleteObject`, `DeleteObjectFails`, `LoadJob`, `CaptureSuccess`, `CaptureFailure`, `RecordDbError`, `EndBatch` |
| `run_reap_crane_photos` | `ReapSelect`, `ReapCommit`, `ReapDbError` |
| `worker/main.py` | `Signal`, `Exit`, `Crash`, `Restart` |
| `delete_crane_photo` | `AdminSelect`, `AdminCommit`, `AdminFails` |
| the clock | `WindowElapses`, `BackoffElapses`, `LeaseExpires` |

Decisions a reader should know:

- **READ COMMITTED.** Writes appear at the commit. A transaction is split where
  another can come between its statements and it matters: after a lock is
  taken, between `abandon`'s read and its write, between a job's read and its
  write. `claim_jobs` is one action, because it locks what it selects and
  reads nothing else.
- **Commits in doubt.** A commit that raises may have taken effect.
  `PreuploadDbError`, `FinalizeDbError` and `ClaimDbError` have both outcomes.
  For the other commits the outcome "done, and raised" reaches the state that
  the success reaches (the handler and the worker go on alike), so the success
  action stands for it.
- **The ORM writes changed columns only.** `capture_success` and
  `capture_failure` read a job without a lock; the `UPDATE` names the columns
  whose new value differs from the one read. `FlushColumn` says so. It matters
  when a lease expired and another worker wrote the row in between.
- **Clocks** are compared with `now()` and with nothing else: `overdue`,
  `available` and `lease` hold what the comparison can say. The row of a request in
  `SlowUploads` may become overdue while the request is still at work, as in the code;
  the others end within the window. The proofs are for any set of them.
- **`ORDER BY ... LIMIT`.** `Selections` leaves the order open, because the columns
  ordered by are transaction start times and say nothing about commit order.
- **A server that dies** is `RequestDies` for each request on its own: every
  subset of requests can die, so a common crash is among the behaviours.
- **Outside `src/`**: row locks and the ORM's unit of work are modelled from how the
  code uses them and marked external.

In `PhotoReview` a photo is its place in the order of the uuid7 ids. A page is two statements,
`GetCranePhotos` (the rows) and `GetPhotoReportCounts` (their counts), each of which sees
what is committed when it runs; the client returns the last id it was shown as the
cursor. `LockPhoto` to `CommitReport` are the statements of one report. `watched` is a history
variable: the photos that were there to be reviewed ever since the review began.

In `CraneCreation` a request stands for its location, and `Near` for the comparison
`ST_DWithin` makes; a request waits at `geocode` as long as the geocoder takes. `Serial` says
how clients behave: requests for near locations come one after another, or at will.

In `GoneReports`, `LockCrane`, `InsertReport`/`DuplicateReport`, `CountReports` and
`Commit` are the statements of one transaction; `Fails` is any error, with a
commit in doubt.

In `AdminAuth` a handler is at `verify` while scrypt works, at `sweep` before the `DELETE` of
expired tokens and at `login_commit` before the commit; `work` and `sign_out` come after
`require_admin`. The sweep deletes one row after another, in an order that nothing fixes (`SweepRow`,
`LoginSweep` when none is left). `doomed` are the rows its open transaction has deleted, for which another
`DELETE` waits; handlers that wait for each other are noticed by the database, which fails one of them
(`BreakDeadlock`). `Stale` are expired tokens of other accounts that the sweeps find. An account remembers the operator whose password it has, and tokens are never drawn
twice. `revoked` and `inFlight` are history variables.

In `CraneDeletion` objects are deleted one by one, each with or without an error, then the rows
that were read, one by one as well (`DeletePhotoRow`), then the crane, which takes the rows that came later
by `ON DELETE CASCADE`; each waits for the locks it meets. `targeted` and `late` are history variables.

In `CraneQueries` the crane and its photos are read by two statements; `sometime` and `always` are
the photos that were active at some time, and all the time, since the request. Coordinates are
integers and a box is compared side by side, the sides included, as PostGIS does with an envelope.

In `PhotoValidation` a file is what the checks can tell apart of it. The position of each stream is
state, because every step reads on from where the one before left it. What Pillow makes of the content
includes errors that the code does not expect, which are answered with 500.

In `Configuration` a process has the settings of the moment it was started. `ComposeUp` is
`alembic upgrade head` followed by the start of some of the services. A URL can be malformed, or pass
`_is_valid_url` and be refused by boto3 (`unusable`), which then ends the process at its start. `Targets` is
`resolve_database_url`, which compares names as they are written, where `config.py` compares them
in lower case.

In `Migrations` a command is one transaction, as `env.py` has it. `version` is the set of rows of
`alembic_version`. A revision's own statements (`Upgrade`, `Downgrade`) and its record (`Move`) are separate
steps: the record is an `UPDATE` or a `DELETE` that has to find its row, but for the first revision of the
chain, which is recorded by an `INSERT` that looks for nothing. Two commands meet at the objects they
create, drop or refer to and at those rows. PostgreSQL does not keep the extension while another transaction
creates a table that uses it, so no lock on it is assumed.

In `Deployment` one step of the workflow is one action; every step can fail. `Up` and `RollbackUp` remove
old containers before `migrate` runs and start new ones only when it has completed, so a refused
migration leaves the service down.

## 3. Runs

| run | instance | question | states |
|---|---|---|---|
| `photo_safety` | 2 uploads, one of them slow, 1 place, 1 worker, 1 admin, batch 2, 2 attempts | `PhotoLimit`, `ActiveHasObject`, `CleanupIsQueued`, `PublishedDeletedOnce`, `RetryBudget`, `NoLeakedObject`, `CompletedIsFinal`, `OnlyAdminsUnpublish`, `ImplementsCatalog`, and `Inv` | 1.19M |
| `photo_two_workers` | 1 upload, 2 workers, 2 attempts | `ProcessingHasLease` | 379k |
| `photo_liveness` | 1 upload, 1 for a missing crane, 1 worker, fairness | `EveryUploadEnds`, `CleanupCompletes` | 10.9k |
| `photo_late_upload` | 1 slow upload | `RaceIsCleanedUp`: violated | |
| `gone_reports` | 5 reports, 3 addresses, threshold 2 | `GoneAtThreshold`, `OneReportEach` | 8.3k |
| `photo_review` | 3 photos, 3 reports, pages of 1 or 2 | `NothingSkipped`, `NewestFirst`, `ReportedHaveCounts`, `OneReportEach`, `ReportedWhileActive` | 571k |
| `crane_creation` | 4 requests on a street, neighbours one after another | `SerialRequestsDoNotDuplicate` | 1.1k |
| `admin_auth` | 1 account, 2 operators who provision it, 2 requests, 2 tokens and 2 stale ones, fairness | `RevokedStaysRevoked`, `BlockedButInFlight`, `CreatedIsTheirs`, `EndsOnlyByLogout`, `ImplementsSessions`, `EveryRequestEnds` | 176k |
| `crane_deletion` | 2 uploads for the crane, 1 worker, 1 admin, deletions that fail and are tried again | `NoRowWithoutCrane`, `OnlyLateUploadsLeak`, `OnlyDeletionBreaksPhotos` | 1.65M |
| `crane_queries` | 3 cranes, 2 photos, a box, its halves and one that is refused | `CompleteOrTruncated`, `HalvesMissNothing`, `ShownWereActive` | 1.5M |
| `standalone` | 2 alembic commands by hand; 4 releases; 5 environment names and all storage settings; files at every limit | `SchemaMatchesVersion`, `AllOrNothing`; `CodeHasItsSchema`; `WholeOrNothing`, `NoTypoLosesStorage`; `StoredIsSound`, `RefusedForItsReason` | 277k |
| `deployment_rollback` | 4 releases, 2 of them unhealthy, 2 with revisions | `UnhealthyIsRolledBack`: violated | |

What they show: whatever is interleaved, lost or crashes, the limit holds, a
published photo keeps its object until an admin deletes it, and a marked row
keeps a job. With one worker, retries stop at `MAX_ATTEMPTS` and a completed job
stays so; a request that ends within the window leaves no object that nobody will delete. A review
shows every photo that stays, each once, whatever comes and goes between two pages. A client that
waits for its former request to end, retries included, makes no duplicate crane. Two workers,
which the deployment does not run and `README.md:84` calls
untested, keep `Inv`, as the proof says of any number; they can exceed the retry limit and reopen a completed
job, which is why those two properties are checked with one worker.

Deleting a crane beside all that leaves no row of it, and leaves an object only of an upload that was
under way; a deletion that fails half way leaves listed photos without objects, and nothing else does.
Logins, logouts and sweeps end no session but their own. "Immediately blocks existing sessions"
(`README.md:143`) means that no new request is admitted: one that has passed `require_admin` ends
its work. The tables and types are always those of the last recorded revision, but for the types that a
downgrade leaves; the extension is not claimed (see section 4). No container, in any failed deployment or
rollback, runs on a schema that lacks its revisions. Deadlock is
checked in every run: a cycle of row locks that stops the whole system would be
found there, and one that stops a request by `EveryUploadEnds` and `EveryRequestEnds`.

### Bounds

- *Uploads*: two requests with room for one photo are the smallest instance in
  which the limit can be exceeded and one photo's handling can disturb
  another's. Requests for different cranes share only the job queue, which the
  batch of two exercises. `Strays` name a crane that does not exist.
- *Admins*: one. With one place one photo at most is published, and a second admin who waits for its
  row is the same admin coming back.
- *`BatchSize`*: one and two, against at most two rows to select, so both a full batch
  and one with room occur.
- *`MaxAttempts`*: two is the smallest with a retry. `AttemptCap` stops the counter:
  attempts are only compared with `MaxAttempts`, so values above it behave
  alike, and at the cap an attempt too many shows as a job that is tried again.
- *Jobs* need no bound: an upload's row is marked a bounded number of times.
- *Review*: three photos are the fewest for a page with a photo before, at and after the
  cursor; pages of one and two give a full page with more behind it, a full page that is the last
  and one that is not full. Two reports of one photo come from one address, the third is for
  another photo.
- *Creation*: a path of four, so that requests are near the next and not the one after;
  one of them overrides the warning.
- *SlowUploads*: one of the two, so that a slow request meets one in time. `NoLeakedObject` is
  claimed of the others: finding 1 is what happens to the slow one.
- *Sessions*: the clock has two readings and a token lives for one (`MaxTime`, `TTL`), which is
  before the deadline and at it, when a token is no longer good; two tokens give a live and an expired one, or two of one account;
  two handlers wait for each other's rows. Two stale rows are the fewest that two sweeps can lock in
  opposite orders: without `BreakDeadlock` TLC finds them waiting for ever. A second account adds no interaction: accounts share only
  the sweep, which looks at `expires_at` alone.
- *Deletion*: two uploads for the crane, so that one row is read and one comes later, in time both,
  with room for both.
- *Queries*: `Limit` 2 against three cranes; two cranes on the line between the halves, one at
  the corner; three answers (`MaxAnswers`), a box and its halves.
- *Deployment*: four releases with heads 4, 6, 7 and 7 (`MCHead`), the second and the fourth unhealthy:
  an unhealthy one with and one without a revision, and a healthy one after an unhealthy one. The
  migrations themselves are all seven.
- *Files*: limits of 2 bytes, 4 pixels on a side and 15 in all, 40 for a bomb, and sizes below, at and
  above each; as in the code the limit on pixels refuses a square of the longest sides.
- *Migrations*: two commands, each from and to any revision, both of which can begin at base.
- *Settings*: a recognised name of each kind, one in another case and one that nobody knows; every
  combination of missing, malformed, unusable and good storage settings; one process, since processes share only the environment.
- *Symmetry*: requests for one crane that are alike in their speed, workers and admins are
  interchangeable, as are photos of one crane in `crane_queries`; the runs with temporal properties that
  need fairness use none.

### Fairness

`FairSpec` assumes strong fairness of a handler's steps: a lock is granted to its waiter
when it comes free, again and again if need be. It does not assume that calls succeed:
which of the success steps is taken, or that the request dies instead, stays open. For the
worker it assumes strong fairness of each kind of step: a step that is tried for
ever succeeds sometimes. Errors, signals and crashes may come without end, but not
every single time; with a bucket that never deletes, jobs end as failed, which
`CleanupCompletes` allows. The second condition on `Claim` says that a worker with something to
claim is not always the one whose claim fails at that moment. The clock advances
(WF), and a container that exits is restarted
(`docker-compose.prod.yml:50`).

In `AdminAuth` a handler's steps are strongly fair, each handler by itself, since the waiters for a row queue
in PostgreSQL; and a deadlock is found and broken (WF on `BreakDeadlock`), as PostgreSQL does after
`deadlock_timeout`. Neither success nor the clock is assumed.

## 4. Findings

1. **The clean-up after an upload race never does anything.**
   `finalize_crane_photo` raises `PhotoUploadRaceError` only when the row has left
   `pending_upload`; `abandon_crane_photo_upload` acts only on a row that is
   `pending_upload`. When the put outlives the 5 s window and the worker completes
   the reaper's job before the put lands, the object stays in the bucket with
   neither row nor job. `tests/routes/test_crane_route.py:505` asserts that the row
   is then `PENDING_DELETE` and a job is pending; the test gets there by raising the error
   with the row still `pending_upload`. Run `photo_late_upload`.
2. **An unhealthy release with a migration is not rolled back.** `README.md:69-71` says that a
   deployment "rebuilds, runs migrations, restarts the app, and health-checks" and is "rolling back
   on failure". The rollback (`deploy.yml:71`) checks the former commit out and brings `app` up, which
   depends on `migrate` having completed (`docker-compose.prod.yml:43-45`). `migrate` now runs with code
   that does not have the recorded revision and fails. Compose has by then removed the app it was to
   replace, so neither release runs. Run `deployment_rollback`. After a rollback that works, the worker still runs the newer code.

Seen while modelling, and not the subject of a run:

- Two delete jobs for one photo: the reaper can mark the row between `abandon`'s unlocked read
  (`photo.py:270`) and its write, and both add a job, against the `len(delete_jobs) == 1` of
  `tests/services/test_photo_service.py:353` and `len(jobs) == 1` of
  `tests/workers/test_reaper_worker.py:189`. Harmless, as deleting twice is.
- Two requests at once can make a duplicate crane: `create_crane` looks for neighbours, waits for the
  geocoder and inserts (`crane.py:50-83`), with neither a lock nor a constraint between.
  With `Serial = FALSE` the model of `CraneCreation` breaks `NoUnwantedDuplicate`.
- `downgrade()` of `89fe23b2ed7d` (line 44) and of `42da8c9cd521` (53-55) drops the tables and
  leaves their enumeration types, on which a later upgrade fails. `SchemaMatchesVersion` allows for them.
- Two alembic commands that both begin at base do not exclude each other at the first revision:
  `a9220af8ab24` creates the extension `IF NOT EXISTS` (line 23) and alembic records it by a plain `INSERT`.
  If one goes to that revision only and the other, to a later one, commits first, `alembic_version` is left with two
  rows, from which alembic upgrades no further. With downgrades beside them, revisions can be left recorded
  that have lost the extension. The workflow's databases are never at base.
- Nothing keeps two deployments apart (`deploy.yml:3`). With two workflows in `Deploys` the model breaks
  `CodeHasItsSchema`: the images of one can be replaced by those of the other between migration and start.
- After `R2_BUCKET_NAME` is edited and one of app and worker is started again, the worker deletes
  from a bucket that the app does not use; jobs do not record the bucket.
- `README.md:72` gives Caddy another address than `docker-compose.prod.yml`; `.env.example` sets `ENV`
  where `Settings` reads `ENVIRONMENT`; the header of `a9220af8ab24` names a revision before it,
  its `down_revision` none.

## 5. Proofs

Constants are arbitrary: a finite set of uploads, any sets of cranes, workers and
admins that share no member, `BatchSize`, `MaxPhotos`, `MaxAttempts` positive. TLC
evaluates these assumptions in the passing runs.

`PhotoSystemProofs` proves `Spec => []Inv`, where

- `TypeOK` gives the other parts their domains;
- `Capacity`: `PhotoLimit` alone is not inductive, since it does not say why an insert may go
  ahead. A request past `LockCrane` holds its crane's lock, so the count it took
  still bounds the live photos when it inserts: other inserts need that
  lock, everything else only lowers the count;
- `Locks`: what the holder of a photo lock knows until it lets go. It carries
  the steps that write a row some time after they looked at it;
- `Published`: an active row has its object, and its request is over or about to find
  that there is nothing to abandon; a request at `finalize` with a pending row
  has stored its object;
- `Queue`: a job names only a row that is marked or gone and whose request is
  past the insert, so that no late job deletes an object or row that is, or will be,
  published. A completed job's row is gone, which with `JobsOf(u) # {}` gives
  `CleanupIsQueued`.

`TypeCorrect`, `PhotoLimitHolds`, `ActiveHasObjectHolds`, `CleanupIsQueuedHolds` follow, and
`OnlyAdminsUnpublishHolds` from `Inv` step by step. The proof has one lemma per actor
(`RequestInv`, `WorkerInv`, `AdminInv`, `TimeInv`), one step per action in each,
and lemmas on the table operators (`CreateJobs`, `ClaimJobs`, `SaveJobs`,
`CapacityKept`, `CapacityInsert`, `QueueKept`, `QueueGrows`). TLC checks `Inv`, with `TypeOK`
in it, in `photo_safety`; the other inductive invariants are proved and not run again.

`AdminAuthProofs` proves, for any accounts, operators, requests and tokens and any time to live, `Inv`,
its three named parts, `EndsOnlyByLogout` and `ImplementsSessions`. `HandlerInv` is what makes `Inv`
inductive: a token on its way to its client is fresh, so that no logout can have revoked it;
the rows a login sweeps had expired by its own reading of the clock, which never goes back, so that
it takes no live session; and no two transactions have deleted one row, so that a commit
brings none back. For the refinement, `SessionStutter` covers the steps that no client can see.

`GoneReportsProofs` proves `Inv`, `GoneAtThreshold` and `OneReportEach` for any requests,
reporters, cranes and any positive threshold. The heart is that the holder of the
crane lock has counted exactly one more than the committed rows.

`PhotoSystemProofs` also proves `ImplementsCatalog`: initial states map to initial
states, and each actor's step maps to a step of `PhotoCatalog` or to a stutter. The step that needs
`Inv` is the delete: `Queue` says that the row it removes is marked.

`PhotoReviewProofs` proves `Inv` and the five properties of `photo_review` for any finite set of
photos, any requests and any largest page. `Pages` is the loop invariant of paging: what is watched at or
above the cursor has been shown, and the rows read for the next page leave out nothing watched
between the last of them and the cursor. `Reporting` says what the holder of the row lock knows.
`PhotosAssumption` makes ids integers, all below the first cursor.

`CraneCreationProofs` proves `Inv` and `SerialRequestsDoNotDuplicate` for any requests and
any reflexive and symmetric `Near`: with `Serial` a request past its check is alone near its location,
so what it found is still so when it inserts.

Four more invariants stand on `Inv` in `PhotoSystemProofs`:

- `PublishedInv`, for `PublishedDeletedOnce`: an upload answered with 201 is over and its row is not
  pending, so its own handler and the reaper are out; the admin's row lock says that the row
  is still active, and by `Queue` an active row has no job yet.
- `LeakInv`, for `NoLeakedObject`: a request that is not slow has its row until its put is over
  (`Timely`), and when the worker is about to record a success the object is away (`Witnessed`), so the
  row never goes before the object.
- `ClaimInv`, for `RetryBudget` and `CompletedIsFinal`: the worker has each job of its batch once,
  in processing, and what it read of a job is still so when it writes it. This needs `OneWorker`, which is
  what `docker-compose.prod.yml` runs: with two, a worker whose lease ran out overwrites what the other
  recorded.
- `LeaseInv`, for `ProcessingHasLease` with `TwoWorkers`: one worker, or two, of which
  each may write what it read before the other wrote. That does no harm if the job was open when it was
  read; if the job had ended, the one that ended it has let go of it
  (`EndedByOne`), so that nobody changes it between the read and the write (`Remembered`).

`CraneDeletionProofs` proves the three properties of `crane_deletion`. `Inv` does not survive a
deletion: it takes row locks of its own, deletes objects of active photos, and removes rows that
no job names and rows with open jobs. `RemovalInv` keeps of it what does survive (`Held`, `Outgoing`),
weakens the promise of a listed photo to "has its object or is targeted" (`Shown`), and adds
what the deletion knows: `Accounted`, that an object without a row has been seen by a job or belongs to an
upload under way, and `Cleared`, that what it has read and done with is away. `Moves` says once what any step
of `PhotoSystem` does to one row, its request and its lock; `RequestBeside`, `WorkerBeside` and `AdminBeside`
show it for each actor, and `MovesKeep` that the invariant outlives such a step. TLC has
found `RemovalInv` to hold in the instance of `crane_deletion`.

`CraneQueriesProofs` proves the three properties of `crane_queries` for any finite sets of cranes and photos, any
boxes and any limit. `OneRowMore` is what reading `Limit + 1` rows is for: as many rows as that mean
that something was left out, fewer that nothing was. `QueriesInv` adds that the cranes of an earlier
answer are among those of a later one, which with the closed sides of the box gives
`HalvesMissNothing`, and for `ShownWereActive` that the photos active now lie between `always` and
`sometime`.

`StandaloneProofs` has the components that share no state with any other:

- validation, for any files and limits: each check that is past holds of the file (`Passed`), and every step finds
  it at its beginning;
- settings, for any names and any processes: what runs has settings that validate, and what compose started has
  a name that the migrations know too;
- migrations, for any number of commands at once, from base on: the first row and the extension are anyone's,
  but only one command at a time has moved the record beyond the first revision, because each later record
  has to find the row of the one before; what that command sees, the extension left out, is the
  schema of the revision it has come to, and what all the others have done is of no consequence to it;
- deployment: `WorkflowInv` (types, `MigrationInv` and that its commands only upgrade) holds however
  deployments overlap, and with it `SchemaMatchesVersion`. `CodeHasItsSchema` needs more (`ImageInv`: nothing newer than the database is
  brought up), which is true only of workflows that do not overlap. That is the hypothesis
  `[]NoOverlap` of the theorem: nothing in `deploy.yml` ensures it (see the hazards in `PROJECT.json`).

Every safety and action property of the passing runs is stated by a theorem. Only model-checked are
liveness (`EveryUploadEnds`, `CleanupCompletes`, `EveryRequestEnds`) and the absence of deadlock, which are
out of the prover's reach. The hypotheses on workers are needed: of two workers TLC refutes
`RetryBudget` and `CompletedIsFinal` in the instance of `photo_two_workers`, and section 6 says what a third
would do to `ProcessingHasLease`.

## 6. Not modelled

- What Pillow does to an image and PostGIS to a geometry beyond the comparison of boxes; hashing of
  passwords, which are compared.
- The rate limiter, two lines that configure a library whose counters are in memory; logging; the
  exception handlers, but for the status of a refused file; wiring and health routes, which keep no
  state.
- Locks on job rows. Only workers take one and they take it first: `capture_success` flushes the job and then
  deletes the photo row (`photo_jobs.py:115-120`), `capture_failure` writes nothing else, the claim skips locked
  rows, and a new job's row is known to nobody. Whoever holds a photo row thus waits for no job row, and no
  circle closes. The rows a cascade deletes are locked in one step.
- Connection pools: a request holds one connection and waits for no second one.
- The offline mode and autogeneration of alembic, which write SQL and do not run it.
- A bucket renamed between the start of app and of worker, and what the services run after deployments that
  overlap (of those only the schema is proved, see section 5; the runs have one deployment at a time):
  nothing in the repository says what should happen (see section 4).
- A put that R2 applies after the client call has already failed: an
  answer that is lost has taken effect, or not, by the time the call returns.
- More than two workers: with a third a stale write could take the lease from a job that another has
  claimed again (it leaves a waiting job with a lease, and the write after it takes that lease from whoever has
  claimed the job by then), so `ProcessingHasLease` is claimed for one and two.

## 7. Plan

Written first, because the photo life cycle is where the code is concurrent: `PhotoStore`,
`PhotoUpload`, `PhotoWorker`, `PhotoSystem`, `GoneReports` and their proofs; then
`PhotoCatalog` with its refinement, `PhotoReview` and `CraneCreation`; then `AdminAuth` with its
refinement and proofs, `CraneDeletion`, `CraneQueries`, `PhotoValidation`, `Configuration`,
`Migrations` and `Deployment`. The proofs followed in the same
order; those of deletion, queries, validation, settings, migrations and deployment came last.

What is left:

1. `NoLeakedObject` beside a deletion, that is, for the cranes that are not deleted.
2. An abstract specification of the outbox (a job is open, then ended) that the worker implements
   when there is one, with `ClaimInv` as the mapping's invariant.
3. What `CodeHasItsSchema` becomes when two workflows overlap.
