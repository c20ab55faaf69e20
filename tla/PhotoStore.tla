----------------------------- MODULE PhotoStore -----------------------------
(***************************************************************************)
(* The state shared by the API handlers and the worker of crane_tracker:   *)
(* the crane_photo rows, the outbox_job rows, the objects in the R2 bucket *)
(* and the row locks that open transactions hold.                          *)
(*                                                                         *)
(* Every upload request creates at most one crane_photo row, with a fresh  *)
(* uuid7 and a storage key derived from it, so a request, its row and its  *)
(* storage key are one identity: a member of Uploads.                      *)
(*                                                                         *)
(* Clock readings are compared with now() and with nothing else, so they   *)
(* are modelled by what the comparison says: a row is overdue or not, a    *)
(* job's back-off has run out or not, a lease is held or has expired.      *)
(***************************************************************************)
EXTENDS Integers, Sequences, FiniteSets

CONSTANTS
  Uploads,      \* upload requests; each stands for its photo row and key too
  CraneIds,     \* the crane ids that requests name
  Cranes,       \* the crane ids that have a row in table crane
  CraneOf,      \* [Uploads -> CraneIds]: the crane id in the request path
  Workers,      \* worker processes (the deployment runs one)
  Admins,       \* transactions of the admin photo deletion endpoint
  NoOne,        \* "this row is not locked"
  BatchSize,    \* JOB_BATCH_SIZE
  MaxPhotos     \* MAX_PHOTOS_PER_CRANE

ASSUME UploadsAssumption == IsFiniteSet(Uploads)
ASSUME CraneAssumption == /\ Cranes \subseteq CraneIds
                          /\ CraneOf \in [Uploads -> CraneIds]
ASSUME ActorAssumption == /\ Uploads \cap (Workers \cup Admins) = {}
                          /\ Workers \cap Admins = {}
                          /\ NoOne \notin Uploads \cup Workers \cup Admins
ASSUME BoundAssumption == /\ BatchSize \in Nat \ {0}
                          /\ MaxPhotos \in Nat \ {0}

VARIABLES
  photo,        \* status of each crane_photo row, "absent" when there is none
  overdue,      \* pending_upload rows, added_at + PENDING_UPLOAD_WINDOW < now()
  jobs,         \* the outbox_job rows, in the order they were committed
  objects,      \* the storage keys with an object in the bucket
  photoLock     \* the open transaction that has locked each crane_photo row

storeVars == <<photo, overdue, jobs, objects, photoLock>>

PhotoStatus == {"absent", "pending_upload", "active", "pending_delete"}
JobStatus == {"pending", "processing", "completed", "failed"}
Lease == {"none", "held", "expired"}

(***************************************************************************)
(* An outbox_job row.  Column operation has one value, DELETE; last_error, *)
(* created_at and completed_at are never read.                             *)
(***************************************************************************)
Job == [key : Uploads, status : JobStatus, attempts : Nat,
        available : BOOLEAN, lease : Lease]

StoreTypeOK ==
  /\ photo \in [Uploads -> PhotoStatus]
  /\ overdue \subseteq Uploads
  /\ jobs \in Seq(Job)
  /\ objects \subseteq Uploads
  /\ photoLock \in [Uploads -> Uploads \cup Workers \cup Admins \cup {NoOne}]

StoreInit ==
  /\ photo = [u \in Uploads |-> "absent"]
  /\ overdue = {}
  /\ jobs = <<>>
  /\ objects = {}
  /\ photoLock = [u \in Uploads |-> NoOne]

-----------------------------------------------------------------------------
(***************************************************************************)
(* The rows that count against the limit of photos of crane c.             *)
(***************************************************************************)
LivePhotos(c) ==
  {u \in Uploads : CraneOf[u] = c /\ photo[u] \in {"active", "pending_upload"}}

Unlocked(u) == photoLock[u] = NoOne

(***************************************************************************)
(* The results of SELECT ... ORDER BY ... LIMIT BatchSize: at most         *)
(* BatchSize different rows of S, and all of S when that fits.  The order, *)
(* and with it the choice when S is larger than the batch, is left open:   *)
(* the columns ordered by are transaction start times, which two open      *)
(* transactions may commit in either order.                                *)
(***************************************************************************)
Selections(S) ==
  {s \in UNION {[1..n -> S] : n \in 0..BatchSize} :
     /\ \A i, j \in DOMAIN s : s[i] = s[j] => i = j
     /\ Len(s) < BatchSize => \A x \in S : \E i \in DOMAIN s : s[i] = x}

Rows(s) == {s[i] : i \in DOMAIN s}

\* create_task, with the column defaults of OutboxJob.
NewJob(u) == [key |-> u, status |-> "pending", attempts |-> 0,
              available |-> TRUE, lease |-> "none"]

(***************************************************************************)
(* create_delete_crane_job for each row of the sequence us, in the same    *)
(* transaction: the row is marked and a delete job for its key is added.   *)
(***************************************************************************)
CreateDeleteJobs(us) ==
  /\ photo' = [u \in Uploads |-> IF u \in Rows(us) THEN "pending_delete"
                                                   ELSE photo[u]]
  /\ overdue' = overdue \ Rows(us)
  /\ jobs' = jobs \o [i \in 1..Len(us) |-> NewJob(us[i])]

JobsOf(u) == {i \in DOMAIN jobs : jobs[i].key = u}
=============================================================================
