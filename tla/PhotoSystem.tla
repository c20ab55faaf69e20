----------------------------- MODULE PhotoSystem -----------------------------
(***************************************************************************)
(* The life of a photo: upload requests, admin deletions and the worker,   *)
(* acting on the same rows, jobs and objects, and the passing of time.     *)
(***************************************************************************)
EXTENDS PhotoUpload, PhotoWorker

CONSTANT
  SlowUploads   \* the requests that may still be open when their row is overdue

ASSUME TimingAssumption == SlowUploads \subseteq Uploads

vars == <<storeVars, requestVars, workerVars>>

TypeOK == StoreTypeOK /\ UploadTypeOK /\ WorkerTypeOK

Init == StoreInit /\ UploadInit /\ WorkerInit

-----------------------------------------------------------------------------
(***************************************************************************)
(* DELETE /cranes/{crane_id}/photos/{photo_id}: the row is selected FOR    *)
(* UPDATE and marked in one transaction.  A row that is not active, or not *)
(* of that crane, is a 404 and changes nothing.                            *)
(***************************************************************************)
\* Mutant: the photo is deleted whatever its status.
AdminSelectAny(a, u) ==
  /\ \A v \in Uploads : photoLock[v] # a
  /\ Unlocked(u)
  /\ photo[u] # "absent"
  /\ photoLock' = [photoLock EXCEPT ![u] = a]
  /\ UNCHANGED <<photo, overdue, jobs, objects, requestVars, workerVars>>

AdminSelect(a, u) ==
  /\ \A v \in Uploads : photoLock[v] # a
  /\ Unlocked(u)
  /\ photo[u] = "active"
  /\ photoLock' = [photoLock EXCEPT ![u] = a]
  /\ UNCHANGED <<photo, overdue, jobs, objects, requestVars, workerVars>>

AdminCommit(a, u) ==
  /\ photoLock[u] = a
  /\ CreateDeleteJobs(<<u>>)
  /\ photoLock' = [photoLock EXCEPT ![u] = NoOne]
  /\ UNCHANGED <<objects, requestVars, workerVars>>

\* The transaction fails or the server dies.
AdminFails(a, u) ==
  /\ photoLock[u] = a
  /\ photoLock' = [photoLock EXCEPT ![u] = NoOne]
  /\ UNCHANGED <<photo, overdue, jobs, objects, requestVars, workerVars>>

(***************************************************************************)
(* Time.  PENDING_UPLOAD_WINDOW, 5 s by default, is not tied to how long a *)
(* put may take: the requests in SlowUploads may outlive it.  The age of a *)
(* row matters while it is pending_upload, the back-off of a job while it  *)
(* is pending.                                                             *)
(***************************************************************************)
WindowElapses(u) ==
  /\ photo[u] = "pending_upload"
  /\ u \notin overdue
  /\ u \in SlowUploads \/ upc[u] = "done"
  /\ overdue' = overdue \cup {u}
  /\ UNCHANGED <<photo, jobs, objects, photoLock, requestVars, workerVars>>

BackoffElapses(i) ==
  /\ jobs[i].status = "pending"
  /\ ~jobs[i].available
  /\ jobs' = [jobs EXCEPT ![i].available = TRUE]
  /\ UNCHANGED <<photo, overdue, objects, photoLock, requestVars, workerVars>>

\* LOCK_LEASE_WINDOW bounds neither a batch nor a stopped worker: a lease can
\* run out while its holder is still at work.
LeaseExpires(i) ==
  /\ jobs[i].lease = "held"
  /\ jobs' = [jobs EXCEPT ![i].lease = "expired"]
  /\ UNCHANGED <<photo, overdue, objects, photoLock, requestVars, workerVars>>

Request == \E u \in Uploads : RequestStep(u) /\ UNCHANGED workerVars
Worker == \E w \in Workers : WorkerStep(w) /\ UNCHANGED requestVars
Admin == \E a \in Admins, u \in Uploads :
           AdminSelect(a, u) \/ AdminCommit(a, u) \/ AdminFails(a, u)
Time == \/ \E u \in Uploads : WindowElapses(u)
        \/ \E i \in DOMAIN jobs : BackoffElapses(i) \/ LeaseExpires(i)

Next == Request \/ Worker \/ Admin \/ Time

Spec == Init /\ [][Next]_vars

-----------------------------------------------------------------------------
(***************************************************************************)
(* Safety.                                                                 *)
(***************************************************************************)
\* ensure_crane_photo_capacity: however the requests for a crane interleave,
\* it never has more than MAX_PHOTOS_PER_CRANE photos live.
PhotoLimit == \A c \in Cranes : Cardinality(LivePhotos(c)) <= MaxPhotos

\* A photo that is listed (get_crane_photos, get_crane show active rows) has
\* its object in the bucket, so its public URL works, whatever the reaper and
\* the delete jobs do.
ActiveHasObject == \A u \in Uploads : photo[u] = "active" => u \in objects

\* create_delete_crane_job and capture_success: a row marked for deletion
\* always has a job that still names it (open, or failed and left for an
\* operator), so no marked row is forgotten.
CleanupIsQueued ==
  \A u \in Uploads : photo[u] = "pending_delete" =>
    \E i \in JobsOf(u) : jobs[i].status # "completed"

\* Neither the reaper, nor a handler that abandons its upload, nor a late job
\* takes a published photo down: only the commit of an admin deletion does.
OnlyAdminsUnpublish ==
  [][\A u \in Uploads : photo[u] = "active" /\ photo'[u] # "active" =>
       photo'[u] = "pending_delete" /\ photoLock[u] \in Admins]_vars

\* The stage of each photo, as those who read the rows can tell.
CatalogState ==
  [u \in Uploads |-> IF photo[u] # "absent" THEN photo[u]
                     ELSE IF upc[u] \in Preupload THEN "new" ELSE "gone"]

Catalog == INSTANCE PhotoCatalog WITH Photos <- Uploads, state <- CatalogState

\* Seen from outside, rows go through the stages of PhotoCatalog and no others:
\* no late commit, job or reaper brings a photo back, or removes an active row
\* that no admin has marked.
ImplementsCatalog == Catalog!CatalogSpec

\* delete_crane_photo selects FOR UPDATE: two admins who delete the same photo
\* add one job, and nobody else adds one for a photo its uploader was told of.
PublishedDeletedOnce ==
  \A u \in Uploads : reply[u] = "created" => Cardinality(JobsOf(u)) <= 1

\* capture_failure: a job goes back to the queue only while it has attempts
\* left.  (One worker: two workers can hold the same job once a lease expires.)
RetryBudget ==
  \A i \in DOMAIN jobs : jobs[i].status = "pending" => jobs[i].attempts < MaxAttempts

\* A completed job stays completed, whatever crashes, retries and expired
\* leases come between claim_jobs and capture_success.  (One worker, as above.)
CompletedIsFinal ==
  [][\A i \in DOMAIN jobs : jobs[i].status = "completed" => jobs'[i] = jobs[i]]_vars

\* claim_jobs takes a processing job over only when it has a lease to expire:
\* one without would never be tried again.
ProcessingHasLease ==
  \A i \in DOMAIN jobs : jobs[i].status = "processing" => jobs[i].lease # "none"

\* When a request that ends within the window has ended and its row is gone, no
\* object of it is left in the bucket that no open job will delete.
NoLeakedObject ==
  \A u \in objects \ SlowUploads : photo[u] = "absent" /\ upc[u] = "done" =>
    \E i \in JobsOf(u) : jobs[i].status \in {"pending", "processing"}

\* What test_upload_crane_photo_route_cleans_up_r2_on_race asserts: a request
\* answered with the race error has left its object to a delete job.
RaceIsCleanedUp ==
  \A u \in objects : reply[u] = "race" /\ upc[u] = "done" =>
    \E i \in JobsOf(u) : jobs[i].status # "completed"

(***************************************************************************)
(* The inductive invariant behind PhotoLimit, ActiveHasObject,             *)
(* CleanupIsQueued and OnlyAdminsUnpublish, in four parts.                 *)
(***************************************************************************)
\* A request past LockCrane has its crane locked, so that the count it took
\* still stands when it inserts its row.
Capacity ==
  /\ PhotoLimit
  /\ \A u \in Uploads :
       /\ upc[u] \in Preupload => photo[u] = "absent"
       /\ upc[u] \in {"count", "insert"} =>
            CraneOf[u] \in Cranes /\ craneLock[CraneOf[u]] = u
       /\ upc[u] = "insert" => Cardinality(LivePhotos(CraneOf[u])) < MaxPhotos

\* What the holder of a row lock knows of the row until it lets go.
Locks ==
  \A u \in Uploads :
    /\ photoLock[u] \in Uploads =>
         photoLock[u] = u /\ upc[u] \in {"commit", "abandon_commit"}
    /\ upc[u] = "commit" =>
         photoLock[u] = u /\ photo[u] = "pending_upload" /\ u \in objects
    /\ upc[u] = "abandon_commit" => photoLock[u] = u /\ photo[u] # "absent"
    /\ photoLock[u] \in Admins => photo[u] = "active"
    /\ \A w \in Workers : u \in Rows(reaping[w]) =>
         photoLock[u] = w /\ photo[u] = "pending_upload"

\* Where a request can be when its row is active or still to be activated.
Published ==
  \A u \in Uploads :
    /\ photo[u] = "active" => u \in objects /\ upc[u] \in {"abandon_read", "done"}
    /\ upc[u] = "finalize" /\ photo[u] = "pending_upload" => u \in objects

\* A job exists only for a row on its way out, which never comes back.
Queue ==
  /\ \A i \in DOMAIN jobs :
       /\ photo[jobs[i].key] \in {"pending_delete", "absent"}
       /\ upc[jobs[i].key] \notin Preupload
       /\ jobs[i].status = "completed" => photo[jobs[i].key] = "absent"
  /\ \A u \in Uploads : photo[u] = "pending_delete" => JobsOf(u) # {}
  /\ \A w \in Workers :
       /\ \A k \in DOMAIN batch[w] : batch[w][k] \in DOMAIN jobs
       /\ wpc[w] \in {"load", "save"} => batch[w] # <<>>

Inv == TypeOK /\ Capacity /\ Locks /\ Published /\ Queue

(***************************************************************************)
(* Liveness.  A handler takes its next step unless it waits for a lock,    *)
(* and a lock is granted to its waiter when it comes free.  A worker that  *)
(* has stopped is started again.  Errors of the database and of the bucket,*)
(* signals and crashes may come at any time and for ever, but not every    *)
(* time: a step that is tried again and again succeeds in the end.         *)
(***************************************************************************)
HandlerStep(u) ==
  /\ \/ CraneNotFound(u) \/ LockCrane(u) \/ LimitExceeded(u) \/ BelowLimit(u)
     \/ InsertPhoto(u) \/ StoreObject(u) \/ Finalize(u) \/ FinalizeRace(u)
     \/ CommitActive(u) \/ AbandonRead(u) \/ AbandonFlush(u) \/ AbandonCommit(u)
  /\ UNCHANGED workerVars

Retried(w) ==
  /\ SF_vars(Claim(w) /\ UNCHANGED requestVars)
  /\ SF_vars(Claim(w) /\ Claimable # {} /\ UNCHANGED requestVars)
  /\ SF_vars((DeleteObject(w) \/ DeleteObjectFails(w)) /\ UNCHANGED requestVars)
  /\ SF_vars(EndBatch(w) /\ UNCHANGED requestVars)
  /\ SF_vars(LoadJob(w) /\ UNCHANGED requestVars)
  /\ SF_vars((CaptureSuccess(w) \/ CaptureFailure(w)) /\ UNCHANGED requestVars)
  /\ SF_vars(ReapSelect(w) /\ UNCHANGED requestVars)
  /\ SF_vars(ReapCommit(w) /\ UNCHANGED requestVars)

Fairness ==
  /\ \A u \in Uploads : SF_vars(HandlerStep(u)) /\ WF_vars(WindowElapses(u))
  /\ \A w \in Workers :
       /\ WF_vars((Exit(w) \/ Restart(w)) /\ UNCHANGED requestVars)
       /\ Retried(w)
  /\ WF_vars(\E i \in DOMAIN jobs : BackoffElapses(i) \/ LeaseExpires(i))

FairSpec == Spec /\ Fairness

\* Every upload request is answered: a request that waits for a crane or photo
\* row lock is not left waiting by the reaper or by another request.
EveryUploadEnds == \A u \in Uploads : <>(upc[u] = "done")

\* A row that is not active, whether its request abandoned it, died or is still
\* at work, is in the end published, removed, or left with a failed job.
CleanupCompletes ==
  \A u \in Uploads :
    photo[u] \in {"pending_upload", "pending_delete"} ~>
      \/ photo[u] \in {"active", "absent"}
      \/ \E i \in JobsOf(u) : jobs[i].status = "failed"
=============================================================================
