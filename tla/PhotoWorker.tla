----------------------------- MODULE PhotoWorker -----------------------------
(***************************************************************************)
(* The background worker (app/worker): a loop of run_delete_batch, which   *)
(* claims outbox jobs and deletes the objects they name, and               *)
(* run_reap_crane_photos, which hands over the uploads that never ended.   *)
(*                                                                         *)
(* job.attempts is only compared with MAX_ATTEMPTS, so the model counts it *)
(* up to AttemptCap, which is at least MaxAttempts, and no further.        *)
(***************************************************************************)
EXTENDS PhotoStore

CONSTANTS
  MaxAttempts,  \* MAX_ATTEMPTS
  AttemptCap    \* where the model stops counting attempts

ASSUME AttemptAssumption == /\ MaxAttempts \in Nat \ {0}
                            /\ AttemptCap \in Nat
                            /\ AttemptCap >= MaxAttempts

VARIABLES
  wpc,          \* where each worker is
  batch,        \* its claimed jobs not yet recorded, as indices of jobs
  err,          \* the outcome of the delete that is being recorded: err_str set
  loaded,       \* the job row as capture_success or capture_failure read it
  reaping,      \* the photo rows its reaper has locked
  shutdown      \* the shutdown event

workerVars == <<wpc, batch, err, loaded, reaping, shutdown>>

Points == {"claim", "delete", "load", "save", "reap", "reap_commit", "stopped"}

\* The columns of a job that the capture functions compare.
NotLoaded == [status |-> "processing", attempts |-> 0, lease |-> "none"]

WorkerTypeOK ==
  /\ wpc \in [Workers -> Points]
  /\ batch \in [Workers -> Seq(Nat)]
  /\ err \in [Workers -> BOOLEAN]
  /\ loaded \in [Workers -> [status : JobStatus, attempts : Nat, lease : Lease]]
  /\ reaping \in [Workers -> Seq(Uploads)]
  /\ shutdown \in [Workers -> BOOLEAN]

WorkerInit ==
  /\ wpc = [w \in Workers |-> "claim"]
  /\ batch = [w \in Workers |-> <<>>]
  /\ err = [w \in Workers |-> FALSE]
  /\ loaded = [w \in Workers |-> NotLoaded]
  /\ reaping = [w \in Workers |-> <<>>]
  /\ shutdown = [w \in Workers |-> FALSE]

WGoto(w, pc) == wpc' = [wpc EXCEPT ![w] = pc]

-----------------------------------------------------------------------------
(***************************************************************************)
(* claim_jobs: one transaction that locks the jobs it selects, so that two *)
(* claims never take the same one.                                         *)
(***************************************************************************)
\* Mutant: a job being processed is never taken over.
ClaimablePendingOnly ==
  {i \in DOMAIN jobs : jobs[i].status = "pending" /\ jobs[i].available}

\* Mutant: the status is not part of the condition.
ClaimableAnyStatus ==
  {i \in DOMAIN jobs : jobs[i].available \/ jobs[i].lease = "expired"}

Claimable ==
  {i \in DOMAIN jobs : \/ jobs[i].status = "pending" /\ jobs[i].available
                       \/ jobs[i].status = "processing" /\ jobs[i].lease = "expired"}

\* Mutant: the lease is not set.
ClaimedNoLease(job) ==
  [key |-> job.key, status |-> "processing",
   attempts |-> IF job.attempts < AttemptCap THEN job.attempts + 1 ELSE job.attempts,
   available |-> job.available, lease |-> job.lease]

Claimed(job) ==
  [key |-> job.key, status |-> "processing",
   attempts |-> IF job.attempts < AttemptCap THEN job.attempts + 1 ELSE job.attempts,
   available |-> job.available, lease |-> "held"]

MarkClaimed(S) ==
  jobs' = [i \in DOMAIN jobs |-> IF i \in S THEN Claimed(jobs[i]) ELSE jobs[i]]

Claim(w) ==
  /\ wpc[w] = "claim"
  /\ ~shutdown[w]
  /\ \E sel \in Selections(Claimable) :
       /\ MarkClaimed(Rows(sel))
       /\ batch' = [batch EXCEPT ![w] = sel]
  /\ WGoto(w, "delete")
  /\ UNCHANGED <<photo, overdue, objects, photoLock, err, loaded, reaping, shutdown>>

\* run_delete_batch returns 0.  When it is the commit that failed, the jobs
\* may have been claimed for nobody.
ClaimDbError(w) ==
  /\ wpc[w] = "claim"
  /\ ~shutdown[w]
  /\ \E sel \in {<<>>} \cup Selections(Claimable) : MarkClaimed(Rows(sel))
  /\ WGoto(w, "reap")
  /\ UNCHANGED <<photo, overdue, objects, photoLock, batch, err, loaded, reaping, shutdown>>

(***************************************************************************)
(* The loop of run_delete_batch over the claimed jobs.                     *)
(***************************************************************************)
DeleteObject(w) ==
  /\ wpc[w] = "delete"
  /\ batch[w] # <<>>
  /\ ~shutdown[w]
  /\ objects' = objects \ {jobs[Head(batch[w])].key}
  /\ err' = [err EXCEPT ![w] = FALSE]
  /\ WGoto(w, "load")
  /\ UNCHANGED <<photo, overdue, jobs, photoLock, batch, loaded, reaping, shutdown>>

\* Mutant: the error of delete_photo is swallowed.
DeleteErrorSwallowed(w) ==
  /\ wpc[w] = "delete"
  /\ batch[w] # <<>>
  /\ ~shutdown[w]
  /\ objects' \in {objects, objects \ {jobs[Head(batch[w])].key}}
  /\ err' = [err EXCEPT ![w] = FALSE]
  /\ WGoto(w, "load")
  /\ UNCHANGED <<photo, overdue, jobs, photoLock, batch, loaded, reaping, shutdown>>

\* delete_photo raises; an answer that is lost leaves the object deleted.
DeleteObjectFails(w) ==
  /\ wpc[w] = "delete"
  /\ batch[w] # <<>>
  /\ ~shutdown[w]
  /\ objects' \in {objects, objects \ {jobs[Head(batch[w])].key}}
  /\ err' = [err EXCEPT ![w] = TRUE]
  /\ WGoto(w, "load")
  /\ UNCHANGED <<photo, overdue, jobs, photoLock, batch, loaded, reaping, shutdown>>

\* The loop is done, or it returns on shutdown and the jobs left in the
\* batch stay claimed until their lease expires.
EndBatch(w) ==
  /\ wpc[w] = "delete"
  /\ batch[w] = <<>> \/ shutdown[w]
  /\ batch' = [batch EXCEPT ![w] = <<>>]
  /\ WGoto(w, "reap")
  /\ UNCHANGED <<storeVars, err, loaded, reaping, shutdown>>

(***************************************************************************)
(* capture_success and capture_failure read the job without a lock and     *)
(* write it in the same transaction.  The UPDATE names the columns whose   *)
(* new value differs from the one that was read: FlushColumn.              *)
(***************************************************************************)
FlushColumn(current, read, new) == IF new = read THEN current ELSE new

LoadJob(w) ==
  /\ wpc[w] = "load"
  /\ loaded' = [loaded EXCEPT ![w] =
       LET job == jobs[Head(batch[w])] IN
         [status |-> job.status, attempts |-> job.attempts, lease |-> job.lease]]
  /\ WGoto(w, "save")
  /\ UNCHANGED <<storeVars, batch, err, reaping, shutdown>>

NextJob(w) ==
  /\ batch' = [batch EXCEPT ![w] = Tail(@)]
  /\ loaded' = [loaded EXCEPT ![w] = NotLoaded]
  /\ err' = [err EXCEPT ![w] = FALSE]
  /\ WGoto(w, "delete")

Saved(job, read, status, available) ==
  [key |-> job.key, attempts |-> job.attempts, available |-> available,
   status |-> FlushColumn(job.status, read.status, status),
   lease |-> FlushColumn(job.lease, read.lease, "none")]

SaveJob(w, status, available) ==
  jobs' = [i \in DOMAIN jobs |-> IF i = Head(batch[w])
                                 THEN Saved(jobs[i], loaded[w], status, available)
                                 ELSE jobs[i]]

\* The row is deleted by its storage key, whatever its status, once nobody
\* else has it locked.
CaptureSuccess(w) ==
  /\ wpc[w] = "save"
  /\ ~err[w]
  /\ LET job == jobs[Head(batch[w])] IN
       /\ Unlocked(job.key)
       /\ SaveJob(w, "completed", job.available)
       /\ photo' = [photo EXCEPT ![job.key] = "absent"]
       /\ overdue' = overdue \ {job.key}
  /\ NextJob(w)
  /\ UNCHANGED <<objects, photoLock, reaping, shutdown>>

\* Mutant: one attempt too many.
CaptureFailureOffByOne(w) ==
  /\ wpc[w] = "save"
  /\ err[w]
  /\ SaveJob(w, IF loaded[w].attempts <= MaxAttempts THEN "pending" ELSE "failed", FALSE)
  /\ NextJob(w)
  /\ UNCHANGED <<photo, overdue, objects, photoLock, reaping, shutdown>>

CaptureFailure(w) ==
  /\ wpc[w] = "save"
  /\ err[w]
  /\ SaveJob(w, IF loaded[w].attempts < MaxAttempts THEN "pending" ELSE "failed", FALSE)
  /\ NextJob(w)
  /\ UNCHANGED <<photo, overdue, objects, photoLock, reaping, shutdown>>

\* _record_job_outcome swallows the error: the job stays claimed and the loop
\* goes on.
RecordDbError(w) ==
  /\ wpc[w] \in {"load", "save"}
  /\ NextJob(w)
  /\ UNCHANGED <<storeVars, reaping, shutdown>>

(***************************************************************************)
(* run_reap_crane_photos: one transaction that locks the rows it selects,  *)
(* passing over the rows that others have locked, and marks them.          *)
(***************************************************************************)
\* Mutant: the rows that others have locked are taken too.
ReapableLocked == {u \in overdue : photo[u] = "pending_upload"}

Reapable == {u \in overdue : photo[u] = "pending_upload" /\ Unlocked(u)}

ReapSelect(w) ==
  /\ wpc[w] = "reap"
  /\ \E sel \in Selections(Reapable) :
       /\ reaping' = [reaping EXCEPT ![w] = sel]
       /\ photoLock' = [u \in Uploads |-> IF u \in Rows(sel) THEN w ELSE photoLock[u]]
  /\ WGoto(w, "reap_commit")
  /\ UNCHANGED <<photo, overdue, jobs, objects, batch, err, loaded, shutdown>>

\* Mutant: the transaction is left open, and with it its row locks.
EndReapKeepsLocks(w) ==
  /\ reaping' = [reaping EXCEPT ![w] = <<>>]
  /\ UNCHANGED photoLock

\* The end of the transaction, committed or rolled back.
EndReap(w) ==
  /\ reaping' = [reaping EXCEPT ![w] = <<>>]
  /\ photoLock' = [u \in Uploads |-> IF photoLock[u] = w THEN NoOne ELSE photoLock[u]]

\* The flush, the commit and the way back to the loop condition of main.
ReapCommit(w) ==
  /\ wpc[w] = "reap_commit"
  /\ CreateDeleteJobs(reaping[w])
  /\ EndReap(w)
  /\ WGoto(w, "claim")
  /\ UNCHANGED <<objects, batch, err, loaded, shutdown>>

ReapDbError(w) ==
  /\ wpc[w] \in {"reap", "reap_commit"}
  /\ EndReap(w)
  /\ WGoto(w, "claim")
  /\ UNCHANGED <<photo, overdue, jobs, objects, batch, err, loaded, shutdown>>

(***************************************************************************)
(* The process: SIGTERM and SIGINT set the event, the loop ends when it is *)
(* set, a crash loses everything but the database and the bucket, and the  *)
(* container is started again.                                             *)
(***************************************************************************)
Signal(w) ==
  /\ wpc[w] # "stopped"
  /\ ~shutdown[w]
  /\ shutdown' = [shutdown EXCEPT ![w] = TRUE]
  /\ UNCHANGED <<storeVars, wpc, batch, err, loaded, reaping>>

Exit(w) ==
  /\ wpc[w] = "claim"
  /\ shutdown[w]
  /\ shutdown' = [shutdown EXCEPT ![w] = FALSE]
  /\ WGoto(w, "stopped")
  /\ UNCHANGED <<storeVars, batch, err, loaded, reaping>>

Crash(w) ==
  /\ wpc[w] # "stopped"
  /\ EndReap(w)
  /\ batch' = [batch EXCEPT ![w] = <<>>]
  /\ err' = [err EXCEPT ![w] = FALSE]
  /\ loaded' = [loaded EXCEPT ![w] = NotLoaded]
  /\ shutdown' = [shutdown EXCEPT ![w] = FALSE]
  /\ WGoto(w, "stopped")
  /\ UNCHANGED <<photo, overdue, jobs, objects>>

Restart(w) ==
  /\ wpc[w] = "stopped"
  /\ WGoto(w, "claim")
  /\ UNCHANGED <<storeVars, batch, err, loaded, reaping, shutdown>>

WorkerStep(w) ==
  \/ Claim(w) \/ ClaimDbError(w)
  \/ DeleteObject(w) \/ DeleteObjectFails(w) \/ EndBatch(w)
  \/ LoadJob(w) \/ CaptureSuccess(w) \/ CaptureFailure(w) \/ RecordDbError(w)
  \/ ReapSelect(w) \/ ReapCommit(w) \/ ReapDbError(w)
  \/ Signal(w) \/ Exit(w) \/ Crash(w) \/ Restart(w)
=============================================================================
