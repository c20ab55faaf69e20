------------------------- MODULE CraneDeletionProofs -------------------------
(***************************************************************************)
(* OnlyLateUploadsLeak, NoRowWithoutCrane and OnlyDeletionBreaksPhotos for *)
(* all sets of uploads, cranes, workers and admins.                        *)
(*                                                                         *)
(* The invariant Inv of PhotoSystem does not survive a deletion, which     *)
(* takes row locks of its own, deletes objects of active photos and        *)
(* removes rows that no job names.  RemovalInv is what is left of it, with *)
(* what the deletion knows of the rows it has read.                        *)
(***************************************************************************)
EXTENDS CraneDeletion, PhotoSystemProofs

RemovalTypeOK ==
  /\ TablesOK /\ UploadTypeOK /\ DeletionTypeOK
  /\ objects \subseteq Uploads
  /\ photoLock \in [Uploads -> Uploads \cup Workers \cup Admins \cup {NoOne, Remover}]

\* Locks and the second part of Capacity, beside the locks of the deletion.
Held(u) ==
  /\ photoLock[u] \in Uploads => photoLock[u] = u /\ upc[u] \in {"commit", "abandon_commit"}
  /\ upc[u] = "commit" => photoLock[u] = u /\ photo[u] = "pending_upload"
  /\ upc[u] = "abandon_commit" => photoLock[u] = u /\ photo[u] # "absent"
  /\ photoLock[u] \in Admins => photo[u] = "active"
  /\ \A w \in Workers : u \in Rows(reaping[w]) =>
       photoLock[u] = w /\ photo[u] = "pending_upload"
  /\ upc[u] \in {"count", "insert"} =>
       CraneOf[u] \in Cranes /\ craneLock[CraneOf[u]] = u

\* Queue, without what the cascade breaks: a row it removes may have open jobs,
\* and no job of it has removed it.
Outgoing ==
  /\ \A i \in DOMAIN jobs : /\ photo[jobs[i].key] \in {"pending_delete", "absent"}
                            /\ upc[jobs[i].key] \notin Preupload
  /\ BatchesOK

\* The promise of a listed photo, or of one about to be listed, is broken by
\* the deletion alone.
Shown(u) ==
  photo[u] = "active" \/ upc[u] = "commit" \/ (upc[u] = "finalize" /\ photo[u] = "pending_upload")
    => u \in objects \cup targeted

\* Before the rows of the crane are gone, an object without a row has been seen
\* by a job, or is still to be seen by its upload.
Accounted(u) ==
  /\ upc[u] \in Preupload => photo[u] = "absent" /\ u \notin objects
  /\ u \in OfCrane /\ dpc # "deleted" /\ photo[u] = "absent" /\ upc[u] \notin Preupload =>
       JobsOf(u) # {} \/ (u \notin objects /\ Ended(u))

\* What the deletion has done about an upload that had ended when it began.
Cleared(u) ==
  u \in OfCrane \ late /\ dpc # "start" =>
    /\ Ended(u)
    /\ u \in read \ todo => u \notin objects
    /\ u \notin read /\ u \in objects => JobsOf(u) # {}

RemovalInv ==
  /\ RemovalTypeOK
  /\ \A u \in Uploads : Held(u) /\ Shown(u) /\ Accounted(u) /\ Cleared(u)
  /\ Outgoing
  /\ dpc \in {"rows", "crane", "commit", "deleted"} => todo = {}
  /\ DeletionInv

(***************************************************************************)
(* What the steps of PhotoSystem may do beside a deletion.                 *)
(***************************************************************************)
\* The queue grows, by jobs for rows that are there.
JobsGrow ==
  /\ DOMAIN jobs \subseteq DOMAIN jobs'
  /\ \A i \in DOMAIN jobs : jobs'[i].key = jobs[i].key
  /\ \A i \in DOMAIN jobs' : i \notin DOMAIN jobs =>
       /\ jobs'[i].key \in Uploads
       /\ photo[jobs'[i].key] # "absent" /\ photo'[jobs'[i].key] = "pending_delete"

Moves(u) ==
  /\ Ended(u) => upc'[u] = "done"
  /\ upc'[u] \in Preupload => upc[u] \in Preupload /\ photo'[u] = photo[u]
  /\ upc[u] \in Preupload /\ upc'[u] \notin Preupload =>
       upc'[u] = "done" \/ photo'[u] = "pending_upload"
  /\ upc'[u] = "commit" =>
       upc[u] = "commit" \/ (upc[u] = "finalize" /\ photo[u] = "pending_upload")
  /\ upc'[u] = "finalize" => upc[u] = "finalize" \/ (upc[u] = "store" /\ u \in objects')
  /\ u \in objects' \ objects => upc[u] = "store"
  /\ u \in objects \ objects' => photo[u] \in {"pending_delete", "absent"}
  /\ \/ photo'[u] = photo[u]
     \/ photo'[u] = "pending_upload" /\ upc[u] = "insert"
     \/ photo'[u] = "active" /\ upc[u] = "commit"
     \/ photo'[u] = "pending_delete" /\ photo[u] # "absent"
     \/ photo'[u] = "absent" /\ photo[u] \in {"pending_delete", "absent"} /\ JobsOf(u) # {}
  /\ photoLock[u] = Remover => photoLock'[u] = Remover

\* A step beside the deletion keeps the invariant when it moves each row as Moves allows.
LEMMA MovesKeep ==
  ASSUME RemovalInv, RemovalTypeOK', UNCHANGED deletionVars,
         \A u \in Uploads : Moves(u) /\ Held(u)',
         JobsGrow, BatchesOK',
         dpc \in {"commit", "deleted"} => craneLock'[Doomed] = NoOne
  PROVE  RemovalInv'
<1>1. /\ UNCHANGED <<dpc, read, todo, targeted, late>>
      /\ NoOne \notin Uploads /\ DeletionInv /\ Outgoing
  BY ActorAssumption DEF deletionVars, RemovalInv
<1>2. ASSUME NEW u \in Uploads
      PROVE  Shown(u)'
  BY <1>1 DEF RemovalInv, Moves, Held, Shown, Preupload
<1>3. \A u \in Uploads : JobsOf(u) # {} => JobsOf(u)' # {}
  BY DEF JobsGrow, JobsOf
<1>4. ASSUME NEW u \in Uploads
      PROVE  Accounted(u)'
  BY <1>1, <1>3 DEF RemovalInv, Moves, Accounted, Preupload, OfCrane, Ended
<1>5. ASSUME NEW u \in Uploads
      PROVE  Cleared(u)'
  BY <1>1, <1>3 DEF RemovalInv, Moves, Cleared, OfCrane, Ended
<1>6. ASSUME NEW i \in DOMAIN jobs'
      PROVE  /\ photo'[jobs'[i].key] \in {"pending_delete", "absent"}
             /\ upc'[jobs'[i].key] \notin Preupload
  <2>1. CASE i \in DOMAIN jobs
    <3>1. /\ jobs[i].key \in Uploads /\ jobs'[i].key = jobs[i].key
          /\ photo[jobs[i].key] \in {"pending_delete", "absent"}
          /\ upc[jobs[i].key] \notin Preupload
      BY <1>1, <2>1, JobKeys DEF RemovalInv, RemovalTypeOK, JobsGrow, Outgoing
    <3>2. Held(jobs[i].key) /\ Moves(jobs[i].key)
      BY <3>1 DEF RemovalInv
    <3>3. QED
      BY <3>1, <3>2 DEF Held, Moves, Preupload
  <2>2. CASE i \notin DOMAIN jobs
    <3>1. /\ jobs'[i].key \in Uploads
          /\ photo[jobs'[i].key] # "absent" /\ photo'[jobs'[i].key] = "pending_delete"
      BY <2>2 DEF JobsGrow
    <3>2. Accounted(jobs'[i].key) /\ Moves(jobs'[i].key)
      BY <3>1 DEF RemovalInv
    <3>3. QED
      BY <3>1, <3>2 DEF Accounted, Moves
  <2>3. QED
    BY <2>1, <2>2
<1>7. DeletionInv'
  <2>1. DeletionTypeOK'
    BY DEF RemovalTypeOK
  <2>2. ASSUME NEW u \in OfCrane, dpc \in {"commit", "deleted"}, photo'[u] # "absent"
        PROVE  photo[u] # "absent"
    <3>1. CraneOf[u] = Doomed /\ Held(u) /\ Moves(u) /\ craneLock[Doomed] = NoOne /\ u \in Uploads
      BY <1>1, <2>2 DEF OfCrane, RemovalInv, DeletionInv
    <3>2. upc[u] \notin {"count", "insert"}
      BY <1>1, <3>1 DEF Held
    <3>3. Accounted(u)
      BY <3>1 DEF RemovalInv
    <3>4. upc[u] = "commit" => photo[u] # "absent"
      BY <3>1 DEF Held
    <3>5. QED
      BY <2>2, <3>1, <3>2, <3>4 DEF Moves
  <2>3. \A u \in OfCrane : Moves(u) /\ u \in Uploads
    BY DEF OfCrane
  <2>4. dpc = "commit" => \A u \in RowsOfCrane' : photoLock'[u] = Remover
    BY <1>1, <2>2, <2>3 DEF RowsOfCrane, OfCrane, DeletionInv, Moves
  <2>5. dpc = "deleted" => RowsOfCrane' = {}
    BY <1>1, <2>2, <2>3 DEF RowsOfCrane, OfCrane, DeletionInv
  <2>6. QED
    BY <1>1, <2>1, <2>4, <2>5 DEF DeletionInv
<1>8. QED
  BY <1>1, <1>2, <1>4, <1>5, <1>6, <1>7 DEF RemovalInv, Outgoing

\* create_delete_crane_job for one row that is there.
LEMMA OneRowHandedOver ==
  ASSUME RemovalInv, NEW v \in Uploads, CreateDeleteJobs(<<v>>), photo[v] # "absent"
  PROVE  /\ JobsGrow
         /\ photo' \in [Uploads -> PhotoStatus] /\ overdue' \subseteq Uploads
         /\ jobs' \in Seq(Job)
         /\ photo'[v] = "pending_delete"
         /\ \A u \in Uploads : u # v => photo'[u] = photo[u]
<1>1. <<v>> \in Seq(Uploads) /\ Rows(<<v>>) = {v} /\ TablesOK
  BY DEF Rows, RemovalInv, RemovalTypeOK
<1>2. \A u \in Uploads : photo'[u] = IF u = v THEN "pending_delete" ELSE photo[u]
  BY <1>1 DEF CreateDeleteJobs
<1>3. QED
  BY <1>1, <1>2, CreateJobs DEF JobsGrow

\* The steps of an upload do, while a crane is deleted.
LEMMA RequestBeside ==
  ASSUME RemovalInv, NEW v \in Uploads, RequestStep(v),
         UNCHANGED workerVars, UNCHANGED deletionVars
  PROVE  /\ RemovalTypeOK' /\ BatchesOK' /\ JobsGrow
         /\ \A u \in Uploads : Moves(u) /\ Held(u)'
<1> USE ActorAssumption, DoomedAssumption
<1>1. /\ photo \in [Uploads -> PhotoStatus] /\ upc \in [Uploads -> Open \cup {"done"}]
      /\ reply \in [Uploads -> Reply] /\ craneLock \in [Cranes -> Uploads \cup {NoOne}]
      /\ photoLock \in [Uploads -> Uploads \cup Workers \cup Admins \cup {NoOne, Remover}]
      /\ overdue \subseteq Uploads /\ objects \subseteq Uploads /\ jobs \in Seq(Job)
      /\ UNCHANGED <<batch, wpc, reaping>>
  BY DEF RemovalInv, RemovalTypeOK, TablesOK, UploadTypeOK, workerVars
<1>2. WorkerTypeOK' /\ DeletionTypeOK'
  BY DEF RemovalInv, RemovalTypeOK, TablesOK, WorkerTypeOK, DeletionTypeOK, workerVars,
         deletionVars, OfCrane
<1>3. Held(v) /\ Accounted(v) /\ BatchesOK /\ \A u \in Uploads : Held(u)
  BY DEF RemovalInv, Outgoing
<1>4. CASE AbandonCommit(v)
  <2>1. /\ upc[v] = "abandon_commit" /\ CreateDeleteJobs(<<v>>) /\ photo[v] # "absent"
        /\ UNCHANGED <<objects, craneLock>>
    BY <1>3, <1>4 DEF AbandonCommit, Held
  <2>2. /\ JobsGrow
        /\ photo' \in [Uploads -> PhotoStatus] /\ overdue' \subseteq Uploads
        /\ jobs' \in Seq(Job)
        /\ photo'[v] = "pending_delete"
        /\ \A u \in Uploads : u # v => photo'[u] = photo[u]
    BY <2>1, OneRowHandedOver
  <2>3. /\ upc' \in [Uploads -> Open \cup {"done"}] /\ reply' \in [Uploads -> Reply]
        /\ photoLock' \in [Uploads -> Uploads \cup Workers \cup Admins \cup {NoOne, Remover}]
        /\ upc'[v] = "done" /\ \A u \in Uploads : u # v => upc'[u] = upc[u]
        /\ \A u \in Uploads : photoLock'[u] = IF photoLock[u] = v THEN NoOne ELSE photoLock[u]
    BY <1>1, <1>4 DEF AbandonCommit, ReleasePhoto, EndAbandon, Respond, Reply
  <2>4. RemovalTypeOK'
    BY <1>1, <1>2, <2>1, <2>2, <2>3 DEF RemovalTypeOK, TablesOK, UploadTypeOK
  <2>5. BatchesOK'
    BY <1>1, <1>3, <2>2 DEF BatchesOK, JobsGrow
  <2>6. ASSUME NEW u \in Uploads
        PROVE  Moves(u)
    BY <1>1, <1>3, <2>1, <2>2, <2>3 DEF Moves, Preupload, Ended
  <2>7. ASSUME NEW u \in Uploads
        PROVE  Held(u)'
    <3>1. CASE u = v
      BY <1>1, <1>3, <2>1, <2>2, <2>3, <3>1 DEF Held
    <3>2. CASE u # v
      BY <1>1, <1>3, <2>1, <2>2, <2>3, <3>2 DEF Held
    <3>3. QED
      BY <3>1, <3>2
  <2>8. QED
    BY <2>2, <2>4, <2>5, <2>6, <2>7
<1>5. CASE ~AbandonCommit(v)
  <2>1. /\ jobs' = jobs
        /\ photo' \in [Uploads -> PhotoStatus] /\ overdue' \subseteq Uploads
        /\ objects' \subseteq Uploads
    BY <1>1, <1>5
    DEF RequestStep, RejectInvalid, CraneNotFound, LockCrane, LimitExceeded, BelowLimit,
        InsertPhoto, PreuploadDbError, StoreObject, StoreObjectFails, Finalize,
        FinalizeRace, CommitActive, FinalizeDbError, AbandonRead, AbandonFlush,
        AbandonDbError, RequestDies, storeVars, Activate, PhotoStatus
  <2>2. /\ upc' \in [Uploads -> Open \cup {"done"}] /\ reply' \in [Uploads -> Reply]
        /\ craneLock' \in [Cranes -> Uploads \cup {NoOne}]
    BY <1>1, <1>5
    DEF RequestStep, RejectInvalid, CraneNotFound, LockCrane, LimitExceeded, BelowLimit,
        InsertPhoto, PreuploadDbError, StoreObject, StoreObjectFails, Finalize,
        FinalizeRace, CommitActive, FinalizeDbError, AbandonRead, AbandonFlush,
        AbandonDbError, RequestDies, Goto, Respond, EndAbandon, ReleaseCrane,
        Open, Preupload, Reply
  <2>3. photoLock' \in [Uploads -> Uploads \cup Workers \cup Admins \cup {NoOne, Remover}]
    BY <1>1, <1>5
    DEF RequestStep, RejectInvalid, CraneNotFound, LockCrane, LimitExceeded, BelowLimit,
        InsertPhoto, PreuploadDbError, StoreObject, StoreObjectFails, Finalize,
        FinalizeRace, CommitActive, FinalizeDbError, AbandonRead, AbandonFlush,
        AbandonDbError, RequestDies, storeVars, ReleasePhoto
  <2>4. RemovalTypeOK' /\ JobsGrow /\ BatchesOK'
    BY <1>1, <1>2, <1>3, <2>1, <2>2, <2>3
    DEF RemovalTypeOK, TablesOK, UploadTypeOK, JobsGrow, BatchesOK
  <2>5. ASSUME NEW u \in Uploads, u # v
        PROVE  /\ photo'[u] = photo[u] /\ upc'[u] = upc[u]
               /\ u \in objects' <=> u \in objects
               /\ photoLock'[u] = photoLock[u]
    BY <1>1, <1>3, <1>5, <2>5
    DEF RequestStep, RejectInvalid, CraneNotFound, LockCrane, LimitExceeded, BelowLimit,
        InsertPhoto, PreuploadDbError, StoreObject, StoreObjectFails, Finalize,
        FinalizeRace, CommitActive, FinalizeDbError, AbandonRead, AbandonFlush,
        AbandonDbError, RequestDies, Goto, Respond, EndAbandon, Activate, ReleasePhoto,
        storeVars, Held
  <2>6. ASSUME NEW c \in Cranes, craneLock[c] # v, craneLock[c] # NoOne
        PROVE  craneLock'[c] = craneLock[c]
    BY <1>1, <1>5, <2>6
    DEF RequestStep, RejectInvalid, CraneNotFound, LockCrane, LimitExceeded, BelowLimit,
        InsertPhoto, PreuploadDbError, StoreObject, StoreObjectFails, Finalize,
        FinalizeRace, CommitActive, FinalizeDbError, AbandonRead, AbandonFlush,
        AbandonDbError, RequestDies, ReleaseCrane
  <2>7. Held(v)'
    BY <1>1, <1>3, <1>5
    DEF RequestStep, RejectInvalid, CraneNotFound, LockCrane, LimitExceeded, BelowLimit,
        InsertPhoto, PreuploadDbError, StoreObject, StoreObjectFails, Finalize,
        FinalizeRace, CommitActive, FinalizeDbError, AbandonRead, AbandonFlush,
        AbandonDbError, RequestDies, Goto, Respond, EndAbandon, Activate, ReleasePhoto,
        storeVars, Held, Accounted, Unlocked, Preupload
  <2>8. ASSUME NEW u \in Uploads, u # v
        PROVE  Held(u)'
    <3>1. Held(u) /\ photo'[u] = photo[u] /\ upc'[u] = upc[u] /\ photoLock'[u] = photoLock[u]
      BY <1>3, <2>5, <2>8
    <3>2. upc[u] \in {"count", "insert"} => craneLock'[CraneOf[u]] = craneLock[CraneOf[u]]
      BY <2>6, <2>8, <3>1 DEF Held
    <3>3. QED
      BY <1>1, <3>1, <3>2 DEF Held
  <2>9. Moves(v)
    BY <1>1, <1>3, <1>5
    DEF RequestStep, RejectInvalid, CraneNotFound, LockCrane, LimitExceeded, BelowLimit,
        InsertPhoto, PreuploadDbError, StoreObject, StoreObjectFails, Finalize,
        FinalizeRace, CommitActive, FinalizeDbError, AbandonRead, AbandonFlush,
        AbandonDbError, RequestDies, Goto, Respond, EndAbandon, Activate, ReleasePhoto,
        storeVars, Held, Accounted, Moves, Unlocked, Preupload, Ended, Open
  <2>10. ASSUME NEW u \in Uploads, u # v
        PROVE  Moves(u)
    BY <2>5, <2>10 DEF Moves, Preupload, Ended
  <2>11. QED
    BY <2>4, <2>7, <2>8, <2>9, <2>10
<1>6. QED
  BY <1>4, <1>5

\* The first job of a batch is a job of a row on its way out, and what follows
\* it is a batch.
LEMMA BatchHeadBeside ==
  ASSUME RemovalInv, NEW w \in Workers, batch[w] # <<>>
  PROVE  /\ Head(batch[w]) \in DOMAIN jobs
         /\ jobs[Head(batch[w])] \in Job
         /\ jobs[Head(batch[w])].key \in Uploads
         /\ photo[jobs[Head(batch[w])].key] \in {"pending_delete", "absent"}
         /\ Tail(batch[w]) \in Seq(Nat)
         /\ \A k \in DOMAIN Tail(batch[w]) : Tail(batch[w])[k] \in DOMAIN jobs
<1>1. batch[w] \in Seq(Nat) /\ TablesOK
  BY DEF RemovalInv, RemovalTypeOK, TablesOK, WorkerTypeOK
<1>2. \A k \in DOMAIN batch[w] : batch[w][k] \in DOMAIN jobs
  BY DEF RemovalInv, Outgoing, BatchesOK
<1>3. Len(batch[w]) \in Nat \ {0} /\ DOMAIN batch[w] = 1..Len(batch[w])
  BY <1>1, EmptySeq, LenProperties
<1>4. Head(batch[w]) = batch[w][1] /\ 1 \in DOMAIN batch[w]
  BY <1>1, <1>3
<1>5. /\ Tail(batch[w]) \in Seq(Nat)
      /\ \A k \in DOMAIN Tail(batch[w]) :
           k + 1 \in DOMAIN batch[w] /\ Tail(batch[w])[k] = batch[w][k + 1]
  BY <1>1, <1>3
<1>6. QED
  BY <1>1, <1>2, <1>4, <1>5, JobKeys DEF RemovalInv, Outgoing

\* A worker's jobs stay the jobs they were, or its reaper adds some.
LEMMA WorkerJobsBeside ==
  ASSUME RemovalInv, NEW w \in Workers, WorkerStep(w), ~ReapCommit(w)
  PROVE  SameJobs
<1>1. TablesOK /\ jobs \in Seq(Job)
  BY DEF RemovalInv, RemovalTypeOK, TablesOK
<1>2. CASE Claim(w) \/ ClaimDbError(w)
  <2>1. PICK S : MarkClaimed(S)
    BY <1>2 DEF Claim, ClaimDbError
  <2>2. QED
    BY <1>1, <2>1, ClaimJobs
<1>3. CASE CaptureSuccess(w)
  <2>1. batch[w] # <<>>
    BY <1>3 DEF CaptureSuccess, RemovalInv, Outgoing, BatchesOK
  <2>2. jobs[Head(batch[w])].available \in BOOLEAN
    BY <2>1, BatchHeadBeside DEF Job
  <2>3. QED
    BY <1>1, <1>3, <2>2, SaveJobs DEF CaptureSuccess, JobStatus
<1>4. CASE CaptureFailure(w)
  <2>1. PICK s \in {"pending", "failed"} : SaveJob(w, s, FALSE)
    BY <1>4 DEF CaptureFailure
  <2>2. QED
    BY <1>1, <2>1, SaveJobs DEF JobStatus
<1>5. CASE UNCHANGED jobs
  BY <1>1, <1>5 DEF SameJobs
<1>6. QED
  BY <1>2, <1>3, <1>4, <1>5
  DEF WorkerStep, DeleteObject, DeleteObjectFails, EndBatch, LoadJob, RecordDbError,
      ReapSelect, ReapDbError, Signal, Exit, Crash, Restart, storeVars

\* The worker's own variables: what it claims and reaps has the right type.
LEMMA WorkerTypesBeside ==
  ASSUME RemovalInv, NEW w \in Workers, WorkerStep(w)
  PROVE  /\ WorkerTypeOK'
         /\ \A v \in Workers : v # w =>
              batch'[v] = batch[v] /\ wpc'[v] = wpc[v] /\ reaping'[v] = reaping[v]
<1>1. /\ jobs \in Seq(Job) /\ overdue \subseteq Uploads
      /\ wpc \in [Workers -> Points] /\ batch \in [Workers -> Seq(Nat)]
      /\ err \in [Workers -> BOOLEAN] /\ shutdown \in [Workers -> BOOLEAN]
      /\ loaded \in [Workers -> [status : JobStatus, attempts : Nat, lease : Lease]]
      /\ reaping \in [Workers -> Seq(Uploads)] /\ BatchesOK
  BY DEF RemovalInv, RemovalTypeOK, TablesOK, WorkerTypeOK, Outgoing
<1>2. <<>> \in Seq(Nat) /\ <<>> \in Seq(Uploads) /\ NotLoaded \in [status : JobStatus, attempts : Nat, lease : Lease]
  BY DEF NotLoaded, JobStatus, Lease
<1>3. \A sel \in Selections(Claimable) : sel \in Seq(Nat)
  <2>1. Claimable \subseteq Nat
    BY <1>1 DEF Claimable
  <2>2. QED
    BY <2>1, SelectionType, SeqMonotonic
<1>4. \A sel \in Selections(Reapable) : sel \in Seq(Uploads)
  <2>1. Reapable \subseteq Uploads
    BY <1>1 DEF Reapable
  <2>2. QED
    BY <2>1, SelectionType, SeqMonotonic
<1>5. batch[w] # <<>> => Tail(batch[w]) \in Seq(Nat) /\ jobs[Head(batch[w])] \in Job
  BY BatchHeadBeside
<1>6. wpc[w] \in {"load", "save"} => batch[w] # <<>>
  BY <1>1 DEF BatchesOK
<1>7. CASE LoadJob(w)
  <2>1. loaded'[w] \in [status : JobStatus, attempts : Nat, lease : Lease]
    BY <1>1, <1>5, <1>6, <1>7 DEF LoadJob, Job
  <2>2. QED
    BY <1>1, <1>7, <2>1 DEF LoadJob, WGoto, WorkerTypeOK, Points
<1>8. CASE Claim(w)
  BY <1>1, <1>3, <1>8 DEF Claim, WGoto, WorkerTypeOK, Points
<1>9. CASE ReapSelect(w)
  BY <1>1, <1>4, <1>9 DEF ReapSelect, WGoto, WorkerTypeOK, Points
<1>10. ASSUME NextJob(w), batch[w] # <<>>, UNCHANGED <<reaping, shutdown>>
       PROVE  /\ WorkerTypeOK'
              /\ \A v \in Workers : v # w =>
                   batch'[v] = batch[v] /\ wpc'[v] = wpc[v] /\ reaping'[v] = reaping[v]
  BY <1>1, <1>2, <1>5, <1>10 DEF NextJob, WGoto, WorkerTypeOK, Points
<1>11. CASE CaptureSuccess(w) \/ CaptureFailure(w) \/ RecordDbError(w)
  BY <1>6, <1>10, <1>11 DEF CaptureSuccess, CaptureFailure, RecordDbError
<1>12. CASE ReapCommit(w)
  BY SMTT(30), <1>1, <1>2, <1>12 DEF ReapCommit, EndReap, WGoto, WorkerTypeOK, Points
<1>13. CASE ReapDbError(w)
  BY SMTT(30), <1>1, <1>2, <1>13 DEF ReapDbError, EndReap, WGoto, WorkerTypeOK, Points
<1>14. CASE Crash(w)
  <2>1. /\ wpc' \in [Workers -> Points] /\ batch' \in [Workers -> Seq(Nat)]
        /\ err' \in [Workers -> BOOLEAN] /\ shutdown' \in [Workers -> BOOLEAN]
        /\ reaping' \in [Workers -> Seq(Uploads)]
    BY <1>1, <1>2, <1>14 DEF Crash, EndReap, WGoto, Points
  <2>2. loaded' \in [Workers -> [status : JobStatus, attempts : Nat, lease : Lease]]
    BY <1>1, <1>2, <1>14 DEF Crash
  <2>3. \A v \in Workers : v # w =>
          batch'[v] = batch[v] /\ wpc'[v] = wpc[v] /\ reaping'[v] = reaping[v]
    BY <1>1, <1>14 DEF Crash, EndReap, WGoto
  <2>4. QED
    BY SMTT(30), <2>1, <2>2, <2>3 DEF WorkerTypeOK
<1>15. CASE ClaimDbError(w) \/ EndBatch(w)
  <2>1. /\ WGoto(w, "reap") /\ UNCHANGED <<err, loaded, reaping, shutdown>>
        /\ batch' = batch \/ batch' = [batch EXCEPT ![w] = <<>>]
    BY <1>15 DEF ClaimDbError, EndBatch
  <2>2. /\ wpc' \in [Workers -> Points]
        /\ \A v \in Workers : v # w => wpc'[v] = wpc[v]
    BY <1>1, <2>1 DEF WGoto, Points
  <2>3. /\ batch' \in [Workers -> Seq(Nat)]
        /\ \A v \in Workers : v # w => batch'[v] = batch[v]
    BY <1>1, <1>2, <2>1
  <2>4. QED
    BY <1>1, <2>1, <2>2, <2>3 DEF WorkerTypeOK
<1>16. CASE DeleteObject(w) \/ DeleteObjectFails(w)
  <2>1. /\ \E e \in BOOLEAN : err' = [err EXCEPT ![w] = e]
        /\ WGoto(w, "load") /\ UNCHANGED <<batch, loaded, reaping, shutdown>>
    BY <1>16 DEF DeleteObject, DeleteObjectFails
  <2>2. QED
    BY <1>1, <2>1 DEF WGoto, WorkerTypeOK, Points
<1>17. CASE Signal(w) \/ Exit(w) \/ Restart(w)
  BY <1>1, <1>17 DEF Signal, Exit, Restart, WGoto, WorkerTypeOK, Points, storeVars
<1>18. QED
  BY <1>7, <1>8, <1>9, <1>11, <1>12, <1>13, <1>14, <1>15, <1>16, <1>17 DEF WorkerStep

\* The steps of the worker do.
LEMMA WorkerBeside ==
  ASSUME RemovalInv, NEW w \in Workers, WorkerStep(w),
         UNCHANGED requestVars, UNCHANGED deletionVars
  PROVE  /\ RemovalTypeOK' /\ BatchesOK' /\ JobsGrow
         /\ \A u \in Uploads : Moves(u) /\ Held(u)'
<1> USE ActorAssumption, DoomedAssumption
<1>1. /\ photo \in [Uploads -> PhotoStatus] /\ TablesOK
      /\ photoLock \in [Uploads -> Uploads \cup Workers \cup Admins \cup {NoOne, Remover}]
      /\ overdue \subseteq Uploads /\ objects \subseteq Uploads /\ jobs \in Seq(Job)
      /\ wpc \in [Workers -> Points] /\ batch \in [Workers -> Seq(Nat)]
      /\ reaping \in [Workers -> Seq(Uploads)]
      /\ UNCHANGED <<upc, craneLock>>
  BY DEF RemovalInv, RemovalTypeOK, TablesOK, WorkerTypeOK, requestVars
<1>2. UploadTypeOK' /\ DeletionTypeOK'
  BY DEF RemovalInv, RemovalTypeOK, UploadTypeOK, DeletionTypeOK, requestVars,
         deletionVars, OfCrane
<1>3. BatchesOK /\ \A u \in Uploads : Held(u) /\ Accounted(u)
  BY DEF RemovalInv, Outgoing
<1>4. /\ WorkerTypeOK'
      /\ \A v \in Workers : v # w =>
           batch'[v] = batch[v] /\ wpc'[v] = wpc[v] /\ reaping'[v] = reaping[v]
  BY WorkerTypesBeside
<1>5. CASE ReapCommit(w)
  <2> DEFINE us == reaping[w]
  <2>1. /\ us \in Seq(Uploads) /\ CreateDeleteJobs(us) /\ reaping'[w] = <<>>
        /\ objects' = objects /\ batch' = batch /\ wpc'[w] = "claim"
        /\ \A u \in Uploads : photoLock'[u] = IF photoLock[u] = w THEN NoOne ELSE photoLock[u]
        /\ photoLock' \in [Uploads -> Uploads \cup Workers \cup Admins \cup {NoOne, Remover}]
    BY <1>1, <1>5 DEF ReapCommit, EndReap, WGoto
  <2>2. \A u \in Rows(us) : u \in Uploads /\ photoLock[u] = w /\ photo[u] = "pending_upload"
    <3>1. \A i \in DOMAIN us : us[i] \in Uploads
      BY <2>1, LenProperties, ElementOfSeq
    <3>2. \A u \in Rows(us) : u \in Uploads
      BY <3>1 DEF Rows
    <3>3. QED
      BY <1>3, <3>2 DEF Held
  <2>3. \A u \in Uploads : photo'[u] = IF u \in Rows(us) THEN "pending_delete" ELSE photo[u]
    BY <2>1 DEF CreateDeleteJobs
  <2>4. /\ photo' \in [Uploads -> PhotoStatus] /\ overdue' \subseteq Uploads
        /\ jobs' \in Seq(Job) /\ JobsGrow
    <3>1. us \in Seq(Uploads) /\ CreateDeleteJobs(us) /\ TablesOK
      BY <1>1, <2>1
    <3> HIDE DEF us
    <3>2. QED
      BY <2>2, <2>3, <3>1, CreateJobs DEF JobsGrow
  <2> HIDE DEF us
  <2>5. RemovalTypeOK'
    BY <1>1, <1>2, <1>4, <2>1, <2>4 DEF RemovalTypeOK, TablesOK
  <2>6. BatchesOK'
    BY <1>1, <1>3, <1>4, <2>1, <2>4 DEF BatchesOK, JobsGrow
  <2>7. ASSUME NEW u \in Uploads
        PROVE  Moves(u)
    BY SMTT(30), <1>1, <1>3, <2>1, <2>2, <2>3, <2>7 DEF Moves, Accounted, Ended
  <2>8. ASSUME NEW u \in Uploads
        PROVE  Held(u)'
    <3>1. Held(u) /\ (u \in Rows(us) => photoLock[u] = w)
      BY <1>3, <2>2
    <3>2. \A v \in Workers : u \in Rows(reaping'[v]) => v # w
      BY <2>1 DEF Rows
    <3>3. QED
      BY <1>1, <1>4, <2>1, <2>3, <3>1, <3>2 DEF Held
  <2>9. QED
    BY <2>4, <2>5, <2>6, <2>7, <2>8
<1>6. CASE ~ReapCommit(w)
  <2>1. SameJobs
    BY <1>6, WorkerJobsBeside
  <2>2. JobsGrow
    BY <2>1 DEF SameJobs, JobsGrow
  <2>3. batch[w] # <<>> => /\ jobs[Head(batch[w])].key \in Uploads
                           /\ photo[jobs[Head(batch[w])].key] \in {"pending_delete", "absent"}
                           /\ Head(batch[w]) \in DOMAIN jobs
                           /\ \A k \in DOMAIN Tail(batch[w]) : Tail(batch[w])[k] \in DOMAIN jobs
    BY BatchHeadBeside
  <2>4. BatchesOK'
    <3>1. CASE Claim(w)
      <4>1. PICK sel \in Selections(Claimable) : batch' = [batch EXCEPT ![w] = sel]
        BY <3>1 DEF Claim
      <4>2. Rows(sel) \subseteq Claimable /\ batch'[w] = sel /\ wpc'[w] = "delete"
        BY <1>1, <3>1, <4>1, SelectionType DEF Claim, WGoto
      <4>3. \A k \in DOMAIN sel : sel[k] \in DOMAIN jobs
        BY <4>2 DEF Rows, Claimable
      <4>4. QED
        BY <1>3, <1>4, <2>1, <4>2, <4>3 DEF BatchesOK, SameJobs
    <3>2. CASE CaptureSuccess(w) \/ CaptureFailure(w) \/ RecordDbError(w)
      <4>1. batch[w] # <<>> /\ batch'[w] = Tail(batch[w]) /\ wpc'[w] = "delete"
        BY <1>1, <1>3, <3>2
        DEF CaptureSuccess, CaptureFailure, RecordDbError, NextJob, WGoto, BatchesOK
      <4>2. QED
        BY <1>3, <1>4, <2>1, <2>3, <4>1 DEF BatchesOK, SameJobs
    <3>3. QED
      BY <1>1, <1>3, <1>4, <1>6, <2>1, <3>1, <3>2
      DEF WorkerStep, ClaimDbError, DeleteObject, DeleteObjectFails, EndBatch, LoadJob,
          ReapSelect, ReapDbError, Signal, Exit, Crash, Restart, WGoto, storeVars,
          BatchesOK, SameJobs
  <2>5. /\ photo' \in [Uploads -> PhotoStatus] /\ overdue' \subseteq Uploads
        /\ objects' \subseteq objects
        /\ photoLock' \in [Uploads -> Uploads \cup Workers \cup Admins \cup {NoOne, Remover}]
    <3>1. CASE CaptureSuccess(w)
      BY <1>1, <3>1 DEF CaptureSuccess, PhotoStatus
    <3>2. CASE ReapSelect(w) \/ ReapDbError(w) \/ Crash(w)
      BY <1>1, <3>2 DEF ReapSelect, ReapDbError, Crash, EndReap
    <3>3. QED
      BY <1>1, <1>6, <3>1, <3>2
      DEF WorkerStep, Claim, ClaimDbError, DeleteObject, DeleteObjectFails, EndBatch,
          LoadJob, CaptureFailure, RecordDbError, Signal, Exit, Restart, storeVars
  <2>6. RemovalTypeOK'
    BY <1>1, <1>2, <1>4, <2>1, <2>5 DEF RemovalTypeOK, TablesOK, SameJobs
  <2>7. ASSUME NEW u \in Uploads
        PROVE  /\ \/ photo'[u] = photo[u]
                  \/ /\ photo'[u] = "absent" /\ photo[u] \in {"pending_delete", "absent"}
                     /\ JobsOf(u) # {} /\ photoLock[u] = NoOne /\ photoLock' = photoLock
                     /\ reaping' = reaping
               /\ u \in objects \ objects' => photo[u] \in {"pending_delete", "absent"}
    <3>1. wpc[w] \in {"load", "save"} => batch[w] # <<>>
      BY <1>3 DEF BatchesOK
    <3>2. CASE CaptureSuccess(w)
      BY <1>1, <2>3, <3>1, <3>2 DEF CaptureSuccess, Unlocked, JobsOf
    <3>3. QED
      BY <1>1, <1>6, <2>3, <3>2
      DEF WorkerStep, Claim, ClaimDbError, DeleteObject, DeleteObjectFails, EndBatch,
          LoadJob, CaptureFailure, RecordDbError, ReapSelect, ReapDbError,
          Signal, Exit, Crash, Restart, storeVars
  <2>8. ASSUME NEW u \in Uploads
        PROVE  /\ \/ photoLock'[u] = photoLock[u]
                  \/ photoLock[u] = w /\ photoLock'[u] = NoOne /\ reaping'[w] = <<>>
                  \/ /\ photoLock[u] = NoOne /\ photoLock'[u] = w
                     /\ photo[u] = "pending_upload" /\ photo' = photo
               /\ u \in Rows(reaping'[w]) =>
                    \/ u \in Rows(reaping[w]) /\ photoLock'[u] = photoLock[u]
                    \/ photoLock'[u] = w /\ photo[u] = "pending_upload" /\ photo' = photo
    <3>1. CASE ReapSelect(w)
      <4>1. PICK sel \in Selections(Reapable) :
              /\ reaping' = [reaping EXCEPT ![w] = sel]
              /\ photoLock' = [x \in Uploads |-> IF x \in Rows(sel) THEN w ELSE photoLock[x]]
        BY <3>1 DEF ReapSelect
      <4>2. Rows(sel) \subseteq Reapable /\ reaping'[w] = sel /\ photo' = photo
        BY <1>1, <3>1, <4>1, SelectionType DEF ReapSelect
      <4>3. u \in Rows(sel) => photoLock[u] = NoOne /\ photo[u] = "pending_upload"
        BY <4>2 DEF Reapable, Unlocked
      <4>4. QED
        BY <4>1, <4>2, <4>3
    <3>2. CASE ReapDbError(w) \/ Crash(w)
      BY <1>1, <3>2 DEF ReapDbError, Crash, EndReap, Rows
    <3>3. CASE photoLock' = photoLock /\ reaping' = reaping
      BY <3>3
    <3>4. QED
      BY <1>6, <3>1, <3>2, <3>3
      DEF WorkerStep, Claim, ClaimDbError, DeleteObject, DeleteObjectFails, EndBatch,
          LoadJob, CaptureSuccess, CaptureFailure, RecordDbError,
          Signal, Exit, Restart, storeVars
  <2>9. ASSUME NEW u \in Uploads
        PROVE  Moves(u)
    BY <1>1, <1>3, <2>5, <2>7, <2>8 DEF Moves, Accounted, Ended
  <2>10. ASSUME NEW u \in Uploads
         PROVE  Held(u)'
    <3>1. Held(u)
      BY <1>3
    <3>2. \A v \in Workers : u \in Rows(reaping'[v]) => photoLock'[u] = v /\ photo'[u] = "pending_upload"
      BY <1>4, <2>7, <2>8, <3>1 DEF Held
    <3>3. QED
      BY <1>1, <2>7, <2>8, <3>1, <3>2 DEF Held
  <2>11. QED
    BY <2>2, <2>4, <2>6, <2>9, <2>10
<1>7. QED
  BY <1>5, <1>6

\* The steps of an administrator do.
LEMMA AdminBeside ==
  ASSUME RemovalInv, NEW a \in Admins, NEW v \in Uploads,
         AdminSelect(a, v) \/ AdminCommit(a, v) \/ AdminFails(a, v),
         UNCHANGED deletionVars
  PROVE  /\ RemovalTypeOK' /\ BatchesOK' /\ JobsGrow
         /\ \A u \in Uploads : Moves(u) /\ Held(u)'
<1> USE ActorAssumption, DoomedAssumption
<1>1. /\ photo \in [Uploads -> PhotoStatus]
      /\ photoLock \in [Uploads -> Uploads \cup Workers \cup Admins \cup {NoOne, Remover}]
      /\ overdue \subseteq Uploads /\ objects \subseteq Uploads /\ jobs \in Seq(Job)
      /\ UNCHANGED <<upc, reply, craneLock, batch, wpc, reaping, objects>>
  BY DEF RemovalInv, RemovalTypeOK, TablesOK, AdminSelect, AdminCommit, AdminFails,
         requestVars, workerVars
<1>2. UploadTypeOK' /\ WorkerTypeOK' /\ DeletionTypeOK'
  BY DEF RemovalInv, RemovalTypeOK, TablesOK, UploadTypeOK, WorkerTypeOK, DeletionTypeOK,
         OfCrane, AdminSelect, AdminCommit, AdminFails, requestVars, workerVars, deletionVars
<1>3. BatchesOK /\ \A u \in Uploads : Held(u) /\ Accounted(u)
  BY DEF RemovalInv, Outgoing
<1>4. photoLock' \in [Uploads -> Uploads \cup Workers \cup Admins \cup {NoOne, Remover}]
  BY <1>1 DEF AdminSelect, AdminCommit, AdminFails
<1>5. CASE AdminCommit(a, v)
  <2>1. CreateDeleteJobs(<<v>>) /\ photoLock[v] = a /\ photo[v] = "active"
    BY <1>3, <1>5 DEF AdminCommit, Held
  <2>2. /\ JobsGrow
        /\ photo' \in [Uploads -> PhotoStatus] /\ overdue' \subseteq Uploads
        /\ jobs' \in Seq(Job)
        /\ photo'[v] = "pending_delete"
        /\ \A u \in Uploads : u # v => photo'[u] = photo[u]
    BY <2>1, OneRowHandedOver
  <2>3. photoLock'[v] = NoOne /\ \A u \in Uploads : u # v => photoLock'[u] = photoLock[u]
    BY <1>1, <1>5 DEF AdminCommit
  <2>4. RemovalTypeOK' /\ BatchesOK'
    BY <1>1, <1>2, <1>3, <1>4, <2>2 DEF RemovalTypeOK, TablesOK, BatchesOK, JobsGrow
  <2>5. ASSUME NEW u \in Uploads
        PROVE  Moves(u) /\ Held(u)'
    BY <1>1, <1>3, <2>1, <2>2, <2>3 DEF Moves, Held, Accounted, Ended
  <2>6. QED
    BY <2>2, <2>4, <2>5
<1>6. CASE AdminSelect(a, v) \/ AdminFails(a, v)
  <2>1. UNCHANGED <<photo, overdue, jobs>>
    BY <1>6 DEF AdminSelect, AdminFails
  <2>2. RemovalTypeOK' /\ BatchesOK' /\ JobsGrow
    BY <1>1, <1>2, <1>3, <1>4, <2>1 DEF RemovalTypeOK, TablesOK, BatchesOK, JobsGrow
  <2>3. ASSUME NEW u \in Uploads
        PROVE  Moves(u) /\ Held(u)'
    BY <1>1, <1>3, <1>6, <2>1 DEF AdminSelect, AdminFails, Unlocked, Moves, Held, Accounted, Ended
  <2>4. QED
    BY <2>2, <2>3
<1>7. QED
  BY <1>5, <1>6

\* A step that leaves rows, objects, locks and actors alone.
LEMMA QuietBeside ==
  ASSUME RemovalInv, UNCHANGED <<photo, objects, photoLock, requestVars, workerVars, deletionVars>>,
         overdue' \subseteq Uploads, SameJobs
  PROVE  /\ RemovalTypeOK' /\ BatchesOK' /\ JobsGrow
         /\ \A u \in Uploads : Moves(u) /\ Held(u)'
<1>1. UNCHANGED <<upc, reply, craneLock, batch, wpc, reaping>>
  BY DEF requestVars, workerVars
<1>2. UploadTypeOK' /\ WorkerTypeOK' /\ DeletionTypeOK'
  BY DEF RemovalInv, RemovalTypeOK, TablesOK, UploadTypeOK, WorkerTypeOK, DeletionTypeOK,
         OfCrane, requestVars, workerVars, deletionVars
<1>3. RemovalTypeOK' /\ JobsGrow
  BY <1>2 DEF RemovalInv, RemovalTypeOK, TablesOK, SameJobs, JobsGrow
<1>4. BatchesOK'
  BY <1>1 DEF RemovalInv, Outgoing, BatchesOK, SameJobs
<1>5. ASSUME NEW u \in Uploads
      PROVE  Moves(u) /\ Held(u)'
  BY <1>1 DEF RemovalInv, Moves, Held, Ended
<1>6. QED
  BY <1>3, <1>4, <1>5

\* So every step beside the deletion keeps the invariant.
LEMMA BesideKeeps ==
  ASSUME RemovalInv, BesideDeletion
  PROVE  RemovalInv'
<1>1. Next /\ UNCHANGED deletionVars /\ (dpc \in {"commit", "deleted"} => craneLock'[Doomed] = NoOne)
  BY DEF BesideDeletion
<1>2. /\ RemovalTypeOK' /\ BatchesOK' /\ JobsGrow
      /\ \A u \in Uploads : Moves(u) /\ Held(u)'
  <2>1. CASE Request
    BY <1>1, <2>1, RequestBeside DEF Request
  <2>2. CASE Worker
    BY <1>1, <2>2, WorkerBeside DEF Worker
  <2>3. CASE Admin
    <3>1. PICK a \in Admins, u \in Uploads :
            AdminSelect(a, u) \/ AdminCommit(a, u) \/ AdminFails(a, u)
      BY <2>3 DEF Admin
    <3>2. QED
      BY <1>1, <3>1, AdminBeside
  <2>4. CASE Time
    <3>1. SameJobs
      BY <2>4, TimeJobs DEF RemovalInv, RemovalTypeOK
    <3>2. /\ UNCHANGED <<photo, objects, photoLock, requestVars, workerVars>>
          /\ overdue' \subseteq Uploads
      BY <2>4 DEF Time, WindowElapses, BackoffElapses, LeaseExpires, RemovalInv, RemovalTypeOK, TablesOK
    <3>3. QED
      BY <1>1, <3>1, <3>2, QuietBeside
  <2>5. QED
    BY <1>1, <2>1, <2>2, <2>3, <2>4 DEF Next
<1>3. QED
  BY <1>1, <1>2, MovesKeep

\* The answer to an upload for the crane that is gone.
LEMMA CraneGoneKeeps ==
  ASSUME RemovalInv, NEW v \in Uploads, CraneGone(v)
  PROVE  RemovalInv'
<1>1. /\ UNCHANGED <<photo, overdue, jobs, objects, photoLock, craneLock, batch, wpc, reaping>>
      /\ UNCHANGED deletionVars
  BY DEF CraneGone, storeVars, workerVars
<1>2. /\ upc \in [Uploads -> Open \cup {"done"}] /\ reply \in [Uploads -> Reply]
      /\ jobs \in Seq(Job)
  BY DEF RemovalInv, RemovalTypeOK, UploadTypeOK, TablesOK
<1>3. /\ upc' \in [Uploads -> Open \cup {"done"}] /\ reply' \in [Uploads -> Reply]
      /\ upc[v] = "start" /\ upc'[v] = "done"
      /\ \A u \in Uploads : u # v => upc'[u] = upc[u]
  BY <1>2 DEF CraneGone, Respond, Reply
<1>4. RemovalTypeOK'
  BY <1>1, <1>3
  DEF RemovalInv, RemovalTypeOK, TablesOK, UploadTypeOK, WorkerTypeOK, DeletionTypeOK,
      OfCrane, CraneGone, workerVars, deletionVars
<1>5. BatchesOK' /\ JobsGrow
  BY <1>1 DEF RemovalInv, Outgoing, BatchesOK, JobsGrow
<1>6. ASSUME NEW u \in Uploads
      PROVE  Moves(u) /\ Held(u)'
  BY <1>1, <1>3 DEF RemovalInv, Moves, Held, Preupload, Ended
<1>7. dpc \in {"commit", "deleted"} => craneLock'[Doomed] = NoOne
  BY <1>1 DEF RemovalInv, DeletionInv
<1>8. QED
  BY <1>1, <1>4, <1>5, <1>6, <1>7, MovesKeep

(***************************************************************************)
(* The steps of the deletion.                                              *)
(***************************************************************************)
\* What none of them changes.
LEMMA DeletionLeaves ==
  ASSUME RemovalInv, DeletionStep
  PROVE  /\ UNCHANGED <<jobs, upc, reply, craneLock, batch, wpc, reaping>>
         /\ WorkerTypeOK' /\ UploadTypeOK' /\ jobs' \in Seq(Job) /\ BatchesOK'
         /\ \A u : JobsOf(u)' = JobsOf(u)
         /\ OfCrane' = OfCrane /\ late' \subseteq OfCrane
         /\ objects' \subseteq objects
<1>1. UNCHANGED <<jobs, requestVars, workerVars>> /\ objects' \subseteq objects
  BY DEF DeletionStep, ReadCrane, DeletePhotoObject, AllObjectsDeleted, DeletePhotoRow,
         PhotoRowsDeleted, deletionVars, DeleteCraneRow, CommitDeletion, DeletionFails,
         vars, storeVars
<1>2. late' \subseteq OfCrane
  BY DEF RemovalInv, RemovalTypeOK, DeletionTypeOK,
         DeletionStep, ReadCrane, DeletePhotoObject, AllObjectsDeleted, DeletePhotoRow,
         PhotoRowsDeleted, deletionVars, DeleteCraneRow, CommitDeletion, DeletionFails
<1>3. UNCHANGED <<jobs, upc, reply, craneLock, batch, wpc, reaping>>
  BY <1>1 DEF requestVars, workerVars
<1>4. WorkerTypeOK' /\ UploadTypeOK' /\ jobs' \in Seq(Job)
  BY <1>1 DEF RemovalInv, RemovalTypeOK, TablesOK, WorkerTypeOK, UploadTypeOK, workerVars, requestVars
<1>5. BatchesOK'
  BY <1>3 DEF RemovalInv, Outgoing, BatchesOK
<1>6. \A u : JobsOf(u)' = JobsOf(u)
  BY <1>1 DEF JobsOf
<1>7. OfCrane' = OfCrane
  BY DEF OfCrane
<1>8. QED
  BY <1>1, <1>2, <1>3, <1>4, <1>5, <1>6, <1>7

\* A step takes locks that are free, or lets them go; a row goes only under such
\* a lock, an object only once it is targeted.
LEMMA DeletionKeeps ==
  ASSUME RemovalInv, DeletionStep
  PROVE  RemovalInv'
<1> USE ActorAssumption, DoomedAssumption
<1>1. /\ UNCHANGED <<jobs, upc, reply, craneLock, batch, wpc, reaping>>
      /\ WorkerTypeOK' /\ UploadTypeOK' /\ jobs' \in Seq(Job) /\ BatchesOK'
      /\ \A u : JobsOf(u)' = JobsOf(u)
      /\ OfCrane' = OfCrane /\ late' \subseteq OfCrane
      /\ objects' \subseteq objects
  BY DeletionLeaves
<1>2. /\ photo \in [Uploads -> PhotoStatus] /\ overdue \subseteq Uploads
      /\ photoLock \in [Uploads -> Uploads \cup Workers \cup Admins \cup {NoOne, Remover}]
      /\ objects \subseteq Uploads /\ OfCrane \subseteq Uploads
      /\ dpc \in {"start", "objects", "rows", "crane", "commit", "deleted"}
      /\ read \subseteq OfCrane /\ todo \subseteq read
      /\ targeted \subseteq OfCrane /\ late \subseteq OfCrane
  BY DEF RemovalInv, RemovalTypeOK, TablesOK, DeletionTypeOK, OfCrane
<1>3. /\ \A u \in Uploads : Held(u) /\ Shown(u) /\ Accounted(u) /\ Cleared(u)
      /\ dpc \in {"rows", "crane", "commit", "deleted"} => todo = {}
      /\ dpc = "commit" => \A u \in RowsOfCrane : photoLock[u] = Remover
      /\ dpc \in {"commit", "deleted"} => craneLock[Doomed] = NoOne
      /\ \A i \in DOMAIN jobs : /\ photo[jobs[i].key] \in {"pending_delete", "absent"}
                                /\ upc[jobs[i].key] \notin Preupload
      /\ \A i \in DOMAIN jobs : jobs[i].key \in Uploads
  BY JobKeys DEF RemovalInv, RemovalTypeOK, DeletionInv, Outgoing
\* The locks that change are free before, or the deletion's own.
<1>4. \A u \in Uploads :
        \/ photoLock'[u] = photoLock[u]
        \/ photoLock[u] \in {NoOne, Remover} /\ photoLock'[u] \in {NoOne, Remover}
  BY <1>2
  DEF DeletionStep, ReadCrane, DeletePhotoObject, AllObjectsDeleted, DeletePhotoRow,
      PhotoRowsDeleted, deletionVars, DeleteCraneRow, CommitDeletion, DeletionFails,
      RemoverUnlocks, Unlocked, vars, storeVars
<1>5. /\ photoLock' \in [Uploads -> Uploads \cup Workers \cup Admins \cup {NoOne, Remover}]
      /\ overdue' \subseteq Uploads
  BY <1>2
  DEF DeletionStep, ReadCrane, DeletePhotoObject, AllObjectsDeleted, DeletePhotoRow,
      PhotoRowsDeleted, deletionVars, DeleteCraneRow, CommitDeletion, DeletionFails,
      RemoverUnlocks, vars, storeVars
<1>6. CASE CommitDeletion
  <2>1. /\ dpc = "commit" /\ dpc' = "deleted" /\ UNCHANGED <<objects, read, todo, targeted, late>>
        /\ \A u \in Uploads : photo'[u] = IF u \in OfCrane THEN "absent" ELSE photo[u]
        /\ photo' \in [Uploads -> PhotoStatus]
    BY <1>2, <1>6 DEF CommitDeletion, PhotoStatus
  <2>2. RemovalTypeOK'
    BY <1>1, <1>2, <1>5, <2>1 DEF RemovalTypeOK, TablesOK, DeletionTypeOK
  <2>3. ASSUME NEW u \in OfCrane, photo[u] # "absent"
        PROVE  photoLock[u] = Remover
    BY <1>3, <2>1, <2>3 DEF RowsOfCrane
  <2>4. ASSUME NEW u \in Uploads
        PROVE  Held(u)'
    BY <1>1, <1>2, <1>3, <1>4, <2>1, <2>3 DEF Held
  <2>5. ASSUME NEW u \in Uploads
        PROVE  Shown(u)' /\ Accounted(u)' /\ Cleared(u)'
    <3>1. upc[u] = "commit" => u \notin OfCrane
      BY <1>2, <1>3, <2>3 DEF Held
    <3>2. Shown(u)'
      BY <1>1, <1>3, <2>1, <3>1 DEF Shown
    <3>3. Accounted(u)'
      BY <1>1, <1>3, <2>1 DEF Accounted
    <3>4. Cleared(u)'
      BY <1>1, <1>3, <2>1 DEF Cleared, Ended
    <3>5. QED
      BY <3>2, <3>3, <3>4
  <2>6. Outgoing'
    BY <1>1, <1>3, <2>1 DEF Outgoing
  <2>7. DeletionInv'
    BY <1>1, <1>3, <2>1, <2>2 DEF RemovalTypeOK, DeletionInv, RowsOfCrane, OfCrane
  <2>8. QED
    BY <1>3, <2>1, <2>2, <2>4, <2>5, <2>6, <2>7 DEF RemovalInv
<1>7. CASE ~CommitDeletion
  <2>1. photo' = photo
    BY <1>7
    DEF DeletionStep, ReadCrane, DeletePhotoObject, AllObjectsDeleted, DeletePhotoRow,
        PhotoRowsDeleted, deletionVars, DeleteCraneRow, DeletionFails, vars, storeVars
  <2>2. /\ dpc # "deleted" /\ dpc' # "deleted"
        /\ DeletionTypeOK'
    BY <1>1, <1>2, <1>7
    DEF DeletionStep, ReadCrane, DeletePhotoObject, AllObjectsDeleted, DeletePhotoRow,
        PhotoRowsDeleted, deletionVars, DeleteCraneRow, DeletionFails, DeletionTypeOK, RowsOfCrane
  <2>3. RemovalTypeOK'
    BY <1>1, <1>2, <1>5, <2>1, <2>2 DEF RemovalTypeOK, TablesOK
  <2>4. \A u \in objects : u \in objects' \/ u \in targeted'
    BY <1>7
    DEF DeletionStep, ReadCrane, DeletePhotoObject, AllObjectsDeleted, DeletePhotoRow,
        PhotoRowsDeleted, deletionVars, DeleteCraneRow, DeletionFails, vars, storeVars
  <2>5. targeted \subseteq targeted'
    BY <1>7
    DEF DeletionStep, ReadCrane, DeletePhotoObject, AllObjectsDeleted, DeletePhotoRow,
        PhotoRowsDeleted, deletionVars, DeleteCraneRow, DeletionFails
  <2>6. ASSUME NEW u \in Uploads
        PROVE  Held(u)' /\ Shown(u)' /\ Accounted(u)'
    <3>1. Held(u)'
      BY <1>1, <1>2, <1>3, <1>4, <2>1 DEF Held
    <3>2. Shown(u)'
      BY <1>1, <1>3, <2>1, <2>4, <2>5 DEF Shown
    <3>3. Accounted(u)'
      BY <1>1, <1>3, <2>1, <2>2 DEF Accounted, Ended
    <3>4. QED
      BY <3>1, <3>2, <3>3
  <2>7. ASSUME NEW u \in Uploads
        PROVE  Cleared(u)'
    <3>1. CASE ReadCrane
      <4>1. /\ dpc = "start" /\ read' = RowsOfCrane /\ todo' = read' /\ objects' = objects
            /\ late' = {v \in OfCrane : upc[v] # "done"}
        BY <3>1 DEF ReadCrane, vars, storeVars
      <4>2. u \in OfCrane \ late' => Ended(u) /\ upc[u] \notin Preupload
        BY <4>1 DEF Ended, Preupload
      <4>3. u \in OfCrane \ late' /\ u \notin read' /\ u \in objects => JobsOf(u) # {}
        BY <1>3, <4>1, <4>2 DEF Accounted, RowsOfCrane
      <4>4. QED
        BY <1>1, <4>1, <4>2, <4>3 DEF Cleared, Ended
    <3>2. CASE DeletionFails
      BY <3>2 DEF DeletionFails, Cleared
    <3>3. CASE \E v \in OfCrane : DeletePhotoObject(v)
      BY <1>1, <1>3, <3>3 DEF DeletePhotoObject, Cleared, Ended
    <3>4. CASE \/ AllObjectsDeleted \/ (\E v \in OfCrane : DeletePhotoRow(v))
               \/ PhotoRowsDeleted \/ DeleteCraneRow
      BY <1>1, <1>3, <3>4
      DEF AllObjectsDeleted, DeletePhotoRow, PhotoRowsDeleted, DeleteCraneRow, Cleared, Ended,
          vars, storeVars, deletionVars
    <3>5. QED
      BY <1>7, <3>1, <3>2, <3>3, <3>4 DEF DeletionStep
  <2>8. Outgoing'
    BY <1>1, <1>3, <2>1 DEF Outgoing
  <2>9. dpc' \in {"rows", "crane", "commit", "deleted"} => todo' = {}
    BY <1>3, <1>7
    DEF DeletionStep, ReadCrane, DeletePhotoObject, AllObjectsDeleted, DeletePhotoRow,
        PhotoRowsDeleted, deletionVars, DeleteCraneRow, DeletionFails
  <2>10. DeletionInv'
    <3>1. dpc' = "commit" => DeleteCraneRow
      BY <1>7, <2>2
      DEF DeletionStep, ReadCrane, DeletePhotoObject, AllObjectsDeleted, DeletePhotoRow,
          PhotoRowsDeleted, deletionVars, DeletionFails
    <3>2. DeleteCraneRow => /\ \A u \in RowsOfCrane' : photoLock'[u] = Remover
                            /\ craneLock'[Doomed] = NoOne
      BY <1>1, <1>2, <2>1 DEF DeleteCraneRow, RowsOfCrane
    <3>3. QED
      BY <2>2, <3>1, <3>2 DEF DeletionInv
  <2>11. QED
    BY <2>3, <2>6, <2>7, <2>8, <2>9, <2>10 DEF RemovalInv
<1>8. QED
  BY <1>6, <1>7

(***************************************************************************)
(* The theorems.                                                           *)
(***************************************************************************)
\* The invariant holds in every reachable state, however the deletion, its
\* failures and its retries interleave with uploads, admins and workers.
THEOREM RemovalInvariance == DeletionSpec => []RemovalInv
<1>1. DeletionInit => RemovalInv
  <2>1. SUFFICES ASSUME DeletionInit PROVE RemovalInv
    OBVIOUS
  <2>2. Inv
    BY <2>1, InitInv DEF DeletionInit
  <2>3. RemovalTypeOK
    BY <2>1, <2>2, TypeTables
    DEF DeletionInit, Inv, TypeOK, StoreTypeOK, RemovalTypeOK, DeletionTypeOK
  <2>4. \A u \in Uploads : Held(u) /\ Shown(u) /\ Accounted(u) /\ Cleared(u)
    BY <2>1, <2>2, ActorAssumption
    DEF DeletionInit, Init, StoreInit, UploadInit, WorkerInit, Held, Shown, Accounted,
        Cleared, Preupload, Rows
  <2>5. Outgoing
    BY <2>2 DEF Inv, Queue, Outgoing, BatchesOK
  <2>6. QED
    BY <2>1, <2>3, <2>4, <2>5 DEF DeletionInit, RemovalTypeOK, RemovalInv, DeletionInv
<1>2. RemovalInv /\ [DeletionNext]_allVars => RemovalInv'
  <2>1. SUFFICES ASSUME RemovalInv, [DeletionNext]_allVars PROVE RemovalInv'
    OBVIOUS
  <2>2. CASE UNCHANGED allVars
    <3>1. UNCHANGED <<storeVars, requestVars, workerVars, deletionVars>>
      BY <2>2 DEF allVars, vars
    <3>2. /\ UNCHANGED <<photo, overdue, jobs, objects, photoLock>> /\ SameJobs
          /\ overdue' \subseteq Uploads
      BY <2>1, <3>1 DEF storeVars, RemovalInv, RemovalTypeOK, TablesOK, SameJobs
    <3>3. /\ RemovalTypeOK' /\ BatchesOK' /\ JobsGrow
          /\ \A u \in Uploads : Moves(u) /\ Held(u)'
      BY <2>1, <3>1, <3>2, QuietBeside
    <3>4. dpc \in {"commit", "deleted"} => craneLock'[Doomed] = NoOne
      BY <2>1, <3>1 DEF RemovalInv, DeletionInv, requestVars
    <3>5. QED
      BY <2>1, <3>1, <3>3, <3>4, MovesKeep
  <2>3. QED
    BY <2>1, <2>2, BesideKeeps, CraneGoneKeeps, DeletionKeeps DEF DeletionNext
<1>3. QED
  BY <1>1, <1>2, PTL DEF DeletionSpec

\* ON DELETE CASCADE and the locks of delete_crane: once its crane is gone no
\* photo row is left, and none comes back.
THEOREM NoRowWithoutCraneHolds == DeletionSpec => []NoRowWithoutCrane
<1>1. RemovalInv => NoRowWithoutCrane
  BY DEF RemovalInv, DeletionInv, NoRowWithoutCrane
<1>2. QED
  BY <1>1, RemovalInvariance, PTL

\* delete_crane leaves for ever in the bucket only objects of uploads that had
\* not ended when it read the rows of the crane.
THEOREM OnlyLateUploadsLeakHolds == DeletionSpec => []OnlyLateUploadsLeak
<1>1. ASSUME RemovalInv PROVE OnlyLateUploadsLeak
  <2>1. SUFFICES ASSUME dpc = "deleted", NEW u \in OfCrane \cap objects,
                        JobsOf(u) = {}, u \notin late
                 PROVE  FALSE
    BY DEF OnlyLateUploadsLeak
  <2>2. u \in Uploads /\ Cleared(u) /\ todo = {}
    BY <1>1, <2>1 DEF RemovalInv, OfCrane
  <2>3. QED
    BY <2>1, <2>2 DEF Cleared
<1>2. QED
  BY <1>1, RemovalInvariance, PTL

\* A listed photo lacks its object only when delete_crane has set out to delete it.
THEOREM OnlyDeletionBreaksPhotosHolds == DeletionSpec => []OnlyDeletionBreaksPhotos
<1>1. RemovalInv => OnlyDeletionBreaksPhotos
  BY DEF RemovalInv, Shown, OnlyDeletionBreaksPhotos
<1>2. QED
  BY <1>1, RemovalInvariance, PTL
=============================================================================
