----------------------------- MODULE PhotoUpload -----------------------------
(***************************************************************************)
(* POST /cranes/{crane_id}/photos: upload_crane_photo and the service      *)
(* functions it calls.  A request runs three transactions.  The first      *)
(* (preupload_crane_photo) locks the crane, counts its photos and inserts  *)
(* a pending_upload row; then the object is put in the bucket with no      *)
(* transaction open; the second (finalize_crane_photo) makes the row       *)
(* active.  When the put or the second transaction fails, a third one      *)
(* (abandon_crane_photo_upload) hands the row over to the worker.          *)
(*                                                                         *)
(* The database runs at READ COMMITTED: what a transaction writes is seen  *)
(* when it commits, a write to a row that another transaction has locked   *)
(* waits, and a statement that waited looks at the row again.              *)
(***************************************************************************)
EXTENDS PhotoStore

VARIABLES
  upc,          \* where each request is
  reply,        \* its response: "race" is the 503 of PhotoUploadRaceError,
                \* "error" any other failure, a request that dies included
  craneLock     \* request holding each crane row FOR UPDATE

requestVars == <<upc, reply, craneLock>>

\* The points of upload_crane_photo at which a request can be interrupted.
Preupload == {"start", "count", "insert"}
Open == Preupload \cup {"store", "finalize", "commit",
                        "abandon_read", "abandon_write", "abandon_commit"}
Reply == {"none", "created", "race", "error"}

UploadTypeOK ==
  /\ upc \in [Uploads -> Open \cup {"done"}]
  /\ reply \in [Uploads -> Reply]
  /\ craneLock \in [Cranes -> Uploads \cup {NoOne}]

UploadInit ==
  /\ upc = [u \in Uploads |-> "start"]
  /\ reply = [u \in Uploads |-> "none"]
  /\ craneLock = [c \in Cranes |-> NoOne]

-----------------------------------------------------------------------------
Goto(u, pc) == upc' = [upc EXCEPT ![u] = pc] /\ UNCHANGED reply

Respond(u, r) == /\ upc' = [upc EXCEPT ![u] = "done"]
                 /\ reply' = [reply EXCEPT ![u] = r]

\* The abandon is over and the exception that led to it becomes the response.
EndAbandon(u) == Respond(u, IF reply[u] = "race" THEN "race" ELSE "error")

\* The end of the request's transaction, whose only possible row lock on a
\* crane is the one on its own crane.
ReleaseCrane(u) ==
  craneLock' = [c \in Cranes |-> IF craneLock[c] = u THEN NoOne ELSE craneLock[c]]

ReleasePhoto(u) ==
  photoLock' = [v \in Uploads |-> IF photoLock[v] = u THEN NoOne ELSE photoLock[v]]

(***************************************************************************)
(* The first transaction.                                                  *)
(***************************************************************************)
\* The type, name, size or content of the file is refused.
RejectInvalid(u) ==
  /\ upc[u] = "start"
  /\ Respond(u, "error")
  /\ UNCHANGED <<storeVars, craneLock>>

CraneNotFound(u) ==
  /\ upc[u] = "start"
  /\ CraneOf[u] \notin Cranes
  /\ Respond(u, "error")
  /\ UNCHANGED <<storeVars, craneLock>>

\* Mutant: the row is read without FOR UPDATE.
LockCraneNoWait(u) ==
  /\ upc[u] = "start"
  /\ CraneOf[u] \in Cranes
  /\ craneLock' = [craneLock EXCEPT ![CraneOf[u]] = u]
  /\ Goto(u, "count")
  /\ UNCHANGED storeVars

\* SELECT ... FOR UPDATE on the crane waits for another holder of the row.
LockCrane(u) ==
  /\ upc[u] = "start"
  /\ CraneOf[u] \in Cranes
  /\ craneLock[CraneOf[u]] = NoOne
  /\ craneLock' = [craneLock EXCEPT ![CraneOf[u]] = u]
  /\ Goto(u, "count")
  /\ UNCHANGED storeVars

LimitExceeded(u) ==
  /\ upc[u] = "count"
  /\ Cardinality(LivePhotos(CraneOf[u])) >= MaxPhotos
  /\ Respond(u, "error")
  /\ ReleaseCrane(u)
  /\ UNCHANGED storeVars

BelowLimit(u) ==
  /\ upc[u] = "count"
  /\ Cardinality(LivePhotos(CraneOf[u])) < MaxPhotos
  /\ Goto(u, "insert")
  /\ UNCHANGED <<storeVars, craneLock>>

\* Mutant: column status defaults to active.
InsertPhotoActive(u) ==
  /\ upc[u] = "insert"
  /\ photo' = [photo EXCEPT ![u] = "active"]
  /\ ReleaseCrane(u)
  /\ Goto(u, "store")
  /\ UNCHANGED <<overdue, jobs, objects, photoLock>>

InsertPhoto(u) ==
  /\ upc[u] = "insert"
  /\ photo' = [photo EXCEPT ![u] = "pending_upload"]
  /\ ReleaseCrane(u)
  /\ Goto(u, "store")
  /\ UNCHANGED <<overdue, jobs, objects, photoLock>>

\* A database error leaves the handler: nothing catches it.  When it is the
\* commit that fails, the row may be there all the same.
PreuploadDbError(u) ==
  /\ upc[u] \in Preupload
  /\ \/ UNCHANGED photo
     \/ upc[u] = "insert" /\ photo' = [photo EXCEPT ![u] = "pending_upload"]
  /\ ReleaseCrane(u)
  /\ Respond(u, "error")
  /\ UNCHANGED <<overdue, jobs, objects, photoLock>>

(***************************************************************************)
(* The put to the bucket, and the second transaction.                      *)
(***************************************************************************)
StoreObject(u) ==
  /\ upc[u] = "store"
  /\ objects' = objects \cup {u}
  /\ Goto(u, "finalize")
  /\ UNCHANGED <<photo, overdue, jobs, photoLock, craneLock>>

\* PhotoStorageError: an answer that is lost leaves the object in the bucket.
StoreObjectFails(u) ==
  /\ upc[u] = "store"
  /\ objects' \in {objects, objects \cup {u}}
  /\ Goto(u, "abandon_read")
  /\ UNCHANGED <<photo, overdue, jobs, photoLock, craneLock>>

\* Mutant: the update does not look at the status.
FinalizeUnchecked(u) ==
  /\ upc[u] = "finalize"
  /\ Unlocked(u)
  /\ photo[u] # "absent"
  /\ photoLock' = [photoLock EXCEPT ![u] = u]
  /\ Goto(u, "commit")
  /\ UNCHANGED <<photo, overdue, jobs, objects, craneLock>>

\* The conditional update, which locks the row until the commit.
Finalize(u) ==
  /\ upc[u] = "finalize"
  /\ Unlocked(u)
  /\ photo[u] = "pending_upload"
  /\ photoLock' = [photoLock EXCEPT ![u] = u]
  /\ Goto(u, "commit")
  /\ UNCHANGED <<photo, overdue, jobs, objects, craneLock>>

\* PhotoUploadRaceError: the row is gone or has left pending_upload.
FinalizeRace(u) ==
  /\ upc[u] = "finalize"
  /\ Unlocked(u)
  /\ photo[u] # "pending_upload"
  /\ upc' = [upc EXCEPT ![u] = "abandon_read"]
  /\ reply' = [reply EXCEPT ![u] = "race"]
  /\ UNCHANGED <<storeVars, craneLock>>

Activate(u) == /\ photo' = [photo EXCEPT ![u] = "active"]
               /\ overdue' = overdue \ {u}

CommitActive(u) ==
  /\ upc[u] = "commit"
  /\ Activate(u)
  /\ ReleasePhoto(u)
  /\ Respond(u, "created")
  /\ UNCHANGED <<jobs, objects, craneLock>>

\* SQLAlchemyError from the update or from the commit; a commit whose answer
\* is lost has made the row active.
FinalizeDbError(u) ==
  /\ upc[u] \in {"finalize", "commit"}
  /\ \/ UNCHANGED <<photo, overdue>>
     \/ upc[u] = "commit" /\ Activate(u)
  /\ ReleasePhoto(u)
  /\ Goto(u, "abandon_read")
  /\ UNCHANGED <<jobs, objects, craneLock>>

(***************************************************************************)
(* The third transaction.  The row is read without a lock; the UPDATE that *)
(* create_task flushes names the row by its id alone, so it waits for the  *)
(* lock and then overwrites whatever status it finds.  It fails, and the   *)
(* transaction is rolled back, only when the row is gone.                  *)
(***************************************************************************)
\* Mutant: the status is not read.
AbandonReadAny(u) ==
  /\ upc[u] = "abandon_read"
  /\ Goto(u, "abandon_write")
  /\ UNCHANGED <<storeVars, craneLock>>

AbandonRead(u) ==
  /\ upc[u] = "abandon_read"
  /\ IF photo[u] = "pending_upload" THEN Goto(u, "abandon_write")
                                    ELSE EndAbandon(u)
  /\ UNCHANGED <<storeVars, craneLock>>

AbandonFlush(u) ==
  /\ upc[u] = "abandon_write"
  /\ Unlocked(u)
  /\ IF photo[u] = "absent"
     THEN EndAbandon(u) /\ UNCHANGED photoLock
     ELSE Goto(u, "abandon_commit") /\ photoLock' = [photoLock EXCEPT ![u] = u]
  /\ UNCHANGED <<photo, overdue, jobs, objects, craneLock>>

\* Mutant: the row is marked and no job is added.
AbandonCommitNoJob(u) ==
  /\ upc[u] = "abandon_commit"
  /\ photo' = [photo EXCEPT ![u] = "pending_delete"]
  /\ ReleasePhoto(u)
  /\ EndAbandon(u)
  /\ UNCHANGED <<overdue, jobs, objects, craneLock>>

AbandonCommit(u) ==
  /\ upc[u] = "abandon_commit"
  /\ CreateDeleteJobs(<<u>>)
  /\ ReleasePhoto(u)
  /\ EndAbandon(u)
  /\ UNCHANGED <<objects, craneLock>>

\* _abandon_helper swallows the error and the row waits for the reaper.
AbandonDbError(u) ==
  /\ upc[u] \in {"abandon_read", "abandon_write", "abandon_commit"}
  /\ ReleasePhoto(u)
  /\ EndAbandon(u)
  /\ UNCHANGED <<photo, overdue, jobs, objects, craneLock>>

(***************************************************************************)
(* The web server dies, or an exception that no clause names leaves the    *)
(* handler; the transaction that is open is rolled back, and a put that    *)
(* was under way has stored the object or has not.                         *)
(***************************************************************************)
RequestDies(u) ==
  /\ upc[u] \in Open
  /\ \/ UNCHANGED objects
     \/ upc[u] = "store" /\ objects' = objects \cup {u}
  /\ Respond(u, "error")
  /\ ReleaseCrane(u)
  /\ ReleasePhoto(u)
  /\ UNCHANGED <<photo, overdue, jobs>>

RequestStep(u) ==
  \/ RejectInvalid(u) \/ CraneNotFound(u) \/ LockCrane(u)
  \/ LimitExceeded(u) \/ BelowLimit(u) \/ InsertPhoto(u) \/ PreuploadDbError(u)
  \/ StoreObject(u) \/ StoreObjectFails(u)
  \/ Finalize(u) \/ FinalizeRace(u) \/ CommitActive(u) \/ FinalizeDbError(u)
  \/ AbandonRead(u) \/ AbandonFlush(u) \/ AbandonCommit(u) \/ AbandonDbError(u)
  \/ RequestDies(u)
=============================================================================
