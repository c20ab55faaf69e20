---------------------------- MODULE CraneDeletion ----------------------------
(***************************************************************************)
(* delete_crane beside uploads and the worker.  It reads a crane with its  *)
(* photo rows, whatever their status, deletes their objects from the       *)
(* bucket one after another and then the rows, all in one transaction that *)
(* the caller commits.  No route calls it.  The rows are read without a    *)
(* lock; rows that came later go with the crane by ON DELETE CASCADE, and  *)
(* their objects are not looked for.                                       *)
(***************************************************************************)
EXTENDS PhotoSystem

CONSTANTS
  Doomed,       \* the crane that is deleted
  Remover       \* the transaction that deletes it

ASSUME DoomedAssumption == /\ Doomed \in Cranes
                           /\ Remover \notin Uploads \cup Workers \cup Admins \cup {NoOne}

VARIABLES
  dpc,          \* where delete_crane is, or "deleted"
  read,         \* the photo rows it has read
  todo,         \* those whose objects are still to be deleted
  targeted,     \* history: photos whose object some call has set out to delete
  late          \* history: uploads for the crane not ended when the rows were read

deletionVars == <<dpc, read, todo, targeted, late>>
allVars == <<vars, deletionVars>>

OfCrane == {u \in Uploads : CraneOf[u] = Doomed}
RowsOfCrane == {u \in OfCrane : photo[u] # "absent"}

DeletionTypeOK ==
  /\ dpc \in {"start", "objects", "rows", "crane", "commit", "deleted"}
  /\ read \subseteq OfCrane /\ todo \subseteq read
  /\ targeted \subseteq OfCrane /\ late \subseteq OfCrane

DeletionInit ==
  /\ Init
  /\ dpc = "start"
  /\ read = {} /\ todo = {} /\ targeted = {} /\ late = {}

-----------------------------------------------------------------------------
\* Mutant: like get_crane, only the active photos are loaded.
ReadActive ==
  /\ dpc = "start"
  /\ dpc' = "objects"
  /\ read' = {u \in OfCrane : photo[u] = "active"} /\ todo' = read'
  /\ late' = {u \in OfCrane : upc[u] # "done"}
  /\ UNCHANGED <<vars, targeted>>

ReadCrane ==
  /\ dpc = "start"
  /\ dpc' = "objects"
  /\ read' = RowsOfCrane /\ todo' = read'
  /\ late' = {u \in OfCrane : upc[u] # "done"}
  /\ UNCHANGED <<vars, targeted>>

\* delete_photo for the next photo; a key without an object is no error.
DeletePhotoObject(u) ==
  /\ dpc = "objects"
  /\ u \in todo
  /\ objects' = objects \ {u}
  /\ todo' = todo \ {u}
  /\ targeted' = targeted \cup {u}
  /\ UNCHANGED <<photo, overdue, jobs, photoLock, requestVars, workerVars, dpc, read, late>>

AllObjectsDeleted ==
  /\ dpc = "objects"
  /\ todo = {}
  /\ dpc' = "rows"
  /\ UNCHANGED <<vars, read, todo, targeted, late>>

\* The flush of session.delete(crane): first the rows that were read, one after
\* another, each of which may be waited for ...
DeletePhotoRow(u) ==
  /\ dpc = "rows"
  /\ u \in read \cap RowsOfCrane
  /\ Unlocked(u)
  /\ photoLock' = [photoLock EXCEPT ![u] = Remover]
  /\ UNCHANGED <<photo, overdue, jobs, objects, requestVars, workerVars, deletionVars>>

\* ... and may no longer be there; ...
PhotoRowsDeleted ==
  /\ dpc = "rows"
  /\ \A u \in read \cap RowsOfCrane : photoLock[u] = Remover
  /\ dpc' = "crane"
  /\ UNCHANGED <<vars, read, todo, targeted, late>>

\* ... then the crane, once no upload has it locked, and with it the rows that
\* came later.
DeleteCraneRow ==
  /\ dpc = "crane"
  /\ craneLock[Doomed] = NoOne
  /\ \A u \in RowsOfCrane : photoLock[u] \in {NoOne, Remover}
  /\ photoLock' = [u \in Uploads |-> IF u \in RowsOfCrane THEN Remover ELSE photoLock[u]]
  /\ dpc' = "commit"
  /\ UNCHANGED <<photo, overdue, jobs, objects, requestVars, workerVars, read, todo,
                 targeted, late>>

RemoverUnlocks ==
  photoLock' = [u \in Uploads |-> IF photoLock[u] = Remover THEN NoOne ELSE photoLock[u]]

\* Mutant: no ON DELETE CASCADE for the rows that were not read.
CommitReadRows ==
  /\ dpc = "commit"
  /\ photo' = [u \in Uploads |-> IF u \in read THEN "absent" ELSE photo[u]]
  /\ overdue' = overdue \ read
  /\ RemoverUnlocks
  /\ dpc' = "deleted"
  /\ UNCHANGED <<jobs, objects, requestVars, workerVars, read, todo, targeted, late>>

CommitDeletion ==
  /\ dpc = "commit"
  /\ photo' = [u \in Uploads |-> IF u \in OfCrane THEN "absent" ELSE photo[u]]
  /\ overdue' = overdue \ OfCrane
  /\ RemoverUnlocks
  /\ dpc' = "deleted"
  /\ UNCHANGED <<jobs, objects, requestVars, workerVars, read, todo, targeted, late>>

\* delete_photo raises, with or without having deleted the object, a statement
\* fails or the process dies: the transaction is rolled back, the objects that
\* were deleted stay so, and the caller may try again.
DeletionFails ==
  /\ dpc \in {"objects", "rows", "crane", "commit"}
  /\ \/ UNCHANGED <<objects, targeted>>
     \/ \E u \in todo : objects' = objects \ {u} /\ targeted' = targeted \cup {u}
  /\ RemoverUnlocks
  /\ dpc' = "start" /\ read' = {} /\ todo' = {}
  /\ UNCHANGED <<photo, overdue, jobs, requestVars, workerVars, late>>

DeletionStep ==
  \/ ReadCrane \/ (\E u \in OfCrane : DeletePhotoObject(u)) \/ AllObjectsDeleted
  \/ (\E u \in OfCrane : DeletePhotoRow(u)) \/ PhotoRowsDeleted
  \/ DeleteCraneRow \/ CommitDeletion \/ DeletionFails

-----------------------------------------------------------------------------
\* SELECT ... FOR UPDATE on the crane waits while its deletion is not committed
\* and finds no crane afterwards.
CraneGone(u) ==
  /\ upc[u] = "start" /\ CraneOf[u] = Doomed
  /\ dpc = "deleted"
  /\ Respond(u, "error")
  /\ UNCHANGED <<storeVars, craneLock, workerVars, deletionVars>>

BesideDeletion ==
  /\ Next
  /\ dpc \in {"commit", "deleted"} => craneLock'[Doomed] = NoOne
  /\ UNCHANGED deletionVars

DeletionNext == BesideDeletion \/ DeletionStep \/ \E u \in Uploads : CraneGone(u)

DeletionSpec == DeletionInit /\ [][DeletionNext]_allVars

-----------------------------------------------------------------------------
Ended(u) == upc[u] = "done"

\* What the deletion leaves in the bucket for ever, with neither a row nor a
\* job, belongs to uploads that had not ended when it read the rows: no photo
\* of any status, nor one on its way to the worker, is left behind otherwise.
OnlyLateUploadsLeak ==
  dpc = "deleted" =>
    \A u \in OfCrane \cap objects : Ended(u) /\ JobsOf(u) = {} => u \in late

\* The invariant behind NoRowWithoutCrane: from the delete of the crane row to
\* the commit the transaction holds every row of the crane, and no upload holds
\* the crane, so none can add another.
DeletionInv ==
  /\ DeletionTypeOK
  /\ dpc = "commit" => \A u \in RowsOfCrane : photoLock[u] = Remover
  /\ dpc \in {"commit", "deleted"} => craneLock[Doomed] = NoOne
  /\ dpc = "deleted" => RowsOfCrane = {}

\* No photo row outlives its crane, not even one inserted after the rows were
\* read, and none comes back.
NoRowWithoutCrane == dpc = "deleted" => RowsOfCrane = {}

\* A listed photo lacks its object only when a deletion of its crane is under
\* way or has failed: nothing else breaks the promise of ActiveHasObject.
OnlyDeletionBreaksPhotos ==
  \A u \in Uploads : photo[u] = "active" /\ u \notin objects => u \in targeted
=============================================================================
