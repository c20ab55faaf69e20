-------------------------- MODULE PhotoSystemProofs --------------------------
(***************************************************************************)
(* For all sets of uploads, cranes, workers and admins, every batch size,  *)
(* photo limit and attempt limit, and with uploads as slow as they like:   *)
(* PhotoLimit, ActiveHasObject, CleanupIsQueued, OnlyAdminsUnpublish, and  *)
(* that PhotoSystem implements PhotoCatalog.  The argument is the          *)
(* inductive invariant Inv of PhotoSystem.                                 *)
(*                                                                         *)
(* On top of it, each with an invariant of its own: PublishedDeletedOnce   *)
(* (PublishedInv), NoLeakedObject (LeakInv), for one worker RetryBudget    *)
(* and CompletedIsFinal (ClaimInv), and for two at most ProcessingHasLease *)
(* (LeaseInv).                                                             *)
(***************************************************************************)
EXTENDS PhotoSystem, FiniteSetTheorems, SequenceTheorems, TLAPS

(***************************************************************************)
(* Facts about the operators of PhotoStore and PhotoWorker.                *)
(***************************************************************************)
\* The result of SELECT ... LIMIT is a sequence of rows of the set selected from.
LEMMA SelectionType ==
  ASSUME NEW S, NEW sel \in Selections(S)
  PROVE  sel \in Seq(S) /\ Rows(sel) \subseteq S
<1>1. PICK n \in 0..BatchSize : sel \in [1..n -> S]
  BY DEF Selections
<1>2. n \in Nat
  BY <1>1, BoundAssumption
<1>3. QED
  BY <1>1, <1>2 DEF Rows

\* What the lemmas on jobs need of the types.
TablesOK == /\ photo \in [Uploads -> PhotoStatus]
            /\ overdue \subseteq Uploads
            /\ jobs \in Seq(Job)
            /\ WorkerTypeOK

\* The tables are part of the type invariant.
LEMMA TypeTables == TypeOK => TablesOK
BY DEF TypeOK, StoreTypeOK, TablesOK

\* A job names an upload.
LEMMA JobKeys ==
  ASSUME TablesOK
  PROVE  \A i \in DOMAIN jobs : jobs[i] \in Job /\ jobs[i].key \in Uploads
<1>1. jobs \in Seq(Job)
  BY DEF TablesOK
<1>2. \A i \in DOMAIN jobs : jobs[i] \in Job
  BY <1>1, LenProperties, ElementOfSeq
<1>3. QED
  BY <1>2 DEF Job

\* create_delete_crane_job for the rows us: old jobs stay as they are, the new
\* ones are pending and name the rows of us, each of which is named.
LEMMA CreateJobs ==
  ASSUME TablesOK, NEW us \in Seq(Uploads), CreateDeleteJobs(us)
  PROVE  /\ photo' \in [Uploads -> PhotoStatus]
         /\ overdue' \subseteq Uploads
         /\ jobs' \in Seq(Job)
         /\ DOMAIN jobs \subseteq DOMAIN jobs'
         /\ \A i \in DOMAIN jobs : jobs'[i] = jobs[i]
         /\ \A i \in DOMAIN jobs' : i \notin DOMAIN jobs =>
              /\ jobs'[i].key \in Rows(us) /\ jobs'[i].status = "pending"
              /\ jobs'[i] = NewJob(jobs'[i].key)
         /\ \A u \in Rows(us) : \E i \in DOMAIN jobs' : jobs'[i].key = u
<1> DEFINE new == [i \in 1..Len(us) |-> NewJob(us[i])]
<1>1. photo' \in [Uploads -> PhotoStatus] /\ overdue' \subseteq Uploads
  BY DEF TablesOK, CreateDeleteJobs, PhotoStatus
<1>2. \A u \in Uploads : NewJob(u) \in Job /\ NewJob(u).key = u /\ NewJob(u).status = "pending"
  BY DEF NewJob, Job, JobStatus, Lease
<1>3. /\ new \in Seq(Job)
      /\ Len(new) = Len(us)
      /\ \A i \in 1..Len(us) : new[i] = NewJob(us[i])
  BY <1>2
<1>4. jobs \in Seq(Job) /\ jobs' = jobs \o new
  BY DEF TablesOK, CreateDeleteJobs
<1> HIDE DEF new
<1>5. /\ jobs' \in Seq(Job)
      /\ Len(jobs') = Len(jobs) + Len(us)
      /\ \A i \in 1..Len(jobs) : jobs'[i] = jobs[i]
      /\ \A i \in 1..Len(us) : jobs'[Len(jobs) + i] = NewJob(us[i])
  <2>1. Len(jobs) \in Nat /\ Len(us) \in Nat
    BY <1>4, LenProperties
  <2>2. /\ jobs' \in Seq(Job)
        /\ Len(jobs') = Len(jobs) + Len(us)
        /\ \A i \in 1..(Len(jobs) + Len(us)) :
             jobs'[i] = IF i <= Len(jobs) THEN jobs[i] ELSE new[i - Len(jobs)]
    <3>1. /\ jobs \o new \in Seq(Job)
          /\ Len(jobs \o new) = Len(jobs) + Len(new)
          /\ \A i \in 1..(Len(jobs) + Len(new)) :
               (jobs \o new)[i] = IF i <= Len(jobs) THEN jobs[i] ELSE new[i - Len(jobs)]
      BY <1>3, <1>4, ConcatProperties, Zenon
    <3>2. QED
      BY <1>3, <1>4, <3>1, Zenon
  <2>3. \A i \in 1..Len(us) : /\ Len(jobs) + i \in 1..(Len(jobs) + Len(us))
                              /\ ~(Len(jobs) + i <= Len(jobs))
                              /\ (Len(jobs) + i) - Len(jobs) = i
    BY <2>1
  <2>4. \A i \in 1..Len(us) : jobs'[Len(jobs) + i] = NewJob(us[i])
    BY <2>2, <2>3, <1>3
  <2>5. \A i \in 1..Len(jobs) : jobs'[i] = jobs[i]
    BY <2>1, <2>2
  <2>6. QED
    BY <2>2, <2>4, <2>5
<1>6. \A i \in DOMAIN jobs' : i \notin DOMAIN jobs =>
        \E k \in 1..Len(us) : jobs'[i] = NewJob(us[k])
  <2>1. TAKE i \in DOMAIN jobs'
  <2>2. HAVE i \notin DOMAIN jobs
  <2>3. i - Len(jobs) \in 1..Len(us) /\ Len(jobs) + (i - Len(jobs)) = i
    BY <1>4, <1>5, <2>2
  <2>4. QED
    BY <1>5, <2>3
<1>7. \A k \in 1..Len(us) : Len(jobs) + k \in DOMAIN jobs'
  BY <1>4, <1>5
<1>8. /\ DOMAIN jobs \subseteq DOMAIN jobs'
      /\ \A i \in DOMAIN jobs : jobs'[i] = jobs[i]
  BY <1>4, <1>5
<1>9. \A i \in DOMAIN us : us[i] \in Uploads /\ i \in 1..Len(us)
  BY LenProperties, ElementOfSeq
<1>10. \A i \in DOMAIN jobs' : i \notin DOMAIN jobs =>
         /\ jobs'[i].key \in Rows(us) /\ jobs'[i].status = "pending"
         /\ jobs'[i] = NewJob(jobs'[i].key)
  <2>1. TAKE i \in DOMAIN jobs'
  <2>2. HAVE i \notin DOMAIN jobs
  <2>3. PICK k \in 1..Len(us) : jobs'[i] = NewJob(us[k])
    BY <1>6, <2>2
  <2>4. k \in DOMAIN us /\ us[k] \in Uploads
    BY <1>9, LenProperties
  <2>5. QED
    BY <1>2, <2>3, <2>4 DEF Rows
<1>11. \A u \in Rows(us) : \E i \in DOMAIN jobs' : jobs'[i].key = u
  <2>1. TAKE u \in Rows(us)
  <2>2. PICK k \in DOMAIN us : u = us[k]
    BY DEF Rows
  <2>3. jobs'[Len(jobs) + k] = NewJob(u) /\ Len(jobs) + k \in DOMAIN jobs'
    BY <1>5, <1>7, <1>9, <2>2
  <2>4. QED
    BY <1>2, <1>9, <2>2, <2>3
<1>12. QED
  BY <1>1, <1>5, <1>8, <1>10, <1>11

\* A step that changes jobs and adds none: what Queue needs to know of it.
SameJobs == /\ jobs' \in Seq(Job)
            /\ DOMAIN jobs' = DOMAIN jobs
            /\ \A i \in DOMAIN jobs : jobs'[i].key = jobs[i].key

\* A claim changes neither which jobs there are nor what they name, and completes none.
LEMMA ClaimJobs ==
  ASSUME TablesOK, NEW S, MarkClaimed(S)
  PROVE  /\ SameJobs
         /\ \A i \in DOMAIN jobs : jobs'[i].status = "completed" => jobs[i].status = "completed"
<1>1. jobs \in Seq(Job) /\ AttemptCap \in Nat
  BY AttemptAssumption DEF TablesOK
<1>2. ASSUME NEW i \in DOMAIN jobs
      PROVE  /\ jobs'[i] \in Job
             /\ jobs'[i].key = jobs[i].key
             /\ jobs'[i].status = "completed" => jobs[i].status = "completed"
  <2>1. jobs[i] \in Job
    BY <1>1, LenProperties, ElementOfSeq
  <2>2. Claimed(jobs[i]) \in Job /\ Claimed(jobs[i]).key = jobs[i].key
    BY <1>1, <2>1 DEF Claimed, Job, JobStatus, Lease
  <2>3. Claimed(jobs[i]).status = "processing"
    BY DEF Claimed
  <2>4. jobs'[i] = IF i \in S THEN Claimed(jobs[i]) ELSE jobs[i]
    BY DEF MarkClaimed
  <2>5. QED
    BY <2>1, <2>2, <2>3, <2>4
<1>3. DOMAIN jobs' = DOMAIN jobs
  BY DEF MarkClaimed
<1>4. jobs' \in Seq(Job)
  <2>1. jobs' \in [1..Len(jobs) -> Job] /\ Len(jobs) \in Nat
    BY <1>1, <1>2, <1>3 DEF MarkClaimed
  <2>2. QED
    BY <2>1
<1>5. QED
  BY <1>2, <1>3, <1>4 DEF SameJobs

\* The worker's save changes one job, and of its row only what the worker loaded.
LEMMA SaveJobs ==
  ASSUME TablesOK, NEW w \in Workers, NEW s \in JobStatus, NEW a \in BOOLEAN,
         SaveJob(w, s, a)
  PROVE  /\ SameJobs
         /\ \A i \in DOMAIN jobs :
              /\ i # Head(batch[w]) => jobs'[i] = jobs[i]
              /\ jobs'[i].status \in {jobs[i].status, s}
<1>1. jobs \in Seq(Job) /\ loaded[w].status \in JobStatus /\ loaded[w].lease \in Lease
  BY DEF TablesOK, WorkerTypeOK
<1>2. ASSUME NEW i \in DOMAIN jobs
      PROVE  /\ jobs'[i] \in Job
             /\ jobs'[i].key = jobs[i].key
             /\ i # Head(batch[w]) => jobs'[i] = jobs[i]
             /\ jobs'[i].status \in {jobs[i].status, s}
  <2> DEFINE job == Saved(jobs[i], loaded[w], s, a)
  <2>1. jobs[i] \in Job
    BY <1>1, LenProperties, ElementOfSeq
  <2>2. job \in Job /\ job.key = jobs[i].key /\ job.status \in {jobs[i].status, s}
    BY <1>1, <2>1 DEF Saved, FlushColumn, Job, Lease
  <2>3. jobs'[i] = IF i = Head(batch[w]) THEN job ELSE jobs[i]
    BY DEF SaveJob
  <2>4. QED
    BY <2>1, <2>2, <2>3
<1>3. DOMAIN jobs' = DOMAIN jobs
  BY DEF SaveJob
<1>4. jobs' \in Seq(Job)
  <2>1. jobs' \in [1..Len(jobs) -> Job] /\ Len(jobs) \in Nat
    BY <1>1, <1>2, <1>3 DEF SaveJob
  <2>2. QED
    BY <2>1
<1>5. QED
  BY <1>2, <1>3, <1>4 DEF SameJobs

\* The live photos of a crane: a finite set, no larger when no row becomes live.
LEMMA LiveFinite ==
  ASSUME NEW c
  PROVE  IsFiniteSet(LivePhotos(c)) /\ Cardinality(LivePhotos(c)) \in Nat
<1>1. LivePhotos(c) \subseteq Uploads
  BY DEF LivePhotos
<1>2. QED
  BY <1>1, UploadsAssumption, FS_Subset, FS_CardinalityType

Live == {"active", "pending_upload"}

\* When no row comes back to life, no crane has more live photos than before.
LEMMA LiveShrinks ==
  ASSUME \A u \in Uploads : photo'[u] \in Live => photo[u] \in Live, NEW c
  PROVE  /\ Cardinality(LivePhotos(c)') <= Cardinality(LivePhotos(c))
         /\ Cardinality(LivePhotos(c)') \in Nat
         /\ Cardinality(LivePhotos(c)) \in Nat
<1>1. LivePhotos(c)' \subseteq LivePhotos(c)
  BY DEF LivePhotos, Live
<1>2. IsFiniteSet(LivePhotos(c)) /\ Cardinality(LivePhotos(c)) \in Nat
  BY LiveFinite
<1>3. QED
  BY <1>1, <1>2, FS_Subset, FS_CardinalityType

(***************************************************************************)
(* When a step keeps Capacity and Queue.                                   *)
(***************************************************************************)
\* No row becomes live, and whoever is between LockCrane and InsertPhoto was
\* there before and still has the lock.
LEMMA CapacityKept ==
  ASSUME Inv,
         \A u \in Uploads : photo'[u] \in Live => photo[u] \in Live,
         \A u \in Uploads : upc'[u] \in Preupload => photo'[u] = "absent",
         \A u \in Uploads : upc'[u] \in {"count", "insert"} =>
           upc'[u] = upc[u] /\ craneLock'[CraneOf[u]] = craneLock[CraneOf[u]]
  PROVE  Capacity'
<1>1. MaxPhotos \in Nat
  BY BoundAssumption
<1>2. \A c : /\ Cardinality(LivePhotos(c)') <= Cardinality(LivePhotos(c))
            /\ Cardinality(LivePhotos(c)') \in Nat
            /\ Cardinality(LivePhotos(c)) \in Nat
  BY LiveShrinks
<1>3. PhotoLimit'
  BY <1>1, <1>2 DEF Inv, Capacity, PhotoLimit
<1>4. ASSUME NEW u \in Uploads, upc'[u] = "insert"
      PROVE  Cardinality(LivePhotos(CraneOf[u])') < MaxPhotos
  <2>1. Cardinality(LivePhotos(CraneOf[u])) < MaxPhotos
    BY <1>4 DEF Inv, Capacity
  <2>2. QED
    BY <1>1, <1>2, <2>1
<1>5. QED
  BY <1>3, <1>4 DEF Inv, Capacity

\* The insert of a row by the holder of the crane: one photo more, below the
\* limit, and nobody else is counting on this crane.
LEMMA CapacityInsert ==
  ASSUME Inv, NEW u \in Uploads, upc[u] = "insert",
         photo' = [photo EXCEPT ![u] = "pending_upload"],
         upc'[u] \notin Preupload,
         \A v \in Uploads : v # u => upc'[v] = upc[v],
         ReleaseCrane(u)
  PROVE  Capacity'
<1> DEFINE c == CraneOf[u]
<1>1. /\ c \in Cranes /\ craneLock[c] = u /\ photo[u] = "absent"
      /\ Cardinality(LivePhotos(c)) < MaxPhotos
  BY DEF Inv, Capacity, Preupload
<1>2. photo \in [Uploads -> PhotoStatus] /\ MaxPhotos \in Nat
  BY BoundAssumption DEF Inv, TypeOK, StoreTypeOK
<1>3. LivePhotos(c)' = LivePhotos(c) \cup {u}
  BY <1>2 DEF LivePhotos
<1>4. u \notin LivePhotos(c)
  BY <1>1 DEF LivePhotos
<1>5. Cardinality(LivePhotos(c)') <= MaxPhotos
  <2>1. IsFiniteSet(LivePhotos(c)) /\ Cardinality(LivePhotos(c)) \in Nat
    BY LiveFinite
  <2>2. Cardinality(LivePhotos(c) \cup {u}) = Cardinality(LivePhotos(c)) + 1
    BY <1>4, <2>1, FS_AddElement
  <2>3. QED
    BY <1>1, <1>2, <1>3, <2>1, <2>2
<1>6. ASSUME NEW d, d # c
      PROVE  LivePhotos(d)' = LivePhotos(d)
  BY <1>2, <1>6 DEF LivePhotos
<1>7. PhotoLimit'
  BY <1>5, <1>6 DEF Inv, Capacity, PhotoLimit
<1>8. ASSUME NEW v \in Uploads, upc'[v] \in Preupload
      PROVE  v # u /\ upc[v] = upc'[v] /\ photo'[v] = "absent"
  BY <1>2, <1>8 DEF Inv, Capacity
<1>9. ASSUME NEW v \in Uploads, upc'[v] \in {"count", "insert"}
      PROVE  /\ CraneOf[v] \in Cranes /\ craneLock'[CraneOf[v]] = v
             /\ upc'[v] = "insert" => Cardinality(LivePhotos(CraneOf[v])') < MaxPhotos
  <2>1. v # u /\ upc[v] = upc'[v]
    BY <1>8, <1>9 DEF Preupload
  <2>2. CraneOf[v] \in Cranes /\ craneLock[CraneOf[v]] = v
    BY <1>9, <2>1 DEF Inv, Capacity
  <2>3. CraneOf[v] # c
    BY <1>1, <2>1, <2>2
  <2>4. craneLock'[CraneOf[v]] = v
    BY <2>1, <2>2 DEF ReleaseCrane
  <2>5. LivePhotos(CraneOf[v])' = LivePhotos(CraneOf[v])
    BY <1>6, <2>3
  <2>6. QED
    BY <2>1, <2>2, <2>4, <2>5 DEF Inv, Capacity
<1>10. QED
  BY <1>7, <1>8, <1>9 DEF Capacity

\* The worker's batches name jobs that there are.
BatchesOK ==
  \A w \in Workers :
    /\ \A k \in DOMAIN batch[w] : batch[w][k] \in DOMAIN jobs
    /\ wpc[w] \in {"load", "save"} => batch[w] # <<>>

\* No job is added, none is completed while its row stays, and no row that a
\* job names comes back.
LEMMA QueueKept ==
  ASSUME Inv, SameJobs, BatchesOK',
         \A u \in Uploads : photo'[u] = "pending_delete" => photo[u] = "pending_delete",
         \A u \in Uploads : upc'[u] \in Preupload => upc[u] \in Preupload,
         \A i \in DOMAIN jobs :
           /\ photo'[jobs[i].key] \in {photo[jobs[i].key], "absent"}
           /\ jobs'[i].status = "completed" =>
                jobs[i].status = "completed" \/ photo'[jobs[i].key] = "absent"
  PROVE  Queue'
<1>1. \A i \in DOMAIN jobs : jobs[i].key \in Uploads
  BY TypeTables, JobKeys DEF Inv
<1>2. ASSUME NEW i \in DOMAIN jobs'
      PROVE  /\ photo'[jobs'[i].key] \in {"pending_delete", "absent"}
             /\ upc'[jobs'[i].key] \notin Preupload
             /\ jobs'[i].status = "completed" => photo'[jobs'[i].key] = "absent"
  BY <1>1, <1>2 DEF Inv, Queue, SameJobs
<1>3. ASSUME NEW u \in Uploads, photo'[u] = "pending_delete"
      PROVE  JobsOf(u)' # {}
  BY <1>3 DEF Inv, Queue, SameJobs, JobsOf
<1>4. QED
  BY <1>2, <1>3 DEF Queue, BatchesOK

\* Jobs are added for rows that are there, past their insert.
LEMMA QueueGrows ==
  ASSUME Inv, NEW us \in Seq(Uploads), CreateDeleteJobs(us),
         \A u \in Rows(us) : photo[u] # "absent" /\ upc'[u] \notin Preupload,
         \A u \in Uploads : upc'[u] \in Preupload => upc[u] \in Preupload,
         UNCHANGED batch,
         \A w \in Workers : wpc'[w] \in {"load", "save"} => wpc[w] = wpc'[w]
  PROVE  Queue'
<1>1. TypeOK
  BY DEF Inv
<1>2. /\ DOMAIN jobs \subseteq DOMAIN jobs'
      /\ \A i \in DOMAIN jobs : jobs'[i] = jobs[i]
      /\ \A i \in DOMAIN jobs' : i \notin DOMAIN jobs =>
           jobs'[i].key \in Rows(us) /\ jobs'[i].status = "pending"
      /\ \A u \in Rows(us) : \E i \in DOMAIN jobs' : jobs'[i].key = u
  BY <1>1, TypeTables, CreateJobs
<1>3. \A i \in DOMAIN jobs : jobs[i].key \in Uploads
  BY <1>1, TypeTables, JobKeys
<1>4. Rows(us) \subseteq Uploads
  <2>1. \A i \in DOMAIN us : us[i] \in Uploads
    BY LenProperties, ElementOfSeq
  <2>2. QED
    BY <2>1 DEF Rows
<1>5. \A u \in Uploads : photo'[u] = IF u \in Rows(us) THEN "pending_delete" ELSE photo[u]
  BY DEF CreateDeleteJobs
<1>6. ASSUME NEW i \in DOMAIN jobs'
      PROVE  /\ photo'[jobs'[i].key] \in {"pending_delete", "absent"}
             /\ upc'[jobs'[i].key] \notin Preupload
             /\ jobs'[i].status = "completed" => photo'[jobs'[i].key] = "absent"
  <2>1. CASE i \in DOMAIN jobs
    BY <1>2, <1>3, <1>5, <2>1 DEF Inv, Queue
  <2>2. CASE i \notin DOMAIN jobs
    BY <1>2, <1>4, <1>5, <1>6, <2>2
  <2>3. QED
    BY <2>1, <2>2
<1>7. ASSUME NEW u \in Uploads, photo'[u] = "pending_delete"
      PROVE  JobsOf(u)' # {}
  <2>1. CASE u \in Rows(us)
    BY <1>2, <2>1 DEF JobsOf
  <2>2. CASE u \notin Rows(us)
    BY <1>2, <1>5, <1>7, <2>2 DEF Inv, Queue, JobsOf
  <2>3. QED
    BY <2>1, <2>2
<1>8. BatchesOK'
  BY <1>2 DEF Inv, Queue, BatchesOK
<1>9. QED
  BY <1>6, <1>7, <1>8 DEF Queue, BatchesOK

\* A step that leaves the queue to itself.
LEMMA QueueUntouched ==
  ASSUME Inv, UNCHANGED <<jobs, batch, wpc>>
  PROVE  SameJobs /\ BatchesOK'
<1>1. jobs \in Seq(Job)
  BY DEF Inv, TypeOK, StoreTypeOK
<1>2. QED
  BY <1>1 DEF Inv, Queue, SameJobs, BatchesOK

(***************************************************************************)
(* Init and the steps of upload_crane_photo.                               *)
(***************************************************************************)
LEMMA InitInv == Init => Inv
<1> USE DEF Init, StoreInit, UploadInit, WorkerInit
<1>1. SUFFICES ASSUME Init PROVE Inv
  OBVIOUS
<1>2. TypeOK
  <2>1. StoreTypeOK
    BY <1>1 DEF StoreTypeOK, PhotoStatus
  <2>2. UploadTypeOK
    BY <1>1 DEF UploadTypeOK, Open, Preupload, Reply
  <2>3. WorkerTypeOK
    BY <1>1 DEF WorkerTypeOK, Points, NotLoaded, JobStatus, Lease
  <2>4. QED
    BY <2>1, <2>2, <2>3 DEF TypeOK
<1>3. Capacity
  <2>1. \A c : LivePhotos(c) = {}
    BY <1>1 DEF LivePhotos
  <2>2. PhotoLimit
    BY <2>1, FS_EmptySet, BoundAssumption DEF PhotoLimit
  <2>3. QED
    BY <1>1, <2>2 DEF Capacity, Preupload
<1>4. Locks /\ Published
  BY <1>1, ActorAssumption DEF Locks, Published, Rows
<1>5. Queue
  BY <1>1 DEF Queue
<1>6. QED
  BY <1>2, <1>3, <1>4, <1>5 DEF Inv

\* Every step of an upload request keeps the invariant.
LEMMA RequestInv ==
  ASSUME Inv, NEW u \in Uploads, RequestStep(u), UNCHANGED workerVars
  PROVE  Inv'
<1> USE ActorAssumption
<1>a. /\ photo \in [Uploads -> PhotoStatus] /\ upc \in [Uploads -> Open \cup {"done"}]
      /\ reply \in [Uploads -> Reply] /\ craneLock \in [Cranes -> Uploads \cup {NoOne}]
      /\ photoLock \in [Uploads -> Uploads \cup Workers \cup Admins \cup {NoOne}]
      /\ overdue \subseteq Uploads /\ objects \subseteq Uploads /\ jobs \in Seq(Job)
  BY DEF Inv, TypeOK, StoreTypeOK, UploadTypeOK
<1>b. WorkerTypeOK'
  BY DEF Inv, TypeOK, WorkerTypeOK, workerVars
<1>c. Capacity /\ Locks /\ Published /\ Queue
  BY DEF Inv
<1>d. UNCHANGED <<batch, wpc, reaping>>
  BY DEF workerVars
<1>1. CASE RejectInvalid(u)
  <2>1. TypeOK'
    BY <1>a, <1>b, <1>1 DEF RejectInvalid, Respond, storeVars, TypeOK, StoreTypeOK, UploadTypeOK, Open, Preupload, Reply, PhotoStatus
  <2>2. Capacity'
    <3>1. \A v \in Uploads : photo'[v] \in Live => photo[v] \in Live
      BY <1>a, <1>c, <1>1 DEF RejectInvalid, Respond, storeVars, Locks, Live
    <3>2. \A v \in Uploads : upc'[v] \in Preupload => photo'[v] = "absent"
      BY <1>a, <1>c, <1>1 DEF RejectInvalid, Respond, storeVars, Capacity, Preupload
    <3>3. \A v \in Uploads : upc'[v] \in {"count", "insert"} =>
            upc'[v] = upc[v] /\ craneLock'[CraneOf[v]] = craneLock[CraneOf[v]]
      BY <1>a, <1>c, <1>1 DEF RejectInvalid, Respond, storeVars, Capacity
    <3>4. QED
      BY <3>1, <3>2, <3>3, CapacityKept
  <2>3. Locks' /\ Published'
    BY <1>a, <1>c, <1>d, <1>1 DEF RejectInvalid, Respond, storeVars, Locks, Published, Capacity, Preupload
  <2>4. Queue'
    <3>1. SameJobs /\ BatchesOK'
      BY <1>d, <1>1, QueueUntouched DEF RejectInvalid, storeVars
    <3>2. QED
      BY <1>a, <1>c, <1>1, <3>1, TypeTables, JobKeys, QueueKept
      DEF RejectInvalid, Respond, storeVars, Inv, Queue, Locks, Capacity, Preupload
  <2>5. QED
    BY <2>1, <2>2, <2>3, <2>4 DEF Inv
<1>2. CASE CraneNotFound(u)
  <2>1. TypeOK'
    BY <1>a, <1>b, <1>2 DEF CraneNotFound, Respond, storeVars, TypeOK, StoreTypeOK, UploadTypeOK, Open, Preupload, Reply, PhotoStatus
  <2>2. Capacity'
    <3>1. \A v \in Uploads : photo'[v] \in Live => photo[v] \in Live
      BY <1>a, <1>c, <1>2 DEF CraneNotFound, Respond, storeVars, Locks, Live
    <3>2. \A v \in Uploads : upc'[v] \in Preupload => photo'[v] = "absent"
      BY <1>a, <1>c, <1>2 DEF CraneNotFound, Respond, storeVars, Capacity, Preupload
    <3>3. \A v \in Uploads : upc'[v] \in {"count", "insert"} =>
            upc'[v] = upc[v] /\ craneLock'[CraneOf[v]] = craneLock[CraneOf[v]]
      BY <1>a, <1>c, <1>2 DEF CraneNotFound, Respond, storeVars, Capacity
    <3>4. QED
      BY <3>1, <3>2, <3>3, CapacityKept
  <2>3. Locks' /\ Published'
    BY <1>a, <1>c, <1>d, <1>2 DEF CraneNotFound, Respond, storeVars, Locks, Published, Capacity, Preupload
  <2>4. Queue'
    <3>1. SameJobs /\ BatchesOK'
      BY <1>d, <1>2, QueueUntouched DEF CraneNotFound, storeVars
    <3>2. QED
      BY <1>a, <1>c, <1>2, <3>1, TypeTables, JobKeys, QueueKept
      DEF CraneNotFound, Respond, storeVars, Inv, Queue, Locks, Capacity, Preupload
  <2>5. QED
    BY <2>1, <2>2, <2>3, <2>4 DEF Inv
<1>3. CASE LockCrane(u)
  <2>1. TypeOK'
    BY <1>a, <1>b, <1>3 DEF LockCrane, Goto, storeVars, TypeOK, StoreTypeOK, UploadTypeOK, Open, Preupload, Reply, PhotoStatus
  <2>2. Capacity'
    <3>1. \A c : LivePhotos(c)' = LivePhotos(c)
      BY <1>3 DEF LockCrane, storeVars, LivePhotos
    <3>2. PhotoLimit'
      BY <1>c, <3>1 DEF Capacity, PhotoLimit
    <3>3. ASSUME NEW v \in Uploads
          PROVE  /\ upc'[v] \in Preupload => photo'[v] = "absent"
                 /\ upc'[v] \in {"count", "insert"} =>
                      CraneOf[v] \in Cranes /\ craneLock'[CraneOf[v]] = v
                 /\ upc'[v] = "insert" => upc[v] = "insert"
      BY <1>a, <1>c, <1>3 DEF LockCrane, Goto, storeVars, Capacity, Preupload
    <3>4. QED
      BY <1>c, <3>1, <3>2, <3>3 DEF Capacity
  <2>3. Locks' /\ Published'
    BY <1>a, <1>c, <1>d, <1>3 DEF LockCrane, Goto, storeVars, Locks, Published, Capacity, Preupload
  <2>4. Queue'
    <3>1. SameJobs /\ BatchesOK'
      BY <1>d, <1>3, QueueUntouched DEF LockCrane, storeVars
    <3>2. QED
      BY <1>a, <1>c, <1>3, <3>1, TypeTables, JobKeys, QueueKept
      DEF LockCrane, Goto, storeVars, Inv, Queue, Locks, Capacity, Preupload
  <2>5. QED
    BY <2>1, <2>2, <2>3, <2>4 DEF Inv
<1>4. CASE LimitExceeded(u)
  <2>1. TypeOK'
    BY <1>a, <1>b, <1>4 DEF LimitExceeded, Respond, ReleaseCrane, storeVars, TypeOK, StoreTypeOK, UploadTypeOK, Open, Preupload, Reply, PhotoStatus
  <2>2. Capacity'
    <3>1. \A v \in Uploads : photo'[v] \in Live => photo[v] \in Live
      BY <1>a, <1>c, <1>4 DEF LimitExceeded, Respond, ReleaseCrane, storeVars, Locks, Live
    <3>2. \A v \in Uploads : upc'[v] \in Preupload => photo'[v] = "absent"
      BY <1>a, <1>c, <1>4 DEF LimitExceeded, Respond, ReleaseCrane, storeVars, Capacity, Preupload
    <3>3. \A v \in Uploads : upc'[v] \in {"count", "insert"} =>
            upc'[v] = upc[v] /\ craneLock'[CraneOf[v]] = craneLock[CraneOf[v]]
      BY <1>a, <1>c, <1>4 DEF LimitExceeded, Respond, ReleaseCrane, storeVars, Capacity
    <3>4. QED
      BY <3>1, <3>2, <3>3, CapacityKept
  <2>3. Locks' /\ Published'
    BY <1>a, <1>c, <1>d, <1>4 DEF LimitExceeded, Respond, ReleaseCrane, storeVars, Locks, Published, Capacity, Preupload
  <2>4. Queue'
    <3>1. SameJobs /\ BatchesOK'
      BY <1>d, <1>4, QueueUntouched DEF LimitExceeded, storeVars
    <3>2. QED
      BY <1>a, <1>c, <1>4, <3>1, TypeTables, JobKeys, QueueKept
      DEF LimitExceeded, Respond, ReleaseCrane, storeVars, Inv, Queue, Locks, Capacity, Preupload
  <2>5. QED
    BY <2>1, <2>2, <2>3, <2>4 DEF Inv
<1>5. CASE BelowLimit(u)
  <2>1. TypeOK'
    BY <1>a, <1>b, <1>5 DEF BelowLimit, Goto, storeVars, TypeOK, StoreTypeOK, UploadTypeOK, Open, Preupload, Reply, PhotoStatus
  <2>2. Capacity'
    <3>1. \A c : LivePhotos(c)' = LivePhotos(c)
      BY <1>5 DEF BelowLimit, storeVars, LivePhotos
    <3>2. PhotoLimit'
      BY <1>c, <3>1 DEF Capacity, PhotoLimit
    <3>3. ASSUME NEW v \in Uploads
          PROVE  /\ upc'[v] \in Preupload => photo'[v] = "absent"
                 /\ upc'[v] \in {"count", "insert"} =>
                      CraneOf[v] \in Cranes /\ craneLock'[CraneOf[v]] = v
      BY <1>a, <1>c, <1>5 DEF BelowLimit, Goto, storeVars, Capacity, Preupload
    <3>4. ASSUME NEW v \in Uploads, upc'[v] = "insert"
          PROVE  Cardinality(LivePhotos(CraneOf[v])) < MaxPhotos
      BY <1>a, <1>c, <1>5, <3>4 DEF BelowLimit, Goto, Capacity
    <3>5. QED
      BY <3>1, <3>2, <3>3, <3>4 DEF Capacity
  <2>3. Locks' /\ Published'
    BY <1>a, <1>c, <1>d, <1>5 DEF BelowLimit, Goto, storeVars, Locks, Published, Capacity, Preupload
  <2>4. Queue'
    <3>1. SameJobs /\ BatchesOK'
      BY <1>d, <1>5, QueueUntouched DEF BelowLimit, storeVars
    <3>2. QED
      BY <1>a, <1>c, <1>5, <3>1, TypeTables, JobKeys, QueueKept
      DEF BelowLimit, Goto, storeVars, Inv, Queue, Locks, Capacity, Preupload
  <2>5. QED
    BY <2>1, <2>2, <2>3, <2>4 DEF Inv
<1>6. CASE InsertPhoto(u)
  <2>1. TypeOK'
    BY <1>a, <1>b, <1>6 DEF InsertPhoto, Goto, ReleaseCrane, storeVars, TypeOK, StoreTypeOK, UploadTypeOK, Open, Preupload, Reply, PhotoStatus
  <2>2. Capacity'
    BY <1>a, <1>6, CapacityInsert DEF InsertPhoto, Goto, Preupload
  <2>3. Locks' /\ Published'
    BY <1>a, <1>c, <1>d, <1>6 DEF InsertPhoto, Goto, ReleaseCrane, storeVars, Locks, Published, Capacity, Preupload
  <2>4. Queue'
    <3>1. SameJobs /\ BatchesOK'
      BY <1>d, <1>6, QueueUntouched DEF InsertPhoto, storeVars
    <3>2. QED
      BY <1>a, <1>c, <1>6, <3>1, TypeTables, JobKeys, QueueKept
      DEF InsertPhoto, Goto, ReleaseCrane, storeVars, Inv, Queue, Locks, Capacity, Preupload
  <2>5. QED
    BY <2>1, <2>2, <2>3, <2>4 DEF Inv
<1>7. CASE PreuploadDbError(u)
  <2>1. TypeOK'
    BY <1>a, <1>b, <1>7 DEF PreuploadDbError, Respond, ReleaseCrane, storeVars, TypeOK, StoreTypeOK, UploadTypeOK, Open, Preupload, Reply, PhotoStatus
  <2>2. Capacity'
    <3>1. CASE UNCHANGED photo
      <4>1. \A v \in Uploads : photo'[v] \in Live => photo[v] \in Live
        BY <3>1
      <4>2. \A v \in Uploads : upc'[v] \in Preupload => photo'[v] = "absent"
        BY <1>a, <1>c, <1>7, <3>1 DEF PreuploadDbError, Respond, Capacity, Preupload
      <4>3. \A v \in Uploads : upc'[v] \in {"count", "insert"} =>
              upc'[v] = upc[v] /\ craneLock'[CraneOf[v]] = craneLock[CraneOf[v]]
        BY <1>a, <1>c, <1>7 DEF PreuploadDbError, Respond, ReleaseCrane, Capacity
      <4>4. QED
        BY <4>1, <4>2, <4>3, CapacityKept
    <3>2. CASE upc[u] = "insert" /\ photo' = [photo EXCEPT ![u] = "pending_upload"]
      BY <1>a, <1>7, <3>2, CapacityInsert DEF PreuploadDbError, Respond, Preupload
    <3>3. QED
      BY <1>7, <3>1, <3>2 DEF PreuploadDbError
  <2>3. Locks' /\ Published'
    BY <1>a, <1>c, <1>d, <1>7 DEF PreuploadDbError, Respond, ReleaseCrane, storeVars, Locks, Published, Capacity, Preupload
  <2>4. Queue'
    <3>1. SameJobs /\ BatchesOK'
      BY <1>d, <1>7, QueueUntouched DEF PreuploadDbError, storeVars
    <3>2. QED
      BY <1>a, <1>c, <1>7, <3>1, TypeTables, JobKeys, QueueKept
      DEF PreuploadDbError, Respond, ReleaseCrane, storeVars, Inv, Queue, Locks, Capacity, Preupload
  <2>5. QED
    BY <2>1, <2>2, <2>3, <2>4 DEF Inv
<1>8. CASE StoreObject(u)
  <2>1. TypeOK'
    BY <1>a, <1>b, <1>8 DEF StoreObject, Goto, storeVars, TypeOK, StoreTypeOK, UploadTypeOK, Open, Preupload, Reply, PhotoStatus
  <2>2. Capacity'
    <3>1. \A v \in Uploads : photo'[v] \in Live => photo[v] \in Live
      BY <1>a, <1>c, <1>8 DEF StoreObject, Goto, storeVars, Locks, Live
    <3>2. \A v \in Uploads : upc'[v] \in Preupload => photo'[v] = "absent"
      BY <1>a, <1>c, <1>8 DEF StoreObject, Goto, storeVars, Capacity, Preupload
    <3>3. \A v \in Uploads : upc'[v] \in {"count", "insert"} =>
            upc'[v] = upc[v] /\ craneLock'[CraneOf[v]] = craneLock[CraneOf[v]]
      BY <1>a, <1>c, <1>8 DEF StoreObject, Goto, storeVars, Capacity
    <3>4. QED
      BY <3>1, <3>2, <3>3, CapacityKept
  <2>3. Locks' /\ Published'
    BY <1>a, <1>c, <1>d, <1>8 DEF StoreObject, Goto, storeVars, Locks, Published, Capacity, Preupload
  <2>4. Queue'
    <3>1. SameJobs /\ BatchesOK'
      BY <1>d, <1>8, QueueUntouched DEF StoreObject, storeVars
    <3>2. QED
      BY <1>a, <1>c, <1>8, <3>1, TypeTables, JobKeys, QueueKept
      DEF StoreObject, Goto, storeVars, Inv, Queue, Locks, Capacity, Preupload
  <2>5. QED
    BY <2>1, <2>2, <2>3, <2>4 DEF Inv
<1>9. CASE StoreObjectFails(u)
  <2>1. TypeOK'
    BY <1>a, <1>b, <1>9 DEF StoreObjectFails, Goto, storeVars, TypeOK, StoreTypeOK, UploadTypeOK, Open, Preupload, Reply, PhotoStatus
  <2>2. Capacity'
    <3>1. \A v \in Uploads : photo'[v] \in Live => photo[v] \in Live
      BY <1>a, <1>c, <1>9 DEF StoreObjectFails, Goto, storeVars, Locks, Live
    <3>2. \A v \in Uploads : upc'[v] \in Preupload => photo'[v] = "absent"
      BY <1>a, <1>c, <1>9 DEF StoreObjectFails, Goto, storeVars, Capacity, Preupload
    <3>3. \A v \in Uploads : upc'[v] \in {"count", "insert"} =>
            upc'[v] = upc[v] /\ craneLock'[CraneOf[v]] = craneLock[CraneOf[v]]
      BY <1>a, <1>c, <1>9 DEF StoreObjectFails, Goto, storeVars, Capacity
    <3>4. QED
      BY <3>1, <3>2, <3>3, CapacityKept
  <2>3. Locks' /\ Published'
    BY <1>a, <1>c, <1>d, <1>9 DEF StoreObjectFails, Goto, storeVars, Locks, Published, Capacity, Preupload
  <2>4. Queue'
    <3>1. SameJobs /\ BatchesOK'
      BY <1>d, <1>9, QueueUntouched DEF StoreObjectFails, storeVars
    <3>2. QED
      BY <1>a, <1>c, <1>9, <3>1, TypeTables, JobKeys, QueueKept
      DEF StoreObjectFails, Goto, storeVars, Inv, Queue, Locks, Capacity, Preupload
  <2>5. QED
    BY <2>1, <2>2, <2>3, <2>4 DEF Inv
<1>10. CASE Finalize(u)
  <2>1. TypeOK'
    BY <1>a, <1>b, <1>10 DEF Finalize, Goto, Unlocked, storeVars, TypeOK, StoreTypeOK, UploadTypeOK, Open, Preupload, Reply, PhotoStatus
  <2>2. Capacity'
    <3>1. \A v \in Uploads : photo'[v] \in Live => photo[v] \in Live
      BY <1>a, <1>c, <1>10 DEF Finalize, Goto, Unlocked, storeVars, Locks, Live
    <3>2. \A v \in Uploads : upc'[v] \in Preupload => photo'[v] = "absent"
      BY <1>a, <1>c, <1>10 DEF Finalize, Goto, Unlocked, storeVars, Capacity, Preupload
    <3>3. \A v \in Uploads : upc'[v] \in {"count", "insert"} =>
            upc'[v] = upc[v] /\ craneLock'[CraneOf[v]] = craneLock[CraneOf[v]]
      BY <1>a, <1>c, <1>10 DEF Finalize, Goto, Unlocked, storeVars, Capacity
    <3>4. QED
      BY <3>1, <3>2, <3>3, CapacityKept
  <2>3. Locks' /\ Published'
    BY <1>a, <1>c, <1>d, <1>10 DEF Finalize, Goto, Unlocked, storeVars, Locks, Published, Capacity, Preupload
  <2>4. Queue'
    <3>1. SameJobs /\ BatchesOK'
      BY <1>d, <1>10, QueueUntouched DEF Finalize, storeVars
    <3>2. QED
      BY <1>a, <1>c, <1>10, <3>1, TypeTables, JobKeys, QueueKept
      DEF Finalize, Goto, Unlocked, storeVars, Inv, Queue, Locks, Capacity, Preupload
  <2>5. QED
    BY <2>1, <2>2, <2>3, <2>4 DEF Inv
<1>11. CASE FinalizeRace(u)
  <2>1. TypeOK'
    BY <1>a, <1>b, <1>11 DEF FinalizeRace, storeVars, TypeOK, StoreTypeOK, UploadTypeOK, Open, Preupload, Reply, PhotoStatus
  <2>2. Capacity'
    <3>1. \A v \in Uploads : photo'[v] \in Live => photo[v] \in Live
      BY <1>a, <1>c, <1>11 DEF FinalizeRace, storeVars, Locks, Live
    <3>2. \A v \in Uploads : upc'[v] \in Preupload => photo'[v] = "absent"
      BY <1>a, <1>c, <1>11 DEF FinalizeRace, storeVars, Capacity, Preupload
    <3>3. \A v \in Uploads : upc'[v] \in {"count", "insert"} =>
            upc'[v] = upc[v] /\ craneLock'[CraneOf[v]] = craneLock[CraneOf[v]]
      BY <1>a, <1>c, <1>11 DEF FinalizeRace, storeVars, Capacity
    <3>4. QED
      BY <3>1, <3>2, <3>3, CapacityKept
  <2>3. Locks' /\ Published'
    BY <1>a, <1>c, <1>d, <1>11 DEF FinalizeRace, storeVars, Locks, Published, Capacity, Preupload
  <2>4. Queue'
    <3>1. SameJobs /\ BatchesOK'
      BY <1>d, <1>11, QueueUntouched DEF FinalizeRace, storeVars
    <3>2. QED
      BY <1>a, <1>c, <1>11, <3>1, TypeTables, JobKeys, QueueKept
      DEF FinalizeRace, storeVars, Inv, Queue, Locks, Capacity, Preupload
  <2>5. QED
    BY <2>1, <2>2, <2>3, <2>4 DEF Inv
<1>12. CASE CommitActive(u)
  <2>1. TypeOK'
    BY <1>a, <1>b, <1>12 DEF CommitActive, Activate, Respond, ReleasePhoto, storeVars, TypeOK, StoreTypeOK, UploadTypeOK, Open, Preupload, Reply, PhotoStatus
  <2>2. Capacity'
    <3>1. \A v \in Uploads : photo'[v] \in Live => photo[v] \in Live
      BY <1>a, <1>c, <1>12 DEF CommitActive, Activate, Respond, ReleasePhoto, storeVars, Locks, Live
    <3>2. \A v \in Uploads : upc'[v] \in Preupload => photo'[v] = "absent"
      BY <1>a, <1>c, <1>12 DEF CommitActive, Activate, Respond, ReleasePhoto, storeVars, Capacity, Preupload
    <3>3. \A v \in Uploads : upc'[v] \in {"count", "insert"} =>
            upc'[v] = upc[v] /\ craneLock'[CraneOf[v]] = craneLock[CraneOf[v]]
      BY <1>a, <1>c, <1>12 DEF CommitActive, Activate, Respond, ReleasePhoto, storeVars, Capacity
    <3>4. QED
      BY <3>1, <3>2, <3>3, CapacityKept
  <2>3. Locks' /\ Published'
    BY <1>a, <1>c, <1>d, <1>12 DEF CommitActive, Activate, Respond, ReleasePhoto, storeVars, Locks, Published, Capacity, Preupload
  <2>4. Queue'
    <3>1. SameJobs /\ BatchesOK'
      BY <1>d, <1>12, QueueUntouched DEF CommitActive, storeVars
    <3>2. QED
      BY <1>a, <1>c, <1>12, <3>1, TypeTables, JobKeys, QueueKept
      DEF CommitActive, Activate, Respond, ReleasePhoto, storeVars, Inv, Queue, Locks, Capacity, Preupload
  <2>5. QED
    BY <2>1, <2>2, <2>3, <2>4 DEF Inv
<1>13. CASE FinalizeDbError(u)
  <2>1. TypeOK'
    BY <1>a, <1>b, <1>13 DEF FinalizeDbError, Activate, Goto, ReleasePhoto, storeVars, TypeOK, StoreTypeOK, UploadTypeOK, Open, Preupload, Reply, PhotoStatus
  <2>2. Capacity'
    <3>1. \A v \in Uploads : photo'[v] \in Live => photo[v] \in Live
      BY <1>a, <1>c, <1>13 DEF FinalizeDbError, Activate, Goto, ReleasePhoto, storeVars, Locks, Live
    <3>2. \A v \in Uploads : upc'[v] \in Preupload => photo'[v] = "absent"
      BY <1>a, <1>c, <1>13 DEF FinalizeDbError, Activate, Goto, ReleasePhoto, storeVars, Capacity, Preupload
    <3>3. \A v \in Uploads : upc'[v] \in {"count", "insert"} =>
            upc'[v] = upc[v] /\ craneLock'[CraneOf[v]] = craneLock[CraneOf[v]]
      BY <1>a, <1>c, <1>13 DEF FinalizeDbError, Activate, Goto, ReleasePhoto, storeVars, Capacity
    <3>4. QED
      BY <3>1, <3>2, <3>3, CapacityKept
  <2>3. Locks' /\ Published'
    BY <1>a, <1>c, <1>d, <1>13 DEF FinalizeDbError, Activate, Goto, ReleasePhoto, storeVars, Locks, Published, Capacity, Preupload
  <2>4. Queue'
    <3>1. SameJobs /\ BatchesOK'
      BY <1>d, <1>13, QueueUntouched DEF FinalizeDbError, storeVars
    <3>2. QED
      BY <1>a, <1>c, <1>13, <3>1, TypeTables, JobKeys, QueueKept
      DEF FinalizeDbError, Activate, Goto, ReleasePhoto, storeVars, Inv, Queue, Locks, Capacity, Preupload
  <2>5. QED
    BY <2>1, <2>2, <2>3, <2>4 DEF Inv
<1>14. CASE AbandonRead(u)
  <2>1. TypeOK'
    BY <1>a, <1>b, <1>14 DEF AbandonRead, Goto, Respond, EndAbandon, storeVars, TypeOK, StoreTypeOK, UploadTypeOK, Open, Preupload, Reply, PhotoStatus
  <2>2. Capacity'
    <3>1. \A v \in Uploads : photo'[v] \in Live => photo[v] \in Live
      BY <1>a, <1>c, <1>14 DEF AbandonRead, Goto, Respond, EndAbandon, storeVars, Locks, Live
    <3>2. \A v \in Uploads : upc'[v] \in Preupload => photo'[v] = "absent"
      BY <1>a, <1>c, <1>14 DEF AbandonRead, Goto, Respond, EndAbandon, storeVars, Capacity, Preupload
    <3>3. \A v \in Uploads : upc'[v] \in {"count", "insert"} =>
            upc'[v] = upc[v] /\ craneLock'[CraneOf[v]] = craneLock[CraneOf[v]]
      BY <1>a, <1>c, <1>14 DEF AbandonRead, Goto, Respond, EndAbandon, storeVars, Capacity
    <3>4. QED
      BY <3>1, <3>2, <3>3, CapacityKept
  <2>3. Locks' /\ Published'
    BY <1>a, <1>c, <1>d, <1>14 DEF AbandonRead, Goto, Respond, EndAbandon, storeVars, Locks, Published, Capacity, Preupload
  <2>4. Queue'
    <3>1. SameJobs /\ BatchesOK'
      BY <1>d, <1>14, QueueUntouched DEF AbandonRead, storeVars
    <3>2. QED
      BY <1>a, <1>c, <1>14, <3>1, TypeTables, JobKeys, QueueKept
      DEF AbandonRead, Goto, Respond, EndAbandon, storeVars, Inv, Queue, Locks, Capacity, Preupload
  <2>5. QED
    BY <2>1, <2>2, <2>3, <2>4 DEF Inv
<1>15. CASE AbandonFlush(u)
  <2>1. TypeOK'
    BY <1>a, <1>b, <1>15 DEF AbandonFlush, Goto, Respond, EndAbandon, Unlocked, storeVars, TypeOK, StoreTypeOK, UploadTypeOK, Open, Preupload, Reply, PhotoStatus
  <2>2. Capacity'
    <3>1. \A v \in Uploads : photo'[v] \in Live => photo[v] \in Live
      BY <1>a, <1>c, <1>15 DEF AbandonFlush, Goto, Respond, EndAbandon, Unlocked, storeVars, Locks, Live
    <3>2. \A v \in Uploads : upc'[v] \in Preupload => photo'[v] = "absent"
      BY <1>a, <1>c, <1>15 DEF AbandonFlush, Goto, Respond, EndAbandon, Unlocked, storeVars, Capacity, Preupload
    <3>3. \A v \in Uploads : upc'[v] \in {"count", "insert"} =>
            upc'[v] = upc[v] /\ craneLock'[CraneOf[v]] = craneLock[CraneOf[v]]
      BY <1>a, <1>c, <1>15 DEF AbandonFlush, Goto, Respond, EndAbandon, Unlocked, storeVars, Capacity
    <3>4. QED
      BY <3>1, <3>2, <3>3, CapacityKept
  <2>3. Locks' /\ Published'
    BY <1>a, <1>c, <1>d, <1>15 DEF AbandonFlush, Goto, Respond, EndAbandon, Unlocked, storeVars, Locks, Published, Capacity, Preupload
  <2>4. Queue'
    <3>1. SameJobs /\ BatchesOK'
      BY <1>d, <1>15, QueueUntouched DEF AbandonFlush, storeVars
    <3>2. QED
      BY <1>a, <1>c, <1>15, <3>1, TypeTables, JobKeys, QueueKept
      DEF AbandonFlush, Goto, Respond, EndAbandon, Unlocked, storeVars, Inv, Queue, Locks, Capacity, Preupload
  <2>5. QED
    BY <2>1, <2>2, <2>3, <2>4 DEF Inv
<1>16. CASE AbandonCommit(u)
  <2>a. /\ <<u>> \in Seq(Uploads) /\ Rows(<<u>>) = {u}
        /\ CreateDeleteJobs(<<u>>)
    BY <1>16 DEF Rows, AbandonCommit
  <2>b. photoLock[u] = u /\ photo[u] # "absent"
    BY <1>c, <1>16 DEF AbandonCommit, Locks
  <2>c. /\ photo' \in [Uploads -> PhotoStatus] /\ overdue' \subseteq Uploads
        /\ jobs' \in Seq(Job)
    BY <2>a, TypeTables, CreateJobs DEF Inv
  <2>d. \A v \in Uploads : photo'[v] = IF v = u THEN "pending_delete" ELSE photo[v]
    BY <2>a DEF CreateDeleteJobs
  <2>1. TypeOK'
    BY <1>a, <1>b, <1>16, <2>c
    DEF AbandonCommit, Respond, EndAbandon, ReleasePhoto, TypeOK, StoreTypeOK,
        UploadTypeOK, Open, Reply
  <2>2. Capacity'
    <3>1. \A v \in Uploads : photo'[v] \in Live => photo[v] \in Live
      BY <2>d DEF Live
    <3>2. \A v \in Uploads : upc'[v] \in Preupload => photo'[v] = "absent"
      BY <1>a, <1>c, <1>16, <2>d
      DEF AbandonCommit, Respond, EndAbandon, Capacity, Preupload
    <3>3. \A v \in Uploads : upc'[v] \in {"count", "insert"} =>
            upc'[v] = upc[v] /\ craneLock'[CraneOf[v]] = craneLock[CraneOf[v]]
      BY <1>a, <1>16 DEF AbandonCommit, Respond, EndAbandon
    <3>4. QED
      BY <3>1, <3>2, <3>3, CapacityKept
  <2>3. Locks' /\ Published'
    BY <1>a, <1>c, <1>d, <1>16, <2>b, <2>d
    DEF AbandonCommit, Respond, EndAbandon, ReleasePhoto, Locks, Published
  <2>4. Queue'
    <3>1. \A v \in Uploads : upc'[v] \in Preupload => v # u /\ upc[v] \in Preupload
      BY <1>a, <1>16 DEF AbandonCommit, Respond, EndAbandon, Preupload
    <3>2. QED
      BY <1>d, <2>a, <2>b, <3>1, QueueGrows
  <2>5. QED
    BY <2>1, <2>2, <2>3, <2>4 DEF Inv
<1>17. CASE AbandonDbError(u)
  <2>1. TypeOK'
    BY <1>a, <1>b, <1>17 DEF AbandonDbError, Respond, EndAbandon, ReleasePhoto, storeVars, TypeOK, StoreTypeOK, UploadTypeOK, Open, Preupload, Reply, PhotoStatus
  <2>2. Capacity'
    <3>1. \A v \in Uploads : photo'[v] \in Live => photo[v] \in Live
      BY <1>a, <1>c, <1>17 DEF AbandonDbError, Respond, EndAbandon, ReleasePhoto, storeVars, Locks, Live
    <3>2. \A v \in Uploads : upc'[v] \in Preupload => photo'[v] = "absent"
      BY <1>a, <1>c, <1>17 DEF AbandonDbError, Respond, EndAbandon, ReleasePhoto, storeVars, Capacity, Preupload
    <3>3. \A v \in Uploads : upc'[v] \in {"count", "insert"} =>
            upc'[v] = upc[v] /\ craneLock'[CraneOf[v]] = craneLock[CraneOf[v]]
      BY <1>a, <1>c, <1>17 DEF AbandonDbError, Respond, EndAbandon, ReleasePhoto, storeVars, Capacity
    <3>4. QED
      BY <3>1, <3>2, <3>3, CapacityKept
  <2>3. Locks' /\ Published'
    BY <1>a, <1>c, <1>d, <1>17 DEF AbandonDbError, Respond, EndAbandon, ReleasePhoto, storeVars, Locks, Published, Capacity, Preupload
  <2>4. Queue'
    <3>1. SameJobs /\ BatchesOK'
      BY <1>d, <1>17, QueueUntouched DEF AbandonDbError, storeVars
    <3>2. QED
      BY <1>a, <1>c, <1>17, <3>1, TypeTables, JobKeys, QueueKept
      DEF AbandonDbError, Respond, EndAbandon, ReleasePhoto, storeVars, Inv, Queue, Locks, Capacity, Preupload
  <2>5. QED
    BY <2>1, <2>2, <2>3, <2>4 DEF Inv
<1>18. CASE RequestDies(u)
  <2>1. TypeOK'
    BY <1>a, <1>b, <1>18 DEF RequestDies, Respond, ReleaseCrane, ReleasePhoto, storeVars, TypeOK, StoreTypeOK, UploadTypeOK, Open, Preupload, Reply, PhotoStatus
  <2>2. Capacity'
    <3>1. \A v \in Uploads : photo'[v] \in Live => photo[v] \in Live
      BY <1>a, <1>c, <1>18 DEF RequestDies, Respond, ReleaseCrane, ReleasePhoto, storeVars, Locks, Live
    <3>2. \A v \in Uploads : upc'[v] \in Preupload => photo'[v] = "absent"
      BY <1>a, <1>c, <1>18 DEF RequestDies, Respond, ReleaseCrane, ReleasePhoto, storeVars, Capacity, Preupload
    <3>3. \A v \in Uploads : upc'[v] \in {"count", "insert"} =>
            upc'[v] = upc[v] /\ craneLock'[CraneOf[v]] = craneLock[CraneOf[v]]
      BY <1>a, <1>c, <1>18 DEF RequestDies, Respond, ReleaseCrane, ReleasePhoto, storeVars, Capacity
    <3>4. QED
      BY <3>1, <3>2, <3>3, CapacityKept
  <2>3. Locks' /\ Published'
    BY <1>a, <1>c, <1>d, <1>18 DEF RequestDies, Respond, ReleaseCrane, ReleasePhoto, storeVars, Locks, Published, Capacity, Preupload
  <2>4. Queue'
    <3>1. SameJobs /\ BatchesOK'
      BY <1>d, <1>18, QueueUntouched DEF RequestDies, storeVars
    <3>2. QED
      BY <1>a, <1>c, <1>18, <3>1, TypeTables, JobKeys, QueueKept
      DEF RequestDies, Respond, ReleaseCrane, ReleasePhoto, storeVars, Inv, Queue, Locks, Capacity, Preupload
  <2>5. QED
    BY <2>1, <2>2, <2>3, <2>4 DEF Inv
<1>19. QED
  BY <1>1, <1>2, <1>3, <1>4, <1>5, <1>6, <1>7, <1>8, <1>9, <1>10, <1>11, <1>12, <1>13, <1>14, <1>15, <1>16, <1>17, <1>18 DEF RequestStep

(***************************************************************************)
(* The steps of the worker.                                                *)
(***************************************************************************)
\* A step that leaves the requests alone and makes no row live keeps Capacity.
LEMMA CapacityAway ==
  ASSUME Inv, UNCHANGED <<upc, craneLock>>,
         \A u \in Uploads : photo'[u] \in Live => photo[u] \in Live,
         \A u \in Uploads : photo[u] = "absent" => photo'[u] = "absent"
  PROVE  Capacity'
<1>1. \A u \in Uploads : upc'[u] \in Preupload => photo'[u] = "absent"
  BY DEF Inv, Capacity
<1>2. QED
  BY <1>1, CapacityKept

\* The first job of a batch is a job, and what follows it is a batch.
LEMMA BatchHead ==
  ASSUME Inv, NEW w \in Workers, batch[w] # <<>>
  PROVE  /\ Head(batch[w]) \in DOMAIN jobs
         /\ jobs[Head(batch[w])] \in Job
         /\ jobs[Head(batch[w])].key \in Uploads
         /\ photo[jobs[Head(batch[w])].key] \in {"pending_delete", "absent"}
         /\ Tail(batch[w]) \in Seq(Nat)
         /\ \A k \in DOMAIN Tail(batch[w]) : Tail(batch[w])[k] \in DOMAIN jobs
<1>1. batch[w] \in Seq(Nat)
  BY DEF Inv, TypeOK, WorkerTypeOK
<1>2. \A k \in DOMAIN batch[w] : batch[w][k] \in DOMAIN jobs
  BY DEF Inv, Queue
<1>3. Len(batch[w]) \in Nat \ {0} /\ DOMAIN batch[w] = 1..Len(batch[w])
  BY <1>1, EmptySeq, LenProperties
<1>4. Head(batch[w]) = batch[w][1] /\ 1 \in DOMAIN batch[w]
  BY <1>1, <1>3
<1>5. /\ Tail(batch[w]) \in Seq(Nat)
      /\ \A k \in DOMAIN Tail(batch[w]) :
           k + 1 \in DOMAIN batch[w] /\ Tail(batch[w])[k] = batch[w][k + 1]
  BY <1>1, <1>3
<1>6. QED
  BY <1>2, <1>4, <1>5, TypeTables, JobKeys DEF Inv, Queue

\* Every step of a worker keeps the invariant.
LEMMA WorkerInv ==
  ASSUME Inv, NEW w \in Workers, WorkerStep(w), UNCHANGED requestVars
  PROVE  Inv'
<1> USE ActorAssumption
<1>a. /\ photo \in [Uploads -> PhotoStatus]
      /\ photoLock \in [Uploads -> Uploads \cup Workers \cup Admins \cup {NoOne}]
      /\ overdue \subseteq Uploads /\ objects \subseteq Uploads /\ jobs \in Seq(Job)
      /\ wpc \in [Workers -> Points] /\ batch \in [Workers -> Seq(Nat)]
      /\ err \in [Workers -> BOOLEAN] /\ shutdown \in [Workers -> BOOLEAN]
      /\ loaded \in [Workers -> [status : JobStatus, attempts : Nat, lease : Lease]]
      /\ reaping \in [Workers -> Seq(Uploads)]
  BY DEF Inv, TypeOK, StoreTypeOK, WorkerTypeOK
<1>b. UploadTypeOK'
  BY DEF Inv, TypeOK, UploadTypeOK, requestVars
<1>c. Capacity /\ Locks /\ Published /\ Queue /\ TypeOK
  BY DEF Inv
<1>d. UNCHANGED <<upc, craneLock>>
  BY DEF requestVars
<1>e. <<>> \in Seq(Nat) /\ <<>> \in Seq(Uploads) /\ NotLoaded \in [status : JobStatus, attempts : Nat, lease : Lease]
  BY DEF NotLoaded, JobStatus, Lease
<1>1. CASE Claim(w)
  <2>a. PICK sel \in Selections(Claimable) :
          MarkClaimed(Rows(sel)) /\ batch' = [batch EXCEPT ![w] = sel]
    BY <1>1 DEF Claim
  <2>b. /\ SameJobs
        /\ \A i \in DOMAIN jobs : jobs'[i].status = "completed" => jobs[i].status = "completed"
    BY <1>c, <2>a, TypeTables, ClaimJobs
  <2>c. sel \in Seq(Nat) /\ Rows(sel) \subseteq DOMAIN jobs
    <3>1. Claimable \subseteq DOMAIN jobs /\ Claimable \subseteq Nat
      BY <1>a DEF Claimable
    <3>2. QED
      BY <3>1, SelectionType, SeqMonotonic
  <2>1. TypeOK'
    BY <1>a, <1>b, <1>e, <1>1, <2>a, <2>b, <2>c
    DEF Claim, WGoto, SameJobs, TypeOK, StoreTypeOK, WorkerTypeOK, Points, storeVars
  <2>2. Capacity'
    BY <1>d, <1>1, CapacityAway DEF Claim, storeVars
  <2>3. Locks' /\ Published'
    BY <1>a, <1>c, <1>d, <1>1 DEF Claim, storeVars, Locks, Published
  <2>4. Queue'
    <3>1. BatchesOK'
      BY <1>a, <1>c, <1>1, <2>a, <2>b, <2>c DEF Claim, WGoto, Queue, BatchesOK, SameJobs, Rows
    <3>2. QED
      BY <1>c, <1>d, <1>1, <2>b, <3>1, QueueKept DEF Claim, Queue
  <2>5. QED
    BY <2>1, <2>2, <2>3, <2>4 DEF Inv
<1>2. CASE ClaimDbError(w)
  <2>a. PICK sel \in {<<>>} \cup Selections(Claimable) : MarkClaimed(Rows(sel))
    BY <1>2 DEF ClaimDbError
  <2>b. /\ SameJobs
        /\ \A i \in DOMAIN jobs : jobs'[i].status = "completed" => jobs[i].status = "completed"
    BY <1>c, <2>a, TypeTables, ClaimJobs
  <2>1. TypeOK'
    BY <1>a, <1>b, <1>e, <1>2, <2>b
    DEF ClaimDbError, WGoto, SameJobs, TypeOK, StoreTypeOK, WorkerTypeOK, Points, storeVars
  <2>2. Capacity'
    BY <1>d, <1>2, CapacityAway DEF ClaimDbError, storeVars
  <2>3. Locks' /\ Published'
    BY <1>a, <1>c, <1>d, <1>2 DEF ClaimDbError, storeVars, Locks, Published
  <2>4. Queue'
    <3>1. BatchesOK'
      BY <1>a, <1>c, <1>2, <2>b DEF ClaimDbError, WGoto, Queue, BatchesOK, SameJobs
    <3>2. QED
      BY <1>c, <1>d, <1>2, <2>b, <3>1, QueueKept DEF ClaimDbError, Queue
  <2>5. QED
    BY <2>1, <2>2, <2>3, <2>4 DEF Inv
<1>3. CASE DeleteObject(w)
  <2>a. photo[jobs[Head(batch[w])].key] \in {"pending_delete", "absent"}
    BY <1>3, BatchHead DEF DeleteObject
  <2>1. TypeOK'
    BY <1>a, <1>b, <1>e, <1>3
    DEF DeleteObject, WGoto, TypeOK, StoreTypeOK, WorkerTypeOK, Points, storeVars
  <2>2. Capacity'
    BY <1>d, <1>3, CapacityAway DEF DeleteObject, storeVars
  <2>3. Locks' /\ Published'
    BY <1>a, <1>c, <1>d, <1>3, <2>a DEF DeleteObject, storeVars, Locks, Published
  <2>4. Queue'
    <3>1. SameJobs
      BY <1>a, <1>3 DEF DeleteObject, storeVars, SameJobs
    <3>2. BatchesOK'
      BY <1>a, <1>c, <1>3 DEF DeleteObject, WGoto, storeVars, Queue, BatchesOK
    <3>3. QED
      BY <1>c, <1>d, <1>3, <3>1, <3>2, QueueKept DEF DeleteObject, storeVars, Queue
  <2>5. QED
    BY <2>1, <2>2, <2>3, <2>4 DEF Inv
<1>4. CASE DeleteObjectFails(w)
  <2>a. photo[jobs[Head(batch[w])].key] \in {"pending_delete", "absent"}
    BY <1>4, BatchHead DEF DeleteObjectFails
  <2>1. TypeOK'
    BY <1>a, <1>b, <1>e, <1>4
    DEF DeleteObjectFails, WGoto, TypeOK, StoreTypeOK, WorkerTypeOK, Points, storeVars
  <2>2. Capacity'
    BY <1>d, <1>4, CapacityAway DEF DeleteObjectFails, storeVars
  <2>3. Locks' /\ Published'
    BY <1>a, <1>c, <1>d, <1>4, <2>a DEF DeleteObjectFails, storeVars, Locks, Published
  <2>4. Queue'
    <3>1. SameJobs
      BY <1>a, <1>4 DEF DeleteObjectFails, storeVars, SameJobs
    <3>2. BatchesOK'
      BY <1>a, <1>c, <1>4 DEF DeleteObjectFails, WGoto, storeVars, Queue, BatchesOK
    <3>3. QED
      BY <1>c, <1>d, <1>4, <3>1, <3>2, QueueKept DEF DeleteObjectFails, storeVars, Queue
  <2>5. QED
    BY <2>1, <2>2, <2>3, <2>4 DEF Inv
<1>5. CASE EndBatch(w)
  <2>1. TypeOK'
    BY <1>a, <1>b, <1>e, <1>5
    DEF EndBatch, WGoto, TypeOK, StoreTypeOK, WorkerTypeOK, Points, storeVars
  <2>2. Capacity'
    BY <1>d, <1>5, CapacityAway DEF EndBatch, storeVars
  <2>3. Locks' /\ Published'
    BY <1>a, <1>c, <1>d, <1>5 DEF EndBatch, storeVars, Locks, Published
  <2>4. Queue'
    <3>1. SameJobs
      BY <1>a, <1>5 DEF EndBatch, storeVars, SameJobs
    <3>2. BatchesOK'
      BY <1>a, <1>c, <1>5 DEF EndBatch, WGoto, storeVars, Queue, BatchesOK
    <3>3. QED
      BY <1>c, <1>d, <1>5, <3>1, <3>2, QueueKept DEF EndBatch, storeVars, Queue
  <2>5. QED
    BY <2>1, <2>2, <2>3, <2>4 DEF Inv
<1>6. CASE LoadJob(w)
  <2>a. jobs[Head(batch[w])] \in Job
    BY <1>c, <1>6, BatchHead DEF LoadJob, Queue
  <2>1. TypeOK'
    BY <1>a, <1>b, <1>e, <1>6, <2>a
    DEF LoadJob, WGoto, Job, TypeOK, StoreTypeOK, WorkerTypeOK, Points, storeVars
  <2>2. Capacity'
    BY <1>d, <1>6, CapacityAway DEF LoadJob, storeVars
  <2>3. Locks' /\ Published'
    BY <1>a, <1>c, <1>d, <1>6 DEF LoadJob, storeVars, Locks, Published
  <2>4. Queue'
    <3>1. SameJobs
      BY <1>a, <1>6 DEF LoadJob, storeVars, SameJobs
    <3>2. BatchesOK'
      BY <1>a, <1>c, <1>6 DEF LoadJob, WGoto, storeVars, Queue, BatchesOK
    <3>3. QED
      BY <1>c, <1>d, <1>6, <3>1, <3>2, QueueKept DEF LoadJob, storeVars, Queue
  <2>5. QED
    BY <2>1, <2>2, <2>3, <2>4 DEF Inv
<1>7. CASE CaptureSuccess(w)
  <2>a. batch[w] # <<>>
    BY <1>c, <1>7 DEF CaptureSuccess, Queue
  <2>b. /\ Tail(batch[w]) \in Seq(Nat)
        /\ \A k \in DOMAIN Tail(batch[w]) : Tail(batch[w])[k] \in DOMAIN jobs
    BY <2>a, BatchHead
  <2>c. /\ SameJobs
        /\ \A i \in DOMAIN jobs : i # Head(batch[w]) => jobs'[i] = jobs[i]
    <3>1. jobs[Head(batch[w])].available \in BOOLEAN
      BY <2>a, BatchHead DEF Job
    <3>2. QED
      BY <1>c, <1>7, <3>1, TypeTables, SaveJobs DEF CaptureSuccess, JobStatus
  <2>d. /\ jobs[Head(batch[w])].key \in Uploads
        /\ photo' = [photo EXCEPT ![jobs[Head(batch[w])].key] = "absent"]
        /\ photo[jobs[Head(batch[w])].key] \in {"pending_delete", "absent"}
    BY <1>7, <2>a, BatchHead DEF CaptureSuccess
  <2>1. TypeOK'
    BY <1>a, <1>b, <1>e, <1>7, <2>b, <2>c, <2>d
    DEF CaptureSuccess, NextJob, WGoto, SameJobs, TypeOK, StoreTypeOK, WorkerTypeOK, Points, PhotoStatus
  <2>2. Capacity'
    BY <1>a, <1>d, <2>d, CapacityAway DEF Live
  <2>3. Locks' /\ Published'
    BY <1>a, <1>c, <1>d, <1>7, <2>d DEF CaptureSuccess, Unlocked, Locks, Published
  <2>4. Queue'
    <3>1. BatchesOK'
      BY <1>a, <1>c, <1>7, <2>b, <2>c
      DEF CaptureSuccess, NextJob, WGoto, Queue, BatchesOK, SameJobs
    <3>2. \A i \in DOMAIN jobs :
            /\ photo'[jobs[i].key] \in {photo[jobs[i].key], "absent"}
            /\ jobs'[i].status = "completed" =>
                 jobs[i].status = "completed" \/ photo'[jobs[i].key] = "absent"
      BY <1>a, <1>c, <2>c, <2>d, TypeTables, JobKeys
    <3>3. QED
      BY <1>a, <1>d, <2>c, <2>d, <3>1, <3>2, QueueKept
  <2>5. QED
    BY <2>1, <2>2, <2>3, <2>4 DEF Inv
<1>8. CASE CaptureFailure(w)
  <2>a. batch[w] # <<>>
    BY <1>c, <1>8 DEF CaptureFailure, Queue
  <2>b. /\ Tail(batch[w]) \in Seq(Nat)
        /\ \A k \in DOMAIN Tail(batch[w]) : Tail(batch[w])[k] \in DOMAIN jobs
    BY <2>a, BatchHead
  <2>c. /\ SameJobs
        /\ \A i \in DOMAIN jobs : jobs'[i].status = "completed" => jobs[i].status = "completed"
    <3>1. CASE loaded[w].attempts < MaxAttempts
      <4>1. SaveJob(w, "pending", FALSE) /\ "pending" \in JobStatus
        BY <1>8, <3>1 DEF CaptureFailure, JobStatus
      <4>2. QED
        BY <1>c, <4>1, TypeTables, SaveJobs
    <3>2. CASE ~(loaded[w].attempts < MaxAttempts)
      <4>1. SaveJob(w, "failed", FALSE) /\ "failed" \in JobStatus
        BY <1>8, <3>2 DEF CaptureFailure, JobStatus
      <4>2. QED
        BY <1>c, <4>1, TypeTables, SaveJobs
    <3>3. QED
      BY <3>1, <3>2
  <2>1. TypeOK'
    BY <1>a, <1>b, <1>e, <1>8, <2>b, <2>c
    DEF CaptureFailure, NextJob, WGoto, SameJobs, TypeOK, StoreTypeOK, WorkerTypeOK, Points
  <2>2. Capacity'
    BY <1>d, <1>8, CapacityAway DEF CaptureFailure, storeVars
  <2>3. Locks' /\ Published'
    BY <1>a, <1>c, <1>d, <1>8 DEF CaptureFailure, storeVars, Locks, Published
  <2>4. Queue'
    <3>1. BatchesOK'
      BY <1>a, <1>c, <1>8, <2>b, <2>c
      DEF CaptureFailure, NextJob, WGoto, Queue, BatchesOK, SameJobs
    <3>2. QED
      BY <1>c, <1>d, <1>8, <2>c, <3>1, QueueKept DEF CaptureFailure, Queue
  <2>5. QED
    BY <2>1, <2>2, <2>3, <2>4 DEF Inv
<1>9. CASE RecordDbError(w)
  <2>a. batch[w] # <<>>
    BY <1>c, <1>9 DEF RecordDbError, Queue
  <2>b. /\ Tail(batch[w]) \in Seq(Nat)
        /\ \A k \in DOMAIN Tail(batch[w]) : Tail(batch[w])[k] \in DOMAIN jobs
    BY <2>a, BatchHead
  <2>1. TypeOK'
    BY <1>a, <1>b, <1>e, <1>9, <2>b
    DEF RecordDbError, WGoto, NextJob, TypeOK, StoreTypeOK, WorkerTypeOK, Points, storeVars
  <2>2. Capacity'
    BY <1>d, <1>9, CapacityAway DEF RecordDbError, storeVars
  <2>3. Locks' /\ Published'
    BY <1>a, <1>c, <1>d, <1>9 DEF RecordDbError, storeVars, Locks, Published
  <2>4. Queue'
    <3>1. SameJobs
      BY <1>a, <1>9 DEF RecordDbError, storeVars, SameJobs
    <3>2. BatchesOK'
      BY <1>a, <1>c, <1>9, <2>b DEF RecordDbError, WGoto, storeVars, NextJob, Queue, BatchesOK
    <3>3. QED
      BY <1>c, <1>d, <1>9, <3>1, <3>2, QueueKept DEF RecordDbError, storeVars, Queue
  <2>5. QED
    BY <2>1, <2>2, <2>3, <2>4 DEF Inv
<1>10. CASE ReapSelect(w)
  <2>a. PICK sel \in Selections(Reapable) :
          /\ reaping' = [reaping EXCEPT ![w] = sel]
          /\ photoLock' = [u \in Uploads |-> IF u \in Rows(sel) THEN w ELSE photoLock[u]]
    BY <1>10 DEF ReapSelect
  <2>b. sel \in Seq(Uploads) /\ Rows(sel) \subseteq Reapable
    <3>1. Reapable \subseteq Uploads
      BY <1>a DEF Reapable
    <3>2. QED
      BY <3>1, SelectionType, SeqMonotonic
  <2>1. TypeOK'
    BY <1>a, <1>b, <1>e, <1>10, <2>a, <2>b
    DEF ReapSelect, WGoto, TypeOK, StoreTypeOK, WorkerTypeOK, Points, storeVars
  <2>2. Capacity'
    BY <1>d, <1>10, CapacityAway DEF ReapSelect, storeVars
  <2>3. Locks' /\ Published'
    BY <1>a, <1>c, <1>d, <1>10, <2>a, <2>b DEF ReapSelect, Reapable, Unlocked, Locks, Published
  <2>4. Queue'
    <3>1. SameJobs
      BY <1>a, <1>10 DEF ReapSelect, storeVars, SameJobs
    <3>2. BatchesOK'
      BY <1>a, <1>c, <1>10 DEF ReapSelect, WGoto, storeVars, Queue, BatchesOK
    <3>3. QED
      BY <1>c, <1>d, <1>10, <3>1, <3>2, QueueKept DEF ReapSelect, storeVars, Queue
  <2>5. QED
    BY <2>1, <2>2, <2>3, <2>4 DEF Inv
<1>11. CASE ReapCommit(w)
  <2>a. reaping[w] \in Seq(Uploads) /\ CreateDeleteJobs(reaping[w])
    BY <1>a, <1>11 DEF ReapCommit
  <2>b. \A u \in Rows(reaping[w]) :
          u \in Uploads /\ photoLock[u] = w /\ photo[u] = "pending_upload"
    <3>1. Rows(reaping[w]) \subseteq Uploads
      BY <2>a, LenProperties, ElementOfSeq DEF Rows
    <3>2. QED
      BY <1>c, <3>1 DEF Locks
  <2>c. /\ photo' \in [Uploads -> PhotoStatus] /\ overdue' \subseteq Uploads
        /\ jobs' \in Seq(Job)
    BY <1>c, <2>a, TypeTables, CreateJobs
  <2>d. \A u \in Uploads : photo'[u] = IF u \in Rows(reaping[w]) THEN "pending_delete" ELSE photo[u]
    BY <2>a DEF CreateDeleteJobs
  <2>1. TypeOK'
    BY <1>a, <1>b, <1>e, <1>11, <2>c
    DEF ReapCommit, EndReap, WGoto, TypeOK, StoreTypeOK, WorkerTypeOK, Points
  <2>2. Capacity'
    BY <1>a, <1>d, <2>b, <2>d, CapacityAway DEF Live
  <2>3. Locks' /\ Published'
    BY <1>a, <1>c, <1>d, <1>11, <2>b, <2>d
    DEF ReapCommit, EndReap, Locks, Published, Rows
  <2>4. Queue'
    <3>1. \A u \in Rows(reaping[w]) : photo[u] # "absent" /\ upc[u] \notin Preupload
      BY <1>c, <2>b DEF Capacity
    <3>2. QED
      BY <1>a, <1>d, <1>11, <2>a, <3>1, QueueGrows DEF ReapCommit, WGoto
  <2>5. QED
    BY <2>1, <2>2, <2>3, <2>4 DEF Inv
<1>12. CASE ReapDbError(w)
  <2>1. TypeOK'
    BY <1>a, <1>b, <1>e, <1>12
    DEF ReapDbError, WGoto, EndReap, TypeOK, StoreTypeOK, WorkerTypeOK, Points, storeVars
  <2>2. Capacity'
    BY <1>d, <1>12, CapacityAway DEF ReapDbError, storeVars
  <2>3. Locks' /\ Published'
    BY <1>a, <1>c, <1>d, <1>12 DEF ReapDbError, storeVars, EndReap, Rows, Locks, Published
  <2>4. Queue'
    <3>1. SameJobs
      BY <1>a, <1>12 DEF ReapDbError, storeVars, SameJobs
    <3>2. BatchesOK'
      BY <1>a, <1>c, <1>12 DEF ReapDbError, WGoto, storeVars, Queue, BatchesOK
    <3>3. QED
      BY <1>c, <1>d, <1>12, <3>1, <3>2, QueueKept DEF ReapDbError, storeVars, Queue
  <2>5. QED
    BY <2>1, <2>2, <2>3, <2>4 DEF Inv
<1>13. CASE Signal(w)
  <2>1. TypeOK'
    BY <1>a, <1>b, <1>e, <1>13
    DEF Signal, WGoto, TypeOK, StoreTypeOK, WorkerTypeOK, Points, storeVars
  <2>2. Capacity'
    BY <1>d, <1>13, CapacityAway DEF Signal, storeVars
  <2>3. Locks' /\ Published'
    BY <1>a, <1>c, <1>d, <1>13 DEF Signal, storeVars, Locks, Published
  <2>4. Queue'
    <3>1. SameJobs
      BY <1>a, <1>13 DEF Signal, storeVars, SameJobs
    <3>2. BatchesOK'
      BY <1>a, <1>c, <1>13 DEF Signal, WGoto, storeVars, Queue, BatchesOK
    <3>3. QED
      BY <1>c, <1>d, <1>13, <3>1, <3>2, QueueKept DEF Signal, storeVars, Queue
  <2>5. QED
    BY <2>1, <2>2, <2>3, <2>4 DEF Inv
<1>14. CASE Exit(w)
  <2>1. TypeOK'
    BY <1>a, <1>b, <1>e, <1>14
    DEF Exit, WGoto, TypeOK, StoreTypeOK, WorkerTypeOK, Points, storeVars
  <2>2. Capacity'
    BY <1>d, <1>14, CapacityAway DEF Exit, storeVars
  <2>3. Locks' /\ Published'
    BY <1>a, <1>c, <1>d, <1>14 DEF Exit, storeVars, Locks, Published
  <2>4. Queue'
    <3>1. SameJobs
      BY <1>a, <1>14 DEF Exit, storeVars, SameJobs
    <3>2. BatchesOK'
      BY <1>a, <1>c, <1>14 DEF Exit, WGoto, storeVars, Queue, BatchesOK
    <3>3. QED
      BY <1>c, <1>d, <1>14, <3>1, <3>2, QueueKept DEF Exit, storeVars, Queue
  <2>5. QED
    BY <2>1, <2>2, <2>3, <2>4 DEF Inv
<1>15. CASE Crash(w)
  <2>1. TypeOK'
    BY <1>a, <1>b, <1>e, <1>15
    DEF Crash, WGoto, EndReap, TypeOK, StoreTypeOK, WorkerTypeOK, Points, storeVars
  <2>2. Capacity'
    BY <1>d, <1>15, CapacityAway DEF Crash, storeVars
  <2>3. Locks' /\ Published'
    BY <1>a, <1>c, <1>d, <1>15 DEF Crash, storeVars, EndReap, Rows, Locks, Published
  <2>4. Queue'
    <3>1. SameJobs
      BY <1>a, <1>15 DEF Crash, storeVars, SameJobs
    <3>2. BatchesOK'
      BY <1>a, <1>c, <1>15 DEF Crash, WGoto, storeVars, Queue, BatchesOK
    <3>3. QED
      BY <1>c, <1>d, <1>15, <3>1, <3>2, QueueKept DEF Crash, storeVars, Queue
  <2>5. QED
    BY <2>1, <2>2, <2>3, <2>4 DEF Inv
<1>16. CASE Restart(w)
  <2>1. TypeOK'
    BY <1>a, <1>b, <1>e, <1>16
    DEF Restart, WGoto, TypeOK, StoreTypeOK, WorkerTypeOK, Points, storeVars
  <2>2. Capacity'
    BY <1>d, <1>16, CapacityAway DEF Restart, storeVars
  <2>3. Locks' /\ Published'
    BY <1>a, <1>c, <1>d, <1>16 DEF Restart, storeVars, Locks, Published
  <2>4. Queue'
    <3>1. SameJobs
      BY <1>a, <1>16 DEF Restart, storeVars, SameJobs
    <3>2. BatchesOK'
      BY <1>a, <1>c, <1>16 DEF Restart, WGoto, storeVars, Queue, BatchesOK
    <3>3. QED
      BY <1>c, <1>d, <1>16, <3>1, <3>2, QueueKept DEF Restart, storeVars, Queue
  <2>5. QED
    BY <2>1, <2>2, <2>3, <2>4 DEF Inv
<1>17. QED
  BY <1>1, <1>2, <1>3, <1>4, <1>5, <1>6, <1>7, <1>8, <1>9, <1>10, <1>11, <1>12, <1>13, <1>14, <1>15, <1>16 DEF WorkerStep

(***************************************************************************)
(* Admin deletions and the passing of time.                                *)
(***************************************************************************)
LEMMA AdminInv ==
  ASSUME Inv, NEW a \in Admins, NEW u \in Uploads,
         AdminSelect(a, u) \/ AdminCommit(a, u) \/ AdminFails(a, u),
         UNCHANGED <<requestVars, workerVars>>
  PROVE  Inv'
<1> USE ActorAssumption
<1>a. /\ photo \in [Uploads -> PhotoStatus]
      /\ photoLock \in [Uploads -> Uploads \cup Workers \cup Admins \cup {NoOne}]
      /\ overdue \subseteq Uploads /\ objects \subseteq Uploads /\ jobs \in Seq(Job)
  BY DEF Inv, TypeOK, StoreTypeOK
<1>b. UploadTypeOK' /\ WorkerTypeOK'
  BY DEF Inv, TypeOK, UploadTypeOK, WorkerTypeOK, requestVars, workerVars
<1>c. Capacity /\ Locks /\ Published /\ Queue /\ TypeOK
  BY DEF Inv
<1>d. UNCHANGED <<upc, craneLock, batch, wpc, reaping>>
  BY DEF requestVars, workerVars
<1>1. CASE AdminSelect(a, u)
  <2>1. TypeOK'
    BY <1>a, <1>b, <1>1 DEF AdminSelect, TypeOK, StoreTypeOK
  <2>2. Capacity'
    BY <1>d, <1>1, CapacityAway DEF AdminSelect
  <2>3. Locks' /\ Published'
    BY <1>a, <1>c, <1>d, <1>1 DEF AdminSelect, Locks, Published, Unlocked
  <2>4. Queue'
    <3>1. SameJobs /\ BatchesOK'
      BY <1>d, <1>1, QueueUntouched DEF AdminSelect
    <3>2. QED
      BY <1>c, <1>d, <1>1, <3>1, QueueKept DEF AdminSelect, Queue
  <2>5. QED
    BY <2>1, <2>2, <2>3, <2>4 DEF Inv
<1>2. CASE AdminCommit(a, u)
  <2>a. /\ <<u>> \in Seq(Uploads) /\ Rows(<<u>>) = {u}
        /\ CreateDeleteJobs(<<u>>)
    BY <1>2 DEF Rows, AdminCommit
  <2>b. photoLock[u] = a /\ photo[u] = "active" /\ upc[u] \notin Preupload
    BY <1>c, <1>2 DEF AdminCommit, Locks, Published, Preupload
  <2>c. /\ photo' \in [Uploads -> PhotoStatus] /\ overdue' \subseteq Uploads
        /\ jobs' \in Seq(Job)
    BY <1>c, <2>a, TypeTables, CreateJobs
  <2>d. \A v \in Uploads : photo'[v] = IF v = u THEN "pending_delete" ELSE photo[v]
    BY <2>a DEF CreateDeleteJobs
  <2>1. TypeOK'
    BY <1>a, <1>b, <1>2, <2>c DEF AdminCommit, TypeOK, StoreTypeOK
  <2>2. Capacity'
    BY <1>d, <2>b, <2>d, CapacityAway DEF Live
  <2>3. Locks' /\ Published'
    BY <1>a, <1>c, <1>d, <1>2, <2>b, <2>d DEF AdminCommit, Locks, Published
  <2>4. Queue'
    BY <1>d, <2>a, <2>b, QueueGrows
  <2>5. QED
    BY <2>1, <2>2, <2>3, <2>4 DEF Inv
<1>3. CASE AdminFails(a, u)
  <2>1. TypeOK'
    BY <1>a, <1>b, <1>3 DEF AdminFails, TypeOK, StoreTypeOK
  <2>2. Capacity'
    BY <1>d, <1>3, CapacityAway DEF AdminFails
  <2>3. Locks' /\ Published'
    BY <1>a, <1>c, <1>d, <1>3 DEF AdminFails, Locks, Published
  <2>4. Queue'
    <3>1. SameJobs /\ BatchesOK'
      BY <1>d, <1>3, QueueUntouched DEF AdminFails
    <3>2. QED
      BY <1>c, <1>d, <1>3, <3>1, QueueKept DEF AdminFails, Queue
  <2>5. QED
    BY <2>1, <2>2, <2>3, <2>4 DEF Inv
<1>4. QED
  BY <1>1, <1>2, <1>3

\* The passing of a window, a backoff or a lease keeps the invariant.
LEMMA TimeInv ==
  ASSUME Inv, Time
  PROVE  Inv'
<1>a. /\ photo \in [Uploads -> PhotoStatus]
      /\ overdue \subseteq Uploads /\ jobs \in Seq(Job)
  BY DEF Inv, TypeOK, StoreTypeOK
<1>b. UNCHANGED <<photo, objects, photoLock, requestVars, workerVars>>
  BY DEF Time, WindowElapses, BackoffElapses, LeaseExpires
<1>c. Capacity /\ Locks /\ Published /\ Queue
  BY DEF Inv
<1>d. UNCHANGED <<upc, craneLock, batch, wpc, reaping>>
  BY <1>b DEF requestVars, workerVars
<1>1. /\ overdue' \subseteq Uploads
      /\ SameJobs
      /\ \A i \in DOMAIN jobs : jobs'[i].status = jobs[i].status
  <2>1. CASE \E u \in Uploads : WindowElapses(u)
    BY <1>a, <2>1 DEF WindowElapses, SameJobs
  <2>2. ASSUME NEW i \in DOMAIN jobs, BackoffElapses(i)
        PROVE  SameJobs /\ \A k \in DOMAIN jobs : jobs'[k].status = jobs[k].status
    <3>1. jobs' = [jobs EXCEPT ![i] = [jobs[i] EXCEPT !.available = TRUE]]
      BY <2>2 DEF BackoffElapses
    <3>2. jobs[i] \in Job /\ i \in 1..Len(jobs)
      BY <1>a, LenProperties, ElementOfSeq
    <3>3. [jobs[i] EXCEPT !.available = TRUE] \in Job
      BY <3>2 DEF Job
    <3>4. jobs' \in Seq(Job)
      BY <1>a, <3>1, <3>2, <3>3, ExceptSeq
    <3>5. QED
      BY <1>a, <3>1, <3>2, <3>4 DEF SameJobs, Job
  <2>3. ASSUME NEW i \in DOMAIN jobs, LeaseExpires(i)
        PROVE  SameJobs /\ \A k \in DOMAIN jobs : jobs'[k].status = jobs[k].status
    <3>1. jobs' = [jobs EXCEPT ![i] = [jobs[i] EXCEPT !.lease = "expired"]]
      BY <2>3 DEF LeaseExpires
    <3>2. jobs[i] \in Job /\ i \in 1..Len(jobs)
      BY <1>a, LenProperties, ElementOfSeq
    <3>3. [jobs[i] EXCEPT !.lease = "expired"] \in Job
      BY <3>2 DEF Job, Lease
    <3>4. jobs' \in Seq(Job)
      BY <1>a, <3>1, <3>2, <3>3, ExceptSeq
    <3>5. QED
      BY <1>a, <3>1, <3>2, <3>4 DEF SameJobs, Job
  <2>4. CASE \E i \in DOMAIN jobs : BackoffElapses(i) \/ LeaseExpires(i)
    BY <1>a, <2>2, <2>3, <2>4 DEF BackoffElapses, LeaseExpires
  <2>5. QED
    BY <2>1, <2>4 DEF Time
<1>2. TypeOK'
  BY <1>1, <1>b DEF Inv, TypeOK, StoreTypeOK, UploadTypeOK, WorkerTypeOK, SameJobs,
                    requestVars, workerVars
<1>3. Capacity'
  BY <1>b, <1>d, CapacityAway
<1>4. Locks' /\ Published'
  BY <1>b, <1>c, <1>d DEF Locks, Published
<1>5. Queue'
  <2>1. BatchesOK'
    BY <1>1, <1>c, <1>d DEF Queue, BatchesOK, SameJobs
  <2>2. QED
    BY <1>1, <1>b, <1>c, <1>d, <2>1, QueueKept DEF Queue
<1>6. QED
  BY <1>2, <1>3, <1>4, <1>5 DEF Inv

(***************************************************************************)
(* The theorems.                                                           *)
(***************************************************************************)
\* The invariant holds in every reachable state: no interleaving of upload
\* requests, admin deletions, workers, errors, crashes and time breaks it.
THEOREM Invariance == Spec => []Inv
<1>1. Inv /\ [Next]_vars => Inv'
  <2>1. SUFFICES ASSUME Inv, [Next]_vars PROVE Inv'
    OBVIOUS
  <2>2. CASE Request
    BY <2>1, <2>2, RequestInv DEF Request
  <2>3. CASE Worker
    BY <2>1, <2>3, WorkerInv DEF Worker
  <2>4. CASE Admin
    <3>1. PICK a \in Admins, u \in Uploads :
            AdminSelect(a, u) \/ AdminCommit(a, u) \/ AdminFails(a, u)
      BY <2>4 DEF Admin
    <3>2. UNCHANGED <<requestVars, workerVars>>
      BY <3>1 DEF AdminSelect, AdminCommit, AdminFails
    <3>3. QED
      BY <2>1, <3>1, <3>2, AdminInv
  <2>5. CASE Time
    BY <2>1, <2>5, TimeInv
  <2>6. CASE UNCHANGED vars
    <3>1. UNCHANGED <<storeVars, requestVars, workerVars>>
      BY <2>6 DEF vars
    <3>2. TypeOK'
      BY <2>1, <3>1 DEF Inv, TypeOK, StoreTypeOK, UploadTypeOK, WorkerTypeOK,
                        storeVars, requestVars, workerVars
    <3>3. Capacity'
      BY <2>1, <3>1, CapacityAway DEF storeVars, requestVars
    <3>4. Locks' /\ Published'
      BY <2>1, <3>1 DEF Inv, Locks, Published, storeVars, requestVars, workerVars
    <3>5. Queue'
      BY <2>1, <3>1 DEF Inv, Queue, JobsOf, storeVars, requestVars, workerVars
    <3>6. QED
      BY <3>2, <3>3, <3>4, <3>5 DEF Inv
  <2>7. QED
    BY <2>1, <2>2, <2>3, <2>4, <2>5, <2>6 DEF Next
<1>2. QED
  BY <1>1, InitInv, PTL DEF Spec

\* The variables keep their types.
THEOREM TypeCorrect == Spec => []TypeOK
<1>1. Inv => TypeOK
  BY DEF Inv
<1>2. QED
  BY <1>1, Invariance, PTL

\* ensure_crane_photo_capacity keeps every crane within MAX_PHOTOS_PER_CRANE.
THEOREM PhotoLimitHolds == Spec => []PhotoLimit
<1>1. Inv => PhotoLimit
  BY DEF Inv, Capacity
<1>2. QED
  BY <1>1, Invariance, PTL

\* A photo that the API lists has its object in the bucket.
THEOREM ActiveHasObjectHolds == Spec => []ActiveHasObject
<1>1. Inv => ActiveHasObject
  BY DEF Inv, Published, ActiveHasObject
<1>2. QED
  BY <1>1, Invariance, PTL

\* A row marked by create_delete_crane_job is never forgotten by the queue.
THEOREM CleanupIsQueuedHolds == Spec => []CleanupIsQueued
<1>1. ASSUME Inv PROVE CleanupIsQueued
  <2>1. ASSUME NEW u \in Uploads, photo[u] = "pending_delete"
        PROVE  \E i \in JobsOf(u) : jobs[i].status # "completed"
    <3>1. PICK i \in JobsOf(u) : TRUE
      BY <1>1, <2>1 DEF Inv, Queue
    <3>2. jobs[i].status # "completed"
      BY <1>1, <2>1, <3>1 DEF Inv, Queue, JobsOf
    <3>3. QED
      BY <3>2
  <2>2. QED
    BY <2>1 DEF CleanupIsQueued
<1>2. QED
  BY <1>1, Invariance, PTL

\* Only the commit of an admin deletion takes an active photo down.
THEOREM OnlyAdminsUnpublishHolds == Spec => OnlyAdminsUnpublish
<1> DEFINE Step == \A u \in Uploads : photo[u] = "active" /\ photo'[u] # "active" =>
                     photo'[u] = "pending_delete" /\ photoLock[u] \in Admins
<1>1. ASSUME Inv, Next PROVE Step
  <2>1. SUFFICES ASSUME NEW v \in Uploads, photo[v] = "active", photo'[v] # "active"
                 PROVE  photo'[v] = "pending_delete" /\ photoLock[v] \in Admins
    BY DEF Step
  <2>2. /\ photo \in [Uploads -> PhotoStatus] /\ jobs \in Seq(Job)
        /\ upc[v] \in {"abandon_read", "done"}
        /\ \A w \in Workers : v \notin Rows(reaping[w])
    BY <1>1, <2>1 DEF Inv, TypeOK, StoreTypeOK, Published, Locks
  <2>3. ASSUME NEW u \in Uploads, RequestStep(u)
        PROVE  FALSE
    BY <2>1, <2>2, <2>3
    DEF RequestStep, RejectInvalid, CraneNotFound, LockCrane, LimitExceeded, BelowLimit,
        InsertPhoto, PreuploadDbError, StoreObject, StoreObjectFails, Finalize,
        FinalizeRace, CommitActive, FinalizeDbError, AbandonRead, AbandonFlush,
        AbandonCommit, AbandonDbError, RequestDies, Activate, Preupload, CreateDeleteJobs, Rows, storeVars
  <2>4. ASSUME NEW w \in Workers, WorkerStep(w)
        PROVE  FALSE
    <3>1. CASE CaptureSuccess(w)
      <4>1. batch[w] # <<>>
        BY <1>1, <3>1 DEF CaptureSuccess, Inv, Queue
      <4>2. photo[jobs[Head(batch[w])].key] \in {"pending_delete", "absent"}
        BY <1>1, <4>1, BatchHead
      <4>3. QED
        BY <2>1, <2>2, <3>1, <4>2 DEF CaptureSuccess
    <3>2. CASE ReapCommit(w)
      BY <2>1, <2>2, <3>2 DEF ReapCommit, CreateDeleteJobs
    <3>3. CASE UNCHANGED photo
      BY <2>1, <3>3
    <3>4. QED
      BY <2>4, <3>1, <3>2, <3>3
      DEF WorkerStep, Claim, ClaimDbError, DeleteObject, DeleteObjectFails, EndBatch,
          LoadJob, CaptureFailure, RecordDbError, ReapSelect, ReapDbError, Signal,
          Exit, Crash, Restart, storeVars
  <2>5. ASSUME NEW a \in Admins, NEW u \in Uploads,
               AdminSelect(a, u) \/ AdminCommit(a, u) \/ AdminFails(a, u)
        PROVE  photo'[v] = "pending_delete" /\ photoLock[v] \in Admins
    <3>1. AdminCommit(a, u)
      BY <2>1, <2>5 DEF AdminSelect, AdminFails
    <3>2. Rows(<<u>>) = {u}
      BY DEF Rows
    <3>3. QED
      BY <2>1, <2>2, <3>1, <3>2 DEF AdminCommit, CreateDeleteJobs
  <2>6. ~Time
    BY <2>1 DEF Time, WindowElapses, BackoffElapses, LeaseExpires
  <2>7. QED
    BY <1>1, <2>3, <2>4, <2>5, <2>6 DEF Next, Request, Worker, Admin
<1>2. ASSUME Inv, [Next]_vars PROVE [Step]_vars
  BY <1>1, <1>2
<1>3. QED
  BY <1>2, Invariance, PTL DEF Spec, OnlyAdminsUnpublish

(***************************************************************************)
(* PhotoSystem implements PhotoCatalog.                                    *)
(***************************************************************************)
\* A step that touches the row and the place of one request only.
LEMMA CatalogOne ==
  ASSUME NEW u \in Uploads,
         \A v \in Uploads \ {u} : photo'[v] = photo[v] /\ (upc'[v] \in Preupload <=> upc[v] \in Preupload)
  PROVE  CatalogState' = [CatalogState EXCEPT ![u] = CatalogState'[u]]
  BY DEF CatalogState

\* A step that touches no row and no request's place.
LEMMA CatalogStutter ==
  ASSUME \A v \in Uploads : photo'[v] = photo[v] /\ (upc'[v] \in Preupload <=> upc[v] \in Preupload)
  PROVE  UNCHANGED CatalogState
  BY DEF CatalogState

\* The moves of the catalog, for one photo.
LEMMA CatalogMove ==
  ASSUME NEW u \in Uploads, CatalogState' = [CatalogState EXCEPT ![u] = CatalogState'[u]],
         \/ CatalogState'[u] = CatalogState[u]
         \/ CatalogState[u] = "new" /\ CatalogState'[u] \in {"pending_upload", "gone"}
         \/ CatalogState[u] = "pending_upload" /\ CatalogState'[u] \in {"active", "pending_delete"}
         \/ CatalogState[u] = "active" /\ CatalogState'[u] = "pending_delete"
         \/ CatalogState[u] = "pending_delete" /\ CatalogState'[u] = "gone"
  PROVE  Catalog!CatalogNext \/ UNCHANGED CatalogState
<1>a. CatalogState = [v \in Uploads |-> CatalogState[v]]
  BY DEF CatalogState
<1> HIDE DEF CatalogState
<1>1. CASE CatalogState'[u] = CatalogState[u]
  BY <1>a, <1>1
<1>2. CASE CatalogState[u] = "pending_upload" /\ CatalogState'[u] = "pending_delete"
  <2>1. CatalogState' = [v \in Uploads |-> IF v \in {u} THEN "pending_delete" ELSE CatalogState[v]]
    BY <1>a, <1>2
  <2>2. Catalog!Discard({u})
    BY <1>2, <2>1 DEF Catalog!Discard
  <2>3. QED
    BY <2>2 DEF Catalog!CatalogNext
<1>3. CASE \/ CatalogState[u] = "new" /\ CatalogState'[u] \in {"pending_upload", "gone"}
           \/ CatalogState[u] = "pending_upload" /\ CatalogState'[u] = "active"
           \/ CatalogState[u] = "active" /\ CatalogState'[u] = "pending_delete"
           \/ CatalogState[u] = "pending_delete" /\ CatalogState'[u] = "gone"
  <2>1. \/ Catalog!Insert(u) \/ Catalog!Refuse(u) \/ Catalog!Publish(u)
        \/ Catalog!Withdraw(u) \/ Catalog!Remove(u)
    BY <1>3 DEF Catalog!Insert, Catalog!Refuse, Catalog!Publish, Catalog!Withdraw,
                Catalog!Remove, Catalog!Move
  <2>2. QED
    BY <2>1 DEF Catalog!CatalogNext
<1>4. QED
  BY <1>1, <1>2, <1>3

\* An upload request moves its own photo only.
LEMMA CatalogRequest ==
  ASSUME Inv, NEW u \in Uploads, RequestStep(u)
  PROVE  Catalog!CatalogNext \/ UNCHANGED CatalogState
<1>a. /\ photo \in [Uploads -> PhotoStatus] /\ upc \in [Uploads -> Open \cup {"done"}]
      /\ upc[u] \in Preupload => photo[u] = "absent"
      /\ upc[u] = "commit" => photo[u] = "pending_upload"
      /\ upc[u] = "abandon_commit" => photo[u] \in {"pending_upload", "pending_delete"}
  <2>1. upc[u] = "abandon_commit" => photo[u] # "absent" /\ photo[u] # "active"
    BY DEF Inv, Locks, Published
  <2>2. QED
    BY <2>1 DEF Inv, TypeOK, StoreTypeOK, UploadTypeOK, Capacity, Locks, PhotoStatus
<1>b. \A v \in Uploads \ {u} : photo'[v] = photo[v] /\ upc'[v] = upc[v]
  BY <1>a DEF RequestStep, RejectInvalid, CraneNotFound, LockCrane, LimitExceeded,
      BelowLimit, InsertPhoto, PreuploadDbError, StoreObject, StoreObjectFails, Finalize,
      FinalizeRace, CommitActive, FinalizeDbError, AbandonRead, AbandonFlush,
      AbandonCommit, AbandonDbError, RequestDies, Activate, CreateDeleteJobs, Rows,
      Goto, Respond, EndAbandon, storeVars
<1>c. CatalogState' = [CatalogState EXCEPT ![u] = CatalogState'[u]]
  BY <1>b, CatalogOne
<1>d. /\ CatalogState[u] = IF photo[u] # "absent" THEN photo[u]
                           ELSE IF upc[u] \in Preupload THEN "new" ELSE "gone"
      /\ CatalogState'[u] = IF photo'[u] # "absent" THEN photo'[u]
                            ELSE IF upc'[u] \in Preupload THEN "new" ELSE "gone"
  BY DEF CatalogState
<1>1. CASE /\ photo'[u] = photo[u]
           /\ upc'[u] \in Preupload => upc[u] \in Preupload
  BY <1>a, <1>c, <1>d, <1>1, CatalogMove
<1>2. CASE photo'[u] = "pending_upload" /\ upc[u] \in Preupload
  BY <1>a, <1>c, <1>d, <1>2, CatalogMove
<1>3. CASE photo'[u] = "active" /\ upc[u] = "commit"
  BY <1>a, <1>c, <1>d, <1>3, CatalogMove
<1>4. CASE photo'[u] = "pending_delete" /\ upc[u] = "abandon_commit"
  BY <1>a, <1>c, <1>d, <1>4, CatalogMove
<1>5. \/ photo'[u] = photo[u] /\ (upc'[u] \in Preupload => upc[u] \in Preupload)
      \/ photo'[u] = "pending_upload" /\ upc[u] \in Preupload
      \/ photo'[u] = "active" /\ upc[u] = "commit"
      \/ photo'[u] = "pending_delete" /\ upc[u] = "abandon_commit"
  <2>1. Rows(<<u>>) = {u}
    BY DEF Rows
  <2>2. CASE AbandonCommit(u)
    BY <1>a, <2>1, <2>2 DEF AbandonCommit, CreateDeleteJobs
  <2>3. CASE \/ InsertPhoto(u) \/ PreuploadDbError(u) \/ CommitActive(u) \/ FinalizeDbError(u)
    BY <1>a, <2>3 DEF InsertPhoto, PreuploadDbError, CommitActive, FinalizeDbError,
       Activate, Goto, Respond, Preupload
  <2>4. CASE \/ RejectInvalid(u) \/ CraneNotFound(u) \/ LockCrane(u) \/ LimitExceeded(u)
             \/ BelowLimit(u) \/ StoreObject(u) \/ StoreObjectFails(u) \/ Finalize(u)
             \/ FinalizeRace(u) \/ AbandonRead(u) \/ AbandonFlush(u) \/ AbandonDbError(u)
             \/ RequestDies(u)
    BY <1>a, <2>4 DEF RejectInvalid, CraneNotFound, LockCrane, LimitExceeded, BelowLimit,
       StoreObject, StoreObjectFails, Finalize, FinalizeRace, AbandonRead, AbandonFlush,
       AbandonDbError, RequestDies, Goto, Respond, EndAbandon, Preupload, storeVars
  <2>5. QED
    BY <2>2, <2>3, <2>4 DEF RequestStep
<1>6. QED
  BY <1>1, <1>2, <1>3, <1>4, <1>5

\* A worker removes the row of a completed job, or discards what it has reaped.
LEMMA CatalogWorker ==
  ASSUME Inv, NEW w \in Workers, WorkerStep(w), UNCHANGED requestVars
  PROVE  Catalog!CatalogNext \/ UNCHANGED CatalogState
<1>a. photo \in [Uploads -> PhotoStatus] /\ upc' = upc
  BY DEF Inv, TypeOK, StoreTypeOK, requestVars
<1>1. CASE CaptureSuccess(w)
  <2> DEFINE k == jobs[Head(batch[w])].key
  <2>1. batch[w] # <<>>
    BY <1>1 DEF CaptureSuccess, Inv, Queue
  <2>2. k \in Uploads /\ photo[k] \in {"pending_delete", "absent"} /\ upc[k] \notin Preupload
    BY <2>1, BatchHead, TypeTables, JobKeys DEF Inv, Queue
  <2>3. photo' = [photo EXCEPT ![k] = "absent"]
    BY <1>1 DEF CaptureSuccess
  <2> HIDE DEF k
  <2>4. CatalogState' = [CatalogState EXCEPT ![k] = CatalogState'[k]]
    BY <1>a, <2>2, <2>3, CatalogOne
  <2>5. CatalogState[k] \in {"pending_delete", "gone"} /\ CatalogState'[k] = "gone"
    BY <1>a, <2>2, <2>3 DEF CatalogState
  <2>6. QED
    BY <2>2, <2>4, <2>5, CatalogMove
<1>2. CASE ReapCommit(w)
  <2>1. \A u \in Rows(reaping[w]) : u \in Uploads /\ photo[u] = "pending_upload"
    BY DEF Inv, TypeOK, WorkerTypeOK, Locks, Rows
  <2>2. \A u \in Rows(reaping[w]) : CatalogState[u] = "pending_upload"
    BY <2>1 DEF CatalogState
  <2>3. CatalogState' = [u \in Uploads |-> IF u \in Rows(reaping[w]) THEN "pending_delete"
                                           ELSE CatalogState[u]]
    BY <1>a, <1>2, <2>1 DEF ReapCommit, CreateDeleteJobs, CatalogState
  <2>4. Catalog!Discard(Rows(reaping[w])) /\ Rows(reaping[w]) \in SUBSET Uploads
    BY <2>1, <2>2, <2>3 DEF Catalog!Discard
  <2>5. QED
    BY <2>4 DEF Catalog!CatalogNext
<1>3. CASE UNCHANGED photo
  BY <1>a, <1>3, CatalogStutter
<1>4. QED
  BY <1>1, <1>2, <1>3
  DEF WorkerStep, Claim, ClaimDbError, DeleteObject, DeleteObjectFails, EndBatch,
      LoadJob, CaptureFailure, RecordDbError, ReapSelect, ReapDbError, Signal,
      Exit, Crash, Restart, storeVars

\* Every step of the system is a step of the catalog or leaves it as it is, and
\* a new system is a new catalog.
THEOREM ImplementsCatalogHolds == Spec => ImplementsCatalog
<1>1. Init => Catalog!CatalogInit
  BY DEF Init, StoreInit, UploadInit, Catalog!CatalogInit, CatalogState, Preupload
<1>2. ASSUME Inv, [Next]_vars PROVE [Catalog!CatalogNext]_CatalogState
  <2>1. CASE Request
    BY <1>2, <2>1, CatalogRequest DEF Request
  <2>2. CASE Worker
    BY <1>2, <2>2, CatalogWorker DEF Worker
  <2>3. CASE Admin
    <3>1. PICK a \in Admins, u \in Uploads :
            AdminSelect(a, u) \/ AdminCommit(a, u) \/ AdminFails(a, u)
      BY <2>3 DEF Admin
    <3>2. UNCHANGED upc
      BY <3>1 DEF AdminSelect, AdminCommit, AdminFails, requestVars
    <3>3. CASE AdminCommit(a, u)
      <4>1. photo \in [Uploads -> PhotoStatus] /\ photo[u] = "active" /\ Rows(<<u>>) = {u}
        BY <1>2, <3>3 DEF Inv, TypeOK, StoreTypeOK, Locks, AdminCommit, Rows
      <4>2. CatalogState' = [CatalogState EXCEPT ![u] = CatalogState'[u]]
        BY <3>2, <3>3, <4>1, CatalogOne DEF AdminCommit, CreateDeleteJobs
      <4>3. CatalogState[u] = "active" /\ CatalogState'[u] = "pending_delete"
        BY <3>3, <4>1 DEF AdminCommit, CreateDeleteJobs, CatalogState
      <4>4. QED
        BY <4>2, <4>3, CatalogMove
    <3>4. CASE AdminSelect(a, u) \/ AdminFails(a, u)
      BY <3>2, <3>4, CatalogStutter DEF AdminSelect, AdminFails
    <3>5. QED
      BY <3>1, <3>3, <3>4
  <2>4. CASE Time
    BY <2>4, CatalogStutter DEF Time, WindowElapses, BackoffElapses, LeaseExpires, requestVars
  <2>5. CASE UNCHANGED vars
    BY <2>5, CatalogStutter DEF vars, storeVars, requestVars
  <2>6. QED
    BY <1>2, <2>1, <2>2, <2>3, <2>4, <2>5 DEF Next
<1>3. QED
  BY <1>1, <1>2, Invariance, PTL DEF Spec, ImplementsCatalog, Catalog!CatalogSpec

(***************************************************************************)
(* How any step changes the queue: it leaves the keys of the jobs alone,   *)
(* or create_delete_crane_job adds jobs for rows that it has locked.       *)
(***************************************************************************)
\* The steps of a worker that create no job.
LEMMA WorkerJobs ==
  ASSUME Inv, NEW w \in Workers, WorkerStep(w), ~ReapCommit(w)
  PROVE  SameJobs
<1>1. TypeOK /\ jobs \in Seq(Job)
  BY DEF Inv, TypeOK, StoreTypeOK
<1>2. CASE Claim(w) \/ ClaimDbError(w)
  <2>1. PICK S : MarkClaimed(S)
    BY <1>2 DEF Claim, ClaimDbError
  <2>2. QED
    BY <1>1, <2>1, TypeTables, ClaimJobs
<1>3. CASE CaptureSuccess(w)
  <2>1. batch[w] # <<>>
    BY <1>3 DEF CaptureSuccess, Inv, Queue
  <2>2. jobs[Head(batch[w])].available \in BOOLEAN
    BY <2>1, BatchHead DEF Job
  <2>3. QED
    BY <1>1, <1>3, <2>2, TypeTables, SaveJobs DEF CaptureSuccess, JobStatus
<1>4. CASE CaptureFailure(w)
  <2>1. PICK s \in {"pending", "failed"} : SaveJob(w, s, FALSE)
    BY <1>4 DEF CaptureFailure
  <2>2. QED
    BY <1>1, <2>1, TypeTables, SaveJobs DEF JobStatus
<1>5. CASE UNCHANGED jobs
  BY <1>1, <1>5 DEF SameJobs
<1>6. QED
  BY <1>2, <1>3, <1>4, <1>5
  DEF WorkerStep, DeleteObject, DeleteObjectFails, EndBatch, LoadJob, RecordDbError,
      ReapSelect, ReapDbError, Signal, Exit, Crash, Restart, storeVars

\* Time changes neither which jobs there are nor what they name.
LEMMA TimeJobs ==
  ASSUME TablesOK, Time
  PROVE  SameJobs
<1>1. jobs \in Seq(Job)
  BY DEF TablesOK
<1>2. CASE UNCHANGED jobs
  BY <1>1, <1>2 DEF SameJobs
<1>3. ASSUME NEW i \in DOMAIN jobs, NEW a \in BOOLEAN, NEW l \in Lease,
             jobs' = [jobs EXCEPT ![i] = [jobs[i] EXCEPT !.available = a, !.lease = l]]
      PROVE  SameJobs
  <2>1. jobs[i] \in Job /\ i \in 1..Len(jobs)
    BY <1>1, LenProperties, ElementOfSeq
  <2>2. [jobs[i] EXCEPT !.available = a, !.lease = l] \in Job
    BY <2>1 DEF Job
  <2>3. jobs' \in Seq(Job)
    BY <1>1, <1>3, <2>1, <2>2, ExceptSeq
  <2>4. QED
    BY <1>1, <1>3, <2>1, <2>3 DEF SameJobs, Job
<1>4. ASSUME NEW i \in DOMAIN jobs
      PROVE  jobs[i] \in Job
  BY <1>1, LenProperties, ElementOfSeq
<1>5. ASSUME NEW i \in DOMAIN jobs, BackoffElapses(i)
      PROVE  SameJobs
  <2>1. /\ jobs[i].lease \in Lease
        /\ [jobs[i] EXCEPT !.available = TRUE]
             = [jobs[i] EXCEPT !.available = TRUE, !.lease = jobs[i].lease]
    BY <1>4 DEF Job
  <2>2. QED
    BY <1>3, <1>5, <2>1 DEF BackoffElapses
<1>6. ASSUME NEW i \in DOMAIN jobs, LeaseExpires(i)
      PROVE  SameJobs
  <2>1. /\ jobs[i].available \in BOOLEAN
        /\ [jobs[i] EXCEPT !.lease = "expired"]
             = [jobs[i] EXCEPT !.available = jobs[i].available, !.lease = "expired"]
    BY <1>4 DEF Job
  <2>2. QED
    BY <1>3, <1>6, <2>1 DEF LeaseExpires, Lease
<1>7. QED
  BY <1>2, <1>5, <1>6 DEF Time, WindowElapses

\* A step leaves the jobs, or adds one for an abandoned upload or a deletion, or some for a reap.
LEMMA JobsStep ==
  ASSUME Inv, [Next]_vars
  PROVE  \/ SameJobs
         \/ \E u \in Uploads :
              /\ CreateDeleteJobs(<<u>>) /\ <<u>> \in Seq(Uploads) /\ Rows(<<u>>) = {u}
              /\ \/ AbandonCommit(u) /\ UNCHANGED workerVars
                 \/ /\ \E a \in Admins : AdminCommit(a, u)
                    /\ photo[u] = "active" /\ UNCHANGED requestVars
         \/ \E w \in Workers :
              /\ ReapCommit(w) /\ reaping[w] \in Seq(Uploads)
              /\ CreateDeleteJobs(reaping[w])
              /\ \A u \in Rows(reaping[w]) : u \in Uploads /\ photo[u] = "pending_upload"
              /\ UNCHANGED requestVars
<1>1. jobs \in Seq(Job) /\ \A w \in Workers : reaping[w] \in Seq(Uploads)
  BY DEF Inv, TypeOK, StoreTypeOK, WorkerTypeOK
<1>2. \A u : u \in Uploads => <<u>> \in Seq(Uploads) /\ Rows(<<u>>) = {u}
  BY DEF Rows
<1>3. CASE UNCHANGED jobs
  BY <1>1, <1>3 DEF SameJobs
<1>4. CASE Request
  <2>1. PICK u \in Uploads : RequestStep(u) /\ UNCHANGED workerVars
    BY <1>4 DEF Request
  <2>2. CASE AbandonCommit(u)
    BY <1>2, <2>1, <2>2 DEF AbandonCommit
  <2>3. CASE ~AbandonCommit(u)
    BY <1>3, <2>1, <2>3
    DEF RequestStep, RejectInvalid, CraneNotFound, LockCrane, LimitExceeded, BelowLimit,
        InsertPhoto, PreuploadDbError, StoreObject, StoreObjectFails, Finalize,
        FinalizeRace, CommitActive, FinalizeDbError, AbandonRead, AbandonFlush,
        AbandonDbError, RequestDies, storeVars
  <2>4. QED
    BY <2>2, <2>3
<1>5. CASE Worker
  <2>1. PICK w \in Workers : WorkerStep(w) /\ UNCHANGED requestVars
    BY <1>5 DEF Worker
  <2>2. CASE ReapCommit(w)
    <3>1. \A u \in Rows(reaping[w]) : u \in Uploads
      <4>1. \A i \in DOMAIN reaping[w] : reaping[w][i] \in Uploads
        BY <1>1, LenProperties, ElementOfSeq
      <4>2. QED
        BY <4>1 DEF Rows
    <3>2. \A u \in Rows(reaping[w]) : photo[u] = "pending_upload"
      BY <3>1 DEF Inv, Locks
    <3>3. QED
      BY <1>1, <2>1, <2>2, <3>1, <3>2 DEF ReapCommit
  <2>3. QED
    BY <2>1, <2>2, WorkerJobs
<1>6. CASE Admin
  <2>1. PICK a \in Admins, u \in Uploads :
          AdminSelect(a, u) \/ AdminCommit(a, u) \/ AdminFails(a, u)
    BY <1>6 DEF Admin
  <2>2. CASE AdminCommit(a, u)
    <3>1. photo[u] = "active"
      BY <2>2 DEF AdminCommit, Inv, Locks
    <3>2. QED
      BY <1>2, <2>2, <3>1 DEF AdminCommit
  <2>3. QED
    BY <1>3, <2>1, <2>2 DEF AdminSelect, AdminFails
<1>7. CASE Time
  BY <1>7, TypeTables, TimeJobs DEF Inv
<1>8. QED
  BY <1>3, <1>4, <1>5, <1>6, <1>7 DEF Next, vars, storeVars

(***************************************************************************)
(* PublishedDeletedOnce.                                                   *)
(***************************************************************************)
\* One job is added for a row that has none.
LEMMA OneJobAdded ==
  ASSUME TypeOK, NEW u \in Uploads, CreateDeleteJobs(<<u>>)
  PROVE  \A i, j \in DOMAIN jobs' : i \notin DOMAIN jobs /\ j \notin DOMAIN jobs => i = j
<1> DEFINE new == [i \in 1..Len(<<u>>) |-> NewJob(<<u>>[i])]
<1>1. jobs \in Seq(Job) /\ jobs' = jobs \o new
  BY DEF TypeOK, StoreTypeOK, CreateDeleteJobs
<1>2. new \in Seq(Job) /\ Len(new) = 1
  <2>1. NewJob(u) \in Job
    BY DEF NewJob, Job, JobStatus, Lease
  <2>2. Len(<<u>>) = 1 /\ <<u>>[1] = u
    OBVIOUS
  <2>3. new = [i \in 1..1 |-> NewJob(u)]
    BY <2>2
  <2>4. QED
    BY <2>1, <2>3
<1> HIDE DEF new
<1>3. jobs' \in Seq(Job) /\ Len(jobs') = Len(jobs) + 1
  <2>1. jobs \o new \in Seq(Job) /\ Len(jobs \o new) = Len(jobs) + Len(new)
    BY <1>1, <1>2, ConcatProperties, Zenon
  <2>2. QED
    BY <1>1, <1>2, <2>1, Zenon
<1>4. QED
  BY <1>1, <1>3

\* A photo its uploader was told of has at most one job, and is past the stages
\* in which anyone but an admin hands it to the worker.
PublishedInv ==
  \A u \in Uploads : reply[u] = "created" =>
    /\ upc[u] = "done"
    /\ photo[u] # "pending_upload"
    /\ \A i, j \in JobsOf(u) : i = j

\* What a request does to the answers and to the rows.
LEMMA PublishedRequest ==
  ASSUME Inv, NEW v \in Uploads, RequestStep(v), NEW u \in Uploads, reply'[u] = "created"
  PROVE  /\ reply[u] = "created" \/ (v = u /\ CommitActive(v))
         /\ reply[u] = "created" /\ upc[u] = "done" => upc'[u] = "done"
         /\ photo'[u] = "pending_upload" => photo[u] = "pending_upload" \/ upc[u] = "insert"
<1>1. /\ reply \in [Uploads -> Reply] /\ upc \in [Uploads -> Open \cup {"done"}]
      /\ photo \in [Uploads -> PhotoStatus]
  BY DEF Inv, TypeOK, StoreTypeOK, UploadTypeOK
<1>2. AbandonCommit(v) => photo'[u] \in {photo[u], "pending_delete"}
  BY DEF AbandonCommit, CreateDeleteJobs
<1>3. upc[v] # "done"
  BY DEF RequestStep, RejectInvalid, CraneNotFound, LockCrane, LimitExceeded, BelowLimit,
         InsertPhoto, PreuploadDbError, StoreObject, StoreObjectFails, Finalize,
         FinalizeRace, CommitActive, FinalizeDbError, AbandonRead, AbandonFlush,
         AbandonCommit, AbandonDbError, RequestDies, Preupload, Open
<1>4. v = u \/ upc'[u] = upc[u]
  BY <1>1
  DEF RequestStep, RejectInvalid, CraneNotFound, LockCrane, LimitExceeded, BelowLimit,
      InsertPhoto, PreuploadDbError, StoreObject, StoreObjectFails, Finalize,
      FinalizeRace, CommitActive, FinalizeDbError, AbandonRead, AbandonFlush,
      AbandonCommit, AbandonDbError, RequestDies, Goto, Respond, EndAbandon
<1>5. reply[u] = "created" \/ (v = u /\ CommitActive(v))
  BY <1>1
  DEF RequestStep, RejectInvalid, CraneNotFound, LockCrane, LimitExceeded, BelowLimit,
      InsertPhoto, PreuploadDbError, StoreObject, StoreObjectFails, Finalize,
      FinalizeRace, CommitActive, FinalizeDbError, AbandonRead, AbandonFlush,
      AbandonCommit, AbandonDbError, RequestDies, Goto, Respond, EndAbandon
<1>6. photo'[u] = "pending_upload" => photo[u] = "pending_upload" \/ upc[u] = "insert"
  BY <1>1, <1>2
  DEF RequestStep, RejectInvalid, CraneNotFound, LockCrane, LimitExceeded, BelowLimit,
      InsertPhoto, PreuploadDbError, StoreObject, StoreObjectFails, Finalize,
      FinalizeRace, CommitActive, FinalizeDbError, AbandonRead, AbandonFlush,
      AbandonDbError, RequestDies, Activate, storeVars
<1>7. QED
  BY <1>3, <1>4, <1>5, <1>6

\* What a reply of 201 promises is kept by every step.
LEMMA PublishedStep ==
  ASSUME Inv, PublishedInv, [Next]_vars
  PROVE  PublishedInv'
<1> SUFFICES ASSUME NEW u \in Uploads, reply'[u] = "created"
             PROVE  /\ upc'[u] = "done"
                    /\ photo'[u] # "pending_upload"
                    /\ \A i, j \in JobsOf(u)' : i = j
  BY DEF PublishedInv
<1>1. TypeOK /\ photo \in [Uploads -> PhotoStatus] /\ jobs \in Seq(Job)
      /\ upc \in [Uploads -> Open \cup {"done"}]
  BY DEF Inv, TypeOK, StoreTypeOK, UploadTypeOK
<1>2. photo[u] \in {"active", "pending_upload"} => JobsOf(u) = {}
  BY DEF Inv, Queue, JobsOf
<1>3. CASE \E v \in Uploads : CommitActive(v) /\ v = u
  <2>1. upc[u] = "commit" /\ photo[u] = "pending_upload" /\ UNCHANGED jobs
    BY <1>3 DEF CommitActive, Inv, Locks
  <2>2. upc'[u] = "done" /\ photo'[u] = "active"
    BY <1>1, <1>3 DEF CommitActive, Respond, Activate
  <2>3. JobsOf(u)' = {}
    BY <1>2, <2>1 DEF JobsOf
  <2>4. QED
    BY <2>2, <2>3
<1>4. CASE ~\E v \in Uploads : CommitActive(v) /\ v = u
  <2>1. /\ reply[u] = "created"
        /\ upc[u] = "done" => upc'[u] = "done"
        /\ photo'[u] = "pending_upload" => photo[u] = "pending_upload" \/ upc[u] = "insert"
    <3>1. CASE Request
      BY <1>4, <3>1, PublishedRequest DEF Request
    <3>2. CASE Worker
      <4>1. PICK w \in Workers : WorkerStep(w) /\ UNCHANGED requestVars
        BY <3>2 DEF Worker
      <4>2. photo'[u] = "pending_upload" => photo[u] = "pending_upload"
        BY <1>1, <4>1
        DEF WorkerStep, Claim, ClaimDbError, DeleteObject, DeleteObjectFails, EndBatch,
            LoadJob, CaptureSuccess, CaptureFailure, RecordDbError, ReapSelect, ReapCommit,
            ReapDbError, Signal, Exit, Crash, Restart, storeVars, CreateDeleteJobs
      <4>3. QED
        BY <4>1, <4>2 DEF requestVars
    <3>3. CASE Admin
      BY <1>1, <3>3 DEF Admin, AdminSelect, AdminCommit, AdminFails, CreateDeleteJobs, requestVars
    <3>4. CASE Time
      BY <3>4 DEF Time, WindowElapses, BackoffElapses, LeaseExpires, requestVars
    <3>5. CASE UNCHANGED vars
      BY <3>5 DEF vars, storeVars, requestVars
    <3>6. QED
      BY <3>1, <3>2, <3>3, <3>4, <3>5 DEF Next
  <2>2. /\ upc[u] = "done" /\ photo[u] # "pending_upload"
        /\ \A i, j \in JobsOf(u) : i = j
    BY <2>1 DEF PublishedInv
  <2>3. \A i, j \in JobsOf(u)' : i = j
    <3>1. CASE SameJobs
      BY <2>2, <3>1 DEF SameJobs, JobsOf
    <3>2. ASSUME NEW us \in Seq(Uploads), CreateDeleteJobs(us), u \notin Rows(us)
          PROVE  JobsOf(u)' = JobsOf(u)
      BY <1>1, <3>2, TypeTables, CreateJobs DEF JobsOf
    <3>3. ASSUME <<u>> \in Seq(Uploads), Rows(<<u>>) = {u}, CreateDeleteJobs(<<u>>),
                 photo[u] = "active"
          PROVE  \A i, j \in JobsOf(u)' : i = j
      <4>1. JobsOf(u) = {}
        BY <1>2, <3>3
      <4>2. \A i \in DOMAIN jobs : jobs'[i] = jobs[i]
        BY <1>1, <3>3, TypeTables, CreateJobs
      <4>3. QED
        BY <1>1, <3>3, <4>1, <4>2, OneJobAdded DEF JobsOf
    <3>4. ASSUME NEW v \in Uploads, AbandonCommit(v)
          PROVE  v # u
      BY <2>2, <3>4 DEF AbandonCommit
    <3>5. QED
      BY <2>2, <3>1, <3>2, <3>3, <3>4, JobsStep
  <2>4. QED
    BY <2>1, <2>2, <2>3
<1>5. QED
  BY <1>3, <1>4

\* delete_crane_photo, with any number of admins and workers: a photo its
\* uploader was told of is handed to the worker at most once.
THEOREM PublishedDeletedOnceHolds == Spec => []PublishedDeletedOnce
<1>1. Init => PublishedInv
  BY DEF Init, UploadInit, PublishedInv
<1>2. Inv /\ PublishedInv /\ [Next]_vars => PublishedInv'
  BY PublishedStep
<1>3. PublishedInv => PublishedDeletedOnce
  <2>1. SUFFICES ASSUME PublishedInv, NEW u \in Uploads, reply[u] = "created"
                 PROVE  Cardinality(JobsOf(u)) <= 1
    BY DEF PublishedDeletedOnce
  <2>2. CASE JobsOf(u) = {}
    BY <2>2, FS_EmptySet
  <2>3. ASSUME NEW i \in JobsOf(u)
        PROVE  Cardinality(JobsOf(u)) <= 1
    <3>1. JobsOf(u) = {i}
      BY <2>1, <2>3 DEF PublishedInv
    <3>2. QED
      BY <3>1, FS_Singleton
  <2>4. QED
    BY <2>2, <2>3
<1>4. QED
  BY <1>1, <1>2, <1>3, Invariance, PTL DEF Spec

(***************************************************************************)
(* NoLeakedObject.                                                         *)
(***************************************************************************)
\* Of a request that ends within the window: its row is overdue only once it
\* has ended, so the row is there while it stores its object, and an object
\* without a row is gone.
Timely(u) ==
  /\ u \in overdue => upc[u] = "done"
  /\ upc[u] = "store" => photo[u] = "pending_upload"
  /\ photo[u] = "absent" => u \notin objects

\* What a worker knows of the rows its reaper holds, and of the object of a job
\* whose success it is about to record.
Witnessed(w) ==
  /\ Rows(reaping[w]) \subseteq overdue
  /\ wpc[w] \in {"load", "save"} /\ ~err[w] =>
       jobs[Head(batch[w])].key \notin objects \ SlowUploads

LeakInv ==
  /\ \A u \in Uploads \ SlowUploads : Timely(u)
  /\ \A w \in Workers : Witnessed(w)

\* No step of an upload leaves an object nobody accounts for.
LEMMA LeakRequest ==
  ASSUME Inv, LeakInv, NEW v \in Uploads, RequestStep(v), UNCHANGED workerVars
  PROVE  LeakInv'
<1>1. /\ photo \in [Uploads -> PhotoStatus] /\ upc \in [Uploads -> Open \cup {"done"}]
      /\ overdue \subseteq Uploads /\ objects \subseteq Uploads
      /\ UNCHANGED <<reaping, wpc, err, batch>>
  BY DEF Inv, TypeOK, StoreTypeOK, UploadTypeOK, workerVars
<1>2. Locks /\ Published /\ Capacity /\ Queue
  BY DEF Inv
<1>3. CASE AbandonCommit(v)
  <2>1. Rows(<<v>>) = {v}
    BY DEF Rows
  <2>2. /\ upc[v] = "abandon_commit" /\ upc'[v] = "done"
        /\ \A u \in Uploads : u # v => upc'[u] = upc[u] /\ photo'[u] = photo[u]
        /\ photo'[v] = "pending_delete" /\ overdue' = overdue \ {v} /\ objects' = objects
    BY <1>1, <1>3, <2>1 DEF AbandonCommit, CreateDeleteJobs, EndAbandon, Respond
  <2>3. ASSUME NEW u \in Uploads \ SlowUploads
        PROVE  Timely(u)'
    BY <2>2 DEF LeakInv, Timely
  <2>4. ASSUME NEW w \in Workers
        PROVE  Witnessed(w)'
    <3>1. v \notin Rows(reaping[w])
      BY <1>2, <2>2, ActorAssumption DEF Locks
    <3>2. wpc[w] \in {"load", "save"} => jobs'[Head(batch[w])] = jobs[Head(batch[w])]
      <4>1. SUFFICES ASSUME wpc[w] \in {"load", "save"}
                     PROVE  jobs'[Head(batch[w])] = jobs[Head(batch[w])]
        OBVIOUS
      <4>2. Head(batch[w]) \in DOMAIN jobs
        BY <1>2, <4>1, BatchHead DEF Queue
      <4>3. CreateDeleteJobs(<<v>>) /\ <<v>> \in Seq(Uploads) /\ TypeOK
        BY <1>3 DEF AbandonCommit, Inv
      <4>4. QED
        BY <4>2, <4>3, TypeTables, CreateJobs
    <3>3. QED
      BY <1>1, <2>2, <3>1, <3>2 DEF LeakInv, Witnessed
  <2>5. QED
    BY <2>3, <2>4 DEF LeakInv
<1>4. CASE ~AbandonCommit(v)
  <2>1. jobs' = jobs
    BY <1>4
    DEF RequestStep, RejectInvalid, CraneNotFound, LockCrane, LimitExceeded, BelowLimit,
        InsertPhoto, PreuploadDbError, StoreObject, StoreObjectFails, Finalize,
        FinalizeRace, CommitActive, FinalizeDbError, AbandonRead, AbandonFlush,
        AbandonDbError, RequestDies, storeVars
  <2>2. /\ \A u \in Uploads : u # v => upc'[u] = upc[u] /\ photo'[u] = photo[u]
        /\ objects \subseteq objects' /\ objects' \subseteq objects \cup {v}
        /\ v \in objects' /\ v \notin objects => upc[v] = "store"
        /\ overdue' \subseteq overdue /\ overdue \subseteq overdue' \cup {v}
        /\ v \in overdue /\ v \notin overdue' => upc[v] = "commit"
    BY <1>1, <1>4
    DEF RequestStep, RejectInvalid, CraneNotFound, LockCrane, LimitExceeded, BelowLimit,
        InsertPhoto, PreuploadDbError, StoreObject, StoreObjectFails, Finalize,
        FinalizeRace, CommitActive, FinalizeDbError, AbandonRead, AbandonFlush,
        AbandonDbError, RequestDies, Goto, Respond, EndAbandon, Activate, storeVars
  <2>3. /\ upc[v] # "done"
        /\ photo'[v] = "absent" => photo[v] = "absent"
        /\ upc'[v] = "store" => photo'[v] = "pending_upload"
    BY <1>1, <1>4
    DEF RequestStep, RejectInvalid, CraneNotFound, LockCrane, LimitExceeded, BelowLimit,
        InsertPhoto, PreuploadDbError, StoreObject, StoreObjectFails, Finalize,
        FinalizeRace, CommitActive, FinalizeDbError, AbandonRead, AbandonFlush,
        AbandonDbError, RequestDies, Goto, Respond, EndAbandon, Activate, storeVars, Open, Preupload
  <2>4. ASSUME NEW u \in Uploads \ SlowUploads
        PROVE  Timely(u)'
    BY <2>2, <2>3 DEF LeakInv, Timely
  <2>5. ASSUME NEW w \in Workers
        PROVE  Witnessed(w)'
    <3>1. v \in overdue /\ v \notin overdue' => v \notin Rows(reaping[w])
      BY <1>2, <2>2, ActorAssumption DEF Locks
    <3>2. Rows(reaping'[w]) \subseteq overdue'
      BY <1>1, <2>2, <3>1 DEF LeakInv, Witnessed
    <3>3. ASSUME wpc[w] \in {"load", "save"}, ~err[w]
          PROVE  jobs[Head(batch[w])].key \notin objects' \ SlowUploads
      <4>1. photo[jobs[Head(batch[w])].key] \in {"pending_delete", "absent"}
        BY <1>2, <3>3, BatchHead DEF Queue
      <4>2. jobs[Head(batch[w])].key = v /\ v \notin SlowUploads => upc[v] # "store"
        BY <4>1 DEF LeakInv, Timely
      <4>3. jobs[Head(batch[w])].key \notin objects \ SlowUploads
        BY <3>3 DEF LeakInv, Witnessed
      <4>4. QED
        BY <2>2, <4>2, <4>3
    <3>4. QED
      BY <1>1, <2>1, <3>2, <3>3 DEF Witnessed
  <2>6. QED
    BY <2>4, <2>5 DEF LeakInv
<1>5. QED
  BY <1>3, <1>4

\* No step of the worker leaves an object nobody accounts for.
LEMMA LeakWorker ==
  ASSUME Inv, LeakInv, NEW w \in Workers, WorkerStep(w), UNCHANGED requestVars
  PROVE  LeakInv'
<1> USE ActorAssumption
<1>1. /\ photo \in [Uploads -> PhotoStatus] /\ jobs \in Seq(Job)
      /\ overdue \subseteq Uploads /\ objects \subseteq Uploads /\ UNCHANGED upc
      /\ wpc \in [Workers -> Points] /\ batch \in [Workers -> Seq(Nat)]
      /\ err \in [Workers -> BOOLEAN] /\ reaping \in [Workers -> Seq(Uploads)]
  BY DEF Inv, TypeOK, StoreTypeOK, WorkerTypeOK, requestVars
<1>2. Locks /\ Published /\ Capacity /\ Queue
  BY DEF Inv
<1>3. /\ objects' \subseteq objects
      /\ \A v \in Workers : v # w => /\ reaping'[v] = reaping[v] /\ wpc'[v] = wpc[v]
                                     /\ err'[v] = err[v] /\ batch'[v] = batch[v]
  BY <1>1
  DEF WorkerStep, Claim, ClaimDbError, DeleteObject, DeleteObjectFails, EndBatch,
      LoadJob, CaptureSuccess, CaptureFailure, RecordDbError, ReapSelect, ReapCommit,
      ReapDbError, Signal, Exit, Crash, Restart, storeVars, WGoto, NextJob, EndReap
\* The keys of the jobs in the batches stay.
<1>4. \A v \in Workers : wpc[v] \in {"load", "save"} =>
        jobs'[Head(batch[v])].key = jobs[Head(batch[v])].key
  <2>1. SUFFICES ASSUME NEW v \in Workers, wpc[v] \in {"load", "save"}
                 PROVE  jobs'[Head(batch[v])].key = jobs[Head(batch[v])].key
    OBVIOUS
  <2>2. Head(batch[v]) \in DOMAIN jobs
    BY <1>2, <2>1, BatchHead DEF Queue
  <2>3. CASE ReapCommit(w)
    <3>1. TypeOK /\ reaping[w] \in Seq(Uploads) /\ CreateDeleteJobs(reaping[w])
      BY <1>1, <2>3 DEF ReapCommit, Inv
    <3>2. QED
      BY <2>2, <3>1, TypeTables, CreateJobs
  <2>4. QED
    BY <2>2, <2>3, WorkerJobs DEF SameJobs
<1>5. CASE ReapCommit(w)
  <2>1. /\ wpc'[w] = "claim" /\ reaping'[w] = <<>> /\ objects' = objects
        /\ overdue' = overdue \ Rows(reaping[w])
        /\ \A u \in Uploads : photo'[u] = IF u \in Rows(reaping[w]) THEN "pending_delete" ELSE photo[u]
    BY <1>1, <1>5 DEF ReapCommit, EndReap, WGoto, CreateDeleteJobs
  <2>2. \A u \in Rows(reaping[w]) : u \in overdue
    BY DEF LeakInv, Witnessed
  <2>3. \A u \in Uploads \ SlowUploads : Timely(u)'
    BY <1>1, <2>1, <2>2 DEF LeakInv, Timely
  <2>4. ASSUME NEW v \in Workers
        PROVE  Witnessed(v)'
    <3>1. CASE v = w
      BY <2>1, <3>1 DEF Witnessed, Rows
    <3>2. CASE v # w
      <4>1. Rows(reaping[v]) \cap Rows(reaping[w]) = {}
        <5>1. \A u \in Rows(reaping[v]) : u \in Uploads
          BY <1>1 DEF LeakInv, Witnessed
        <5>2. QED
          BY <1>2, <3>2, <5>1 DEF Locks
      <4>2. QED
        BY <1>3, <1>4, <2>1, <3>2, <4>1 DEF LeakInv, Witnessed
    <3>3. QED
      BY <3>1, <3>2
  <2>5. QED
    BY <2>3, <2>4 DEF LeakInv
<1>6. CASE CaptureSuccess(w)
  <2> DEFINE k == jobs[Head(batch[w])].key
  <2>1. /\ wpc[w] = "save" /\ ~err[w] /\ wpc'[w] = "delete" /\ reaping' = reaping
        /\ overdue' = overdue \ {k} /\ objects' = objects
        /\ photo' = [photo EXCEPT ![k] = "absent"]
    BY <1>1, <1>6 DEF CaptureSuccess, NextJob, WGoto
  <2>2. k \in Uploads /\ photo[k] \in {"pending_delete", "absent"}
    BY <1>2, <2>1, BatchHead DEF Queue
  <2>3. k \notin objects \ SlowUploads
    BY <2>1 DEF LeakInv, Witnessed
  <2> HIDE DEF k
  <2>4. \A u \in Uploads \ SlowUploads : Timely(u)'
    BY <1>1, <2>1, <2>2, <2>3 DEF LeakInv, Timely
  <2>5. ASSUME NEW v \in Workers
        PROVE  Witnessed(v)'
    <3>1. k \notin Rows(reaping[v])
      BY <1>2, <2>2 DEF Locks
    <3>2. Rows(reaping'[v]) \subseteq overdue'
      BY <2>1, <3>1 DEF LeakInv, Witnessed
    <3>3. QED
      BY <1>3, <1>4, <2>1, <3>2 DEF LeakInv, Witnessed
  <2>6. QED
    BY <2>4, <2>5 DEF LeakInv
<1>7. CASE ~ReapCommit(w) /\ ~CaptureSuccess(w)
  <2>1. UNCHANGED <<photo, overdue>>
    BY <1>7
    DEF WorkerStep, Claim, ClaimDbError, DeleteObject, DeleteObjectFails, EndBatch,
        LoadJob, CaptureFailure, RecordDbError, ReapSelect,
        ReapDbError, Signal, Exit, Crash, Restart, storeVars
  <2>2. \A u \in Uploads \ SlowUploads : Timely(u)'
    BY <1>1, <1>3, <2>1 DEF LeakInv, Timely
  <2>3. Rows(reaping'[w]) \subseteq overdue
    <3>1. CASE ReapSelect(w)
      <4>1. PICK sel \in Selections(Reapable) : reaping' = [reaping EXCEPT ![w] = sel]
        BY <3>1 DEF ReapSelect
      <4>2. Rows(sel) \subseteq Reapable /\ reaping'[w] = sel
        BY <1>1, <4>1, SelectionType
      <4>3. QED
        BY <4>2 DEF Reapable
    <3>2. CASE reaping'[w] \in {reaping[w], <<>>}
      BY <3>2 DEF LeakInv, Witnessed, Rows
    <3>3. QED
      BY <1>1, <1>7, <3>1, <3>2
      DEF WorkerStep, Claim, ClaimDbError, DeleteObject, DeleteObjectFails, EndBatch,
          LoadJob, CaptureFailure, RecordDbError, ReapDbError, Signal, Exit, Crash, Restart,
          EndReap, NextJob
  <2>4. ASSUME wpc'[w] \in {"load", "save"}, ~err'[w]
        PROVE  jobs'[Head(batch'[w])].key \notin objects' \ SlowUploads
    <3>1. CASE DeleteObject(w)
      BY <3>1 DEF DeleteObject
    <3>2. CASE wpc[w] \in {"load", "save"} /\ ~err[w] /\ batch'[w] = batch[w]
      BY <1>3, <1>4, <3>2 DEF LeakInv, Witnessed
    <3>3. QED
      BY <1>1, <1>7, <2>4, <3>1, <3>2
      DEF WorkerStep, Claim, ClaimDbError, DeleteObjectFails, EndBatch,
          LoadJob, CaptureFailure, RecordDbError, ReapSelect, ReapDbError, Signal, Exit, Crash,
          Restart, NextJob, WGoto
  <2>5. ASSUME NEW v \in Workers
        PROVE  Witnessed(v)'
    <3>1. CASE v = w
      BY <2>1, <2>3, <2>4, <3>1 DEF Witnessed
    <3>2. CASE v # w
      BY <1>3, <1>4, <2>1, <3>2 DEF LeakInv, Witnessed
    <3>3. QED
      BY <3>1, <3>2
  <2>6. QED
    BY <2>2, <2>5 DEF LeakInv
<1>8. QED
  BY <1>5, <1>6, <1>7

\* Neither an administrator nor time leaves an object nobody accounts for.
LEMMA LeakAdminTime ==
  ASSUME Inv, LeakInv, Admin \/ Time \/ UNCHANGED vars
  PROVE  LeakInv'
<1>1. /\ photo \in [Uploads -> PhotoStatus] /\ jobs \in Seq(Job) /\ TypeOK
      /\ overdue \subseteq Uploads /\ objects \subseteq Uploads
      /\ UNCHANGED <<upc, objects, reaping, wpc, err, batch>>
  BY DEF Inv, TypeOK, StoreTypeOK, vars, storeVars, requestVars, workerVars, Admin, Time,
         AdminSelect, AdminCommit, AdminFails, WindowElapses, BackoffElapses, LeaseExpires
<1>2. Locks /\ Queue
  BY DEF Inv
<1>3. ASSUME NEW a \in Admins, NEW u \in Uploads, AdminCommit(a, u)
      PROVE  LeakInv'
  <2>1. Rows(<<u>>) = {u} /\ <<u>> \in Seq(Uploads)
    BY DEF Rows
  <2>2. /\ photo[u] = "active" /\ photo'[u] = "pending_delete" /\ overdue' = overdue \ {u}
        /\ \A v \in Uploads : v # u => photo'[v] = photo[v]
    BY <1>1, <1>2, <1>3, <2>1 DEF AdminCommit, CreateDeleteJobs, Locks
  <2>3. \A v \in Uploads \ SlowUploads : Timely(v)'
    BY <1>1, <2>2 DEF LeakInv, Timely
  <2>4. ASSUME NEW w \in Workers
        PROVE  Witnessed(w)'
    <3>1. u \notin Rows(reaping[w])
      BY <1>2, <2>2 DEF Locks
    <3>2. wpc[w] \in {"load", "save"} => jobs'[Head(batch[w])] = jobs[Head(batch[w])]
      <4>1. SUFFICES ASSUME wpc[w] \in {"load", "save"}
                     PROVE  jobs'[Head(batch[w])] = jobs[Head(batch[w])]
        OBVIOUS
      <4>2. Head(batch[w]) \in DOMAIN jobs
        BY <1>2, <4>1, BatchHead DEF Queue
      <4>3. CreateDeleteJobs(<<u>>)
        BY <1>3 DEF AdminCommit
      <4>4. QED
        BY <1>1, <2>1, <4>2, <4>3, TypeTables, CreateJobs
    <3>3. QED
      BY <1>1, <2>2, <3>1, <3>2 DEF LeakInv, Witnessed
  <2>5. QED
    BY <2>3, <2>4 DEF LeakInv
<1>4. ASSUME SameJobs, UNCHANGED photo, overdue \subseteq overdue',
             \A u \in overdue' \ SlowUploads : u \in overdue \/ upc[u] = "done"
      PROVE  LeakInv'
  <2>1. \A v \in Uploads \ SlowUploads : Timely(v)'
    BY <1>1, <1>4 DEF LeakInv, Timely
  <2>2. ASSUME NEW w \in Workers
        PROVE  Witnessed(w)'
    <3>1. wpc[w] \in {"load", "save"} =>
            jobs'[Head(batch[w])].key = jobs[Head(batch[w])].key
      BY <1>2, <1>4, BatchHead DEF Queue, SameJobs
    <3>2. QED
      BY <1>1, <1>4, <3>1 DEF LeakInv, Witnessed
  <2>3. QED
    BY <2>1, <2>2 DEF LeakInv
<1>5. CASE Time
  BY <1>1, <1>4, <1>5, TypeTables, TimeJobs DEF Time, WindowElapses, BackoffElapses, LeaseExpires
<1>6. CASE UNCHANGED vars
  BY <1>1, <1>4, <1>6 DEF SameJobs, vars, storeVars
<1>7. CASE Admin
  <2>1. SameJobs \/ \E a \in Admins, u \in Uploads : AdminCommit(a, u)
    BY <1>1, <1>7 DEF Admin, AdminSelect, AdminFails, SameJobs
  <2>2. CASE \A a \in Admins, u \in Uploads : ~AdminCommit(a, u)
    BY <1>4, <1>7, <2>1, <2>2 DEF Admin, AdminSelect, AdminFails
  <2>3. QED
    BY <1>3, <2>2
<1>8. QED
  BY <1>5, <1>6, <1>7

\* An upload that ends within PENDING_UPLOAD_WINDOW leaves no object without a
\* row, whatever other uploads, workers, errors and crashes do.
THEOREM NoLeakedObjectHolds == Spec => []NoLeakedObject
<1>1. Init => LeakInv
  BY DEF Init, StoreInit, UploadInit, WorkerInit, LeakInv, Timely, Witnessed, Rows
<1>2. Inv /\ LeakInv /\ [Next]_vars => LeakInv'
  BY LeakRequest, LeakWorker, LeakAdminTime DEF Next, Request, Worker
<1>3. Inv /\ LeakInv => NoLeakedObject
  BY DEF LeakInv, Timely, NoLeakedObject, Inv, TypeOK, StoreTypeOK
<1>4. QED
  BY <1>1, <1>2, <1>3, Invariance, PTL DEF Spec

(***************************************************************************)
(* RetryBudget, CompletedIsFinal and ProcessingHasLease for the one worker *)
(* that the deployment runs.                                               *)
(***************************************************************************)
OneWorker == \A v, w \in Workers : v = w

\* A job has a lease while it is being processed, and is tried again only while
\* it has attempts left.
Retriable(job) ==
  /\ job.status = "processing" <=> job.lease # "none"
  /\ job.status = "pending" => job.attempts < MaxAttempts

\* The worker has each job of its batch once, and nobody else records it: what
\* it read of a job is still so when it writes it.
Exclusive(w) ==
  /\ wpc[w] \notin {"delete", "load", "save"} => batch[w] = <<>>
  /\ \A k, l \in DOMAIN batch[w] : batch[w][k] = batch[w][l] => k = l
  /\ \A k \in DOMAIN batch[w] : jobs[batch[w][k]].status = "processing"
  /\ wpc[w] = "save" => /\ loaded[w].status = "processing" /\ loaded[w].lease # "none"
                        /\ loaded[w].attempts = jobs[Head(batch[w])].attempts

ClaimInv ==
  /\ \A i \in DOMAIN jobs : Retriable(jobs[i])
  /\ \A w \in Workers : Exclusive(w)

\* A job not in the batch before, or still processing, with its attempts, keeps
\* what the worker knows.
LEMMA ExclusiveKept ==
  ASSUME Inv, ClaimInv, NEW w \in Workers,
         UNCHANGED <<wpc[w], batch[w], loaded[w]>>,
         \A i \in DOMAIN jobs : /\ jobs'[i].attempts = jobs[i].attempts
                                /\ jobs'[i].status = jobs[i].status
  PROVE  Exclusive(w)'
<1>1. \A k \in DOMAIN batch[w] : batch[w][k] \in DOMAIN jobs
  BY DEF Inv, Queue
<1>2. wpc[w] = "save" => Head(batch[w]) \in DOMAIN jobs
  BY BatchHead DEF Inv, Queue
<1>3. QED
  BY <1>1, <1>2 DEF ClaimInv, Exclusive

\* create_delete_crane_job: the jobs there were stay as they are, the new ones
\* have no attempts behind them.
LEMMA NewJobsRetriable ==
  ASSUME Inv, ClaimInv, NEW us \in Seq(Uploads), CreateDeleteJobs(us)
  PROVE  /\ \A i \in DOMAIN jobs' : Retriable(jobs'[i])
         /\ \A i \in DOMAIN jobs : jobs'[i] = jobs[i]
<1>1. TypeOK
  BY DEF Inv
<1>2. ASSUME NEW i \in DOMAIN jobs', i \notin DOMAIN jobs
      PROVE  jobs'[i] = NewJob(jobs'[i].key)
  BY <1>1, <1>2, TypeTables, CreateJobs
<1>3. \A u : Retriable(NewJob(u))
  BY AttemptAssumption DEF Retriable, NewJob
<1>4. \A i \in DOMAIN jobs : jobs'[i] = jobs[i]
  BY <1>1, TypeTables, CreateJobs
<1>5. QED
  BY <1>2, <1>3, <1>4 DEF ClaimInv

\* What follows the first job of a batch.
LEMMA BatchTail ==
  ASSUME Inv, NEW w \in Workers, batch[w] # <<>>, Exclusive(w)
  PROVE  /\ Head(batch[w]) \in DOMAIN jobs
         /\ jobs[Head(batch[w])].status = "processing"
         /\ \A k, l \in DOMAIN Tail(batch[w]) : Tail(batch[w])[k] = Tail(batch[w])[l] => k = l
         /\ \A k \in DOMAIN Tail(batch[w]) : /\ Tail(batch[w])[k] # Head(batch[w])
                                             /\ Tail(batch[w])[k] \in DOMAIN jobs
                                             /\ jobs[Tail(batch[w])[k]].status = "processing"
<1>1. batch[w] \in Seq(Nat)
  BY DEF Inv, TypeOK, WorkerTypeOK
<1>2. Len(batch[w]) \in Nat \ {0} /\ DOMAIN batch[w] = 1..Len(batch[w])
  BY <1>1, EmptySeq, LenProperties
<1>3. Head(batch[w]) = batch[w][1] /\ 1 \in DOMAIN batch[w]
  BY <1>1, <1>2
<1>4. \A k \in DOMAIN Tail(batch[w]) :
        k \in Nat /\ k # 0 /\ k + 1 \in DOMAIN batch[w] /\ Tail(batch[w])[k] = batch[w][k + 1]
  BY <1>1, <1>2
<1>5. \A k \in DOMAIN batch[w] : batch[w][k] \in DOMAIN jobs
  BY DEF Inv, Queue
<1>6. \A k \in DOMAIN Tail(batch[w]) : k + 1 # 1
  BY <1>4
<1>7. \A k, l \in DOMAIN Tail(batch[w]) : k + 1 = l + 1 => k = l
  BY <1>4
<1>8. QED
  BY <1>3, <1>4, <1>5, <1>6, <1>7 DEF Exclusive

\* The worker keeps what it knows of the jobs it claimed, and leaves completed jobs alone.
LEMMA ClaimWorker ==
  ASSUME Inv, ClaimInv, OneWorker, NEW w \in Workers, WorkerStep(w)
  PROVE  /\ ClaimInv'
         /\ \A i \in DOMAIN jobs : jobs[i].status = "completed" => jobs'[i] = jobs[i]
<1> DEFINE Final == \A i \in DOMAIN jobs : jobs[i].status = "completed" => jobs'[i] = jobs[i]
<1>1. /\ jobs \in Seq(Job) /\ wpc \in [Workers -> Points] /\ batch \in [Workers -> Seq(Nat)]
      /\ loaded \in [Workers -> [status : JobStatus, attempts : Nat, lease : Lease]]
      /\ reaping \in [Workers -> Seq(Uploads)] /\ err \in [Workers -> BOOLEAN]
      /\ \A i \in DOMAIN jobs : jobs[i] \in Job
  BY TypeTables, JobKeys DEF Inv, TypeOK, StoreTypeOK, WorkerTypeOK
<1>2. Workers = {w}
  BY DEF OneWorker
<1>3. Queue /\ Exclusive(w) /\ \A i \in DOMAIN jobs : Retriable(jobs[i])
  BY DEF Inv, ClaimInv
<1>4. ASSUME NEW S, S \subseteq Claimable, MarkClaimed(S)
      PROVE  /\ DOMAIN jobs' = DOMAIN jobs
             /\ \A i \in DOMAIN jobs : Retriable(jobs'[i])
             /\ \A i \in S : jobs'[i].status = "processing"
             /\ Final
  <2>1. \A i \in DOMAIN jobs : jobs'[i] = IF i \in S THEN Claimed(jobs[i]) ELSE jobs[i]
    BY <1>4 DEF MarkClaimed
  <2>2. \A i \in DOMAIN jobs : Retriable(Claimed(jobs[i])) /\ Claimed(jobs[i]).status = "processing"
    BY DEF Retriable, Claimed
  <2>3. \A i \in S : i \in DOMAIN jobs /\ jobs[i].status # "completed"
    BY <1>4 DEF Claimable
  <2>4. QED
    BY <1>3, <1>4, <2>1, <2>2, <2>3 DEF MarkClaimed
<1>5. CASE Claim(w)
  <2>1. PICK sel \in Selections(Claimable) :
          MarkClaimed(Rows(sel)) /\ batch' = [batch EXCEPT ![w] = sel]
    BY <1>5 DEF Claim
  <2>2. Rows(sel) \subseteq Claimable
    BY SelectionType
  <2>3. batch'[w] = sel /\ wpc'[w] = "delete"
    BY <1>1, <1>5, <2>1 DEF Claim, WGoto
  <2>4. \A k, l \in DOMAIN sel : sel[k] = sel[l] => k = l
    BY DEF Selections
  <2>5. \A k \in DOMAIN sel : sel[k] \in Rows(sel)
    BY DEF Rows
  <2>6. Exclusive(w)'
    BY <1>4, <2>1, <2>2, <2>3, <2>4, <2>5 DEF Exclusive
  <2>7. QED
    BY <1>2, <1>4, <2>1, <2>2, <2>6 DEF ClaimInv
<1>6. CASE ClaimDbError(w)
  <2>1. PICK sel \in {<<>>} \cup Selections(Claimable) : MarkClaimed(Rows(sel))
    BY <1>6 DEF ClaimDbError
  <2>2. Rows(sel) \subseteq Claimable
    BY SelectionType DEF Rows
  <2>3. batch'[w] = <<>> /\ wpc'[w] = "reap"
    BY <1>1, <1>3, <1>6 DEF ClaimDbError, WGoto, Exclusive
  <2>4. Exclusive(w)'
    BY <2>3 DEF Exclusive
  <2>5. QED
    BY <1>2, <1>4, <2>1, <2>2, <2>4 DEF ClaimInv
<1>7. ASSUME wpc[w] = "save", NEW s \in {"completed", "pending", "failed"}, NEW a \in BOOLEAN,
             s = "pending" => loaded[w].attempts < MaxAttempts,
             SaveJob(w, s, a), NextJob(w)
      PROVE  ClaimInv' /\ Final
  <2> DEFINE i == Head(batch[w])
  <2>1. /\ i \in DOMAIN jobs /\ jobs[i].status = "processing"
        /\ \A k, l \in DOMAIN Tail(batch[w]) : Tail(batch[w])[k] = Tail(batch[w])[l] => k = l
        /\ \A k \in DOMAIN Tail(batch[w]) : /\ Tail(batch[w])[k] # i
                                            /\ Tail(batch[w])[k] \in DOMAIN jobs
                                            /\ jobs[Tail(batch[w])[k]].status = "processing"
    BY <1>3, <1>7, BatchTail DEF Queue
  <2> HIDE DEF i
  <2>2. /\ DOMAIN jobs' = DOMAIN jobs
        /\ jobs'[i] = Saved(jobs[i], loaded[w], s, a)
        /\ \A k \in DOMAIN jobs : k # i => jobs'[k] = jobs[k]
    BY <1>7, <2>1 DEF SaveJob, i
  <2>3. /\ jobs'[i].status = s /\ jobs'[i].lease = "none"
        /\ jobs'[i].attempts = loaded[w].attempts
    BY <1>3, <1>7, <2>2 DEF Saved, FlushColumn, Exclusive, i
  <2>4. Retriable(jobs'[i])
    BY <1>7, <2>3 DEF Retriable
  <2>5. batch'[w] = Tail(batch[w]) /\ wpc'[w] = "delete"
    BY <1>1, <1>7 DEF NextJob, WGoto
  <2>6. Exclusive(w)'
    BY <2>1, <2>2, <2>5 DEF Exclusive
  <2>7. \A k \in DOMAIN jobs' : Retriable(jobs'[k])
    BY <1>3, <2>2, <2>4
  <2>8. Final
    BY <2>1, <2>2
  <2>9. QED
    BY <1>2, <2>6, <2>7, <2>8 DEF ClaimInv
<1>8. CASE CaptureSuccess(w)
  <2>1. jobs[Head(batch[w])].available \in BOOLEAN
    BY <1>3, <1>8, BatchHead DEF CaptureSuccess, Queue, Job
  <2>2. QED
    BY <1>7, <1>8, <2>1 DEF CaptureSuccess
<1>9. CASE CaptureFailure(w)
  BY <1>7, <1>9 DEF CaptureFailure
<1>10. CASE RecordDbError(w)
  <2>1. /\ batch'[w] = Tail(batch[w]) /\ wpc'[w] = "delete" /\ jobs' = jobs /\ batch[w] # <<>>
    BY <1>1, <1>3, <1>10 DEF RecordDbError, NextJob, WGoto, storeVars, Queue
  <2>2. Exclusive(w)'
    BY <1>3, <2>1, BatchTail DEF Exclusive
  <2>3. QED
    BY <1>2, <1>3, <2>1, <2>2 DEF ClaimInv
<1>11. CASE LoadJob(w)
  <2>1. /\ UNCHANGED <<jobs, batch>> /\ wpc'[w] = "save" /\ batch[w] # <<>>
        /\ loaded'[w] = [status |-> jobs[Head(batch[w])].status,
                         attempts |-> jobs[Head(batch[w])].attempts,
                         lease |-> jobs[Head(batch[w])].lease]
    BY <1>1, <1>3, <1>11 DEF LoadJob, WGoto, storeVars, Queue
  <2>2. /\ jobs[Head(batch[w])].status = "processing" /\ jobs[Head(batch[w])].lease # "none"
    BY <1>3, <2>1, BatchTail DEF Retriable
  <2>3. Exclusive(w)'
    BY <1>3, <2>1, <2>2 DEF Exclusive
  <2>4. QED
    BY <1>2, <1>3, <2>1, <2>3 DEF ClaimInv
<1>12. CASE ReapCommit(w)
  <2>1. /\ CreateDeleteJobs(reaping[w]) /\ batch' = batch /\ wpc'[w] = "claim"
        /\ wpc[w] = "reap_commit"
    BY <1>1, <1>12 DEF ReapCommit, WGoto
  <2>2. /\ \A i \in DOMAIN jobs' : Retriable(jobs'[i])
        /\ \A i \in DOMAIN jobs : jobs'[i] = jobs[i]
    BY <1>1, <2>1, NewJobsRetriable
  <2>3. Exclusive(w)'
    BY <1>3, <2>1 DEF Exclusive
  <2>4. QED
    BY <1>2, <2>2, <2>3 DEF ClaimInv
<1>13. CASE Signal(w) \/ DeleteObject(w) \/ DeleteObjectFails(w)
  <2>1. UNCHANGED <<jobs, batch>> 
        /\ \/ wpc'[w] = wpc[w] /\ loaded' = loaded
           \/ wpc[w] = "delete" /\ wpc'[w] = "load"
    BY <1>1, <1>13 DEF Signal, DeleteObject, DeleteObjectFails, storeVars, WGoto
  <2>2. Exclusive(w)'
    BY <1>3, <2>1 DEF Exclusive
  <2>3. QED
    BY <1>2, <1>3, <2>1, <2>2 DEF ClaimInv
<1>14. CASE \/ EndBatch(w) \/ ReapSelect(w) \/ ReapDbError(w) \/ Exit(w) \/ Crash(w) \/ Restart(w)
  <2>1. UNCHANGED jobs /\ batch'[w] = <<>> /\ wpc'[w] \notin {"delete", "load", "save"}
    BY <1>1, <1>3, <1>14
    DEF EndBatch, ReapSelect, ReapDbError, Exit, Crash, Restart, storeVars, WGoto, Exclusive
  <2>2. Exclusive(w)'
    BY <2>1 DEF Exclusive
  <2>3. QED
    BY <1>2, <1>3, <2>1, <2>2 DEF ClaimInv
<1>15. QED
  BY <1>5, <1>6, <1>8, <1>9, <1>10, <1>11, <1>12, <1>13, <1>14 DEF WorkerStep

\* Requests, admins and time.
LEMMA ClaimOthers ==
  ASSUME Inv, ClaimInv, Request \/ Admin \/ Time \/ UNCHANGED vars
  PROVE  /\ ClaimInv'
         /\ \A i \in DOMAIN jobs : jobs[i].status = "completed" => jobs'[i] = jobs[i]
<1>1. /\ jobs \in Seq(Job) /\ TypeOK /\ \A i \in DOMAIN jobs : jobs[i] \in Job
      /\ UNCHANGED workerVars
  BY TypeTables, JobKeys
  DEF Inv, TypeOK, StoreTypeOK, Request, Admin, Time, AdminSelect, AdminCommit, AdminFails,
      WindowElapses, BackoffElapses, LeaseExpires, vars
<1>2. /\ \A i \in DOMAIN jobs : Retriable(jobs[i])
      /\ \A w \in Workers : UNCHANGED <<wpc[w], batch[w], loaded[w]>>
  BY <1>1 DEF ClaimInv, workerVars
<1>3. ASSUME NEW us \in Seq(Uploads), CreateDeleteJobs(us)
      PROVE  /\ ClaimInv'
             /\ \A i \in DOMAIN jobs : jobs[i].status = "completed" => jobs'[i] = jobs[i]
  <2>1. /\ \A i \in DOMAIN jobs' : Retriable(jobs'[i])
        /\ \A i \in DOMAIN jobs : jobs'[i] = jobs[i]
    BY <1>3, NewJobsRetriable
  <2>2. QED
    BY <1>2, <2>1, ExclusiveKept DEF ClaimInv
<1>4. ASSUME NEW i \in DOMAIN jobs, BackoffElapses(i) \/ LeaseExpires(i)
      PROVE  /\ ClaimInv'
             /\ \A k \in DOMAIN jobs : jobs[k].status = "completed" => jobs'[k] = jobs[k]
  <2>1. /\ DOMAIN jobs' = DOMAIN jobs
        /\ \A k \in DOMAIN jobs : k # i => jobs'[k] = jobs[k]
        /\ jobs'[i].status = jobs[i].status /\ jobs'[i].attempts = jobs[i].attempts
        /\ jobs'[i].lease = "none" <=> jobs[i].lease = "none"
    BY <1>1, <1>4 DEF BackoffElapses, LeaseExpires, Job
  <2>2. jobs[i].status # "completed"
    BY <1>2, <1>4 DEF BackoffElapses, LeaseExpires, Retriable
  <2>3. \A k \in DOMAIN jobs' : Retriable(jobs'[k])
    BY <1>2, <2>1 DEF Retriable
  <2>4. \A k \in DOMAIN jobs : /\ jobs'[k].attempts = jobs[k].attempts
                               /\ jobs'[k].status = jobs[k].status
    BY <2>1
  <2>5. \A w \in Workers : Exclusive(w)'
    BY <1>2, <2>4, ExclusiveKept
  <2>6. QED
    BY <2>1, <2>2, <2>3, <2>5 DEF ClaimInv
<1>5. CASE UNCHANGED jobs
  BY <1>2, <1>5, ExclusiveKept DEF ClaimInv
<1>6. CASE Time
  BY <1>4, <1>5, <1>6 DEF Time, WindowElapses
<1>7. CASE Request \/ Admin
  <2>1. \A u \in Uploads : <<u>> \in Seq(Uploads)
    OBVIOUS
  <2>2. ASSUME NEW u \in Uploads, CreateDeleteJobs(<<u>>)
        PROVE  /\ ClaimInv'
               /\ \A i \in DOMAIN jobs : jobs[i].status = "completed" => jobs'[i] = jobs[i]
    BY <1>3, <2>1, <2>2
  <2>3. UNCHANGED jobs \/ \E u \in Uploads : CreateDeleteJobs(<<u>>)
    BY <1>7
    DEF Request, RequestStep, RejectInvalid, CraneNotFound, LockCrane, LimitExceeded,
        BelowLimit, InsertPhoto, PreuploadDbError, StoreObject, StoreObjectFails, Finalize,
        FinalizeRace, CommitActive, FinalizeDbError, AbandonRead, AbandonFlush,
        AbandonCommit, AbandonDbError, RequestDies, storeVars,
        Admin, AdminSelect, AdminCommit, AdminFails
  <2>4. QED
    BY <1>5, <2>2, <2>3
<1>8. QED
  BY <1>5, <1>6, <1>7 DEF vars, storeVars

\* So does every other step.
LEMMA ClaimStep ==
  ASSUME Inv, ClaimInv, OneWorker, [Next]_vars
  PROVE  /\ ClaimInv'
         /\ \A i \in DOMAIN jobs : jobs[i].status = "completed" => jobs'[i] = jobs[i]
BY ClaimWorker, ClaimOthers DEF Next, Worker

\* What one worker knows of its batch, it knows in every reachable state.
THEOREM ClaimInvariance == ASSUME OneWorker PROVE Spec => []ClaimInv
<1>1. Init => ClaimInv
  BY DEF Init, StoreInit, WorkerInit, ClaimInv, Exclusive
<1>2. Inv /\ ClaimInv /\ [Next]_vars => ClaimInv'
  BY ClaimStep
<1>3. QED
  BY <1>1, <1>2, Invariance, PTL DEF Spec

\* capture_failure: a job is retried only while it has attempts left.
THEOREM RetryBudgetHolds == ASSUME OneWorker PROVE Spec => []RetryBudget
<1>1. ClaimInv => RetryBudget
  BY DEF ClaimInv, Retriable, RetryBudget
<1>2. QED
  BY <1>1, ClaimInvariance, PTL

\* capture_success: a completed job is never claimed or written again.
THEOREM CompletedIsFinalHolds == ASSUME OneWorker PROVE Spec => CompletedIsFinal
<1>1. Inv /\ ClaimInv /\ [Next]_vars =>
        [\A i \in DOMAIN jobs : jobs[i].status = "completed" => jobs'[i] = jobs[i]]_vars
  BY ClaimStep
<1>2. QED
  BY <1>1, Invariance, ClaimInvariance, PTL DEF Spec, CompletedIsFinal

(***************************************************************************)
(* ProcessingHasLease, for one worker or two.  A worker whose lease ran    *)
(* out goes on with jobs that the other has claimed since, so each of them *)
(* may write what it read before the other wrote.                          *)
(***************************************************************************)
\* There are two at most.
TwoWorkers == \A u, v, w \in Workers : u = v \/ v = w \/ u = w

\* A job that no claim takes any more.
Spent == {"completed", "failed"}

\* A job has a lease while it is being processed, and none while it waits.
Leased(job) ==
  /\ job.status = "processing" => job.lease # "none"
  /\ job.status = "pending" => job.lease = "none"

\* A worker has each job of its batch once.
Distinct(w) ==
  /\ wpc[w] \notin {"delete", "load", "save"} => batch[w] = <<>>
  /\ \A k, l \in DOMAIN batch[w] : batch[w][k] = batch[w][l] => k = l

\* What a worker read of a job that had ended is still so when it writes it.
Remembered(w) ==
  wpc[w] = "save" =>
    LET read == loaded[w]
        job == jobs[Head(batch[w])]
    IN /\ Leased(read)
       /\ read.status \in Spent => /\ job.status = read.status
                                   /\ job.lease = "none" <=> read.lease = "none"

\* The worker that ended a job has let go of it, so at most one has it left.
EndedByOne ==
  \A i \in DOMAIN jobs, v, w \in Workers :
    jobs[i].status \in Spent /\ i \in Rows(batch[v]) /\ i \in Rows(batch[w]) => v = w

LeaseInv ==
  /\ \A i \in DOMAIN jobs : Leased(jobs[i])
  /\ EndedByOne
  /\ \A w \in Workers : Distinct(w) /\ Remembered(w)

\* A step that ends no job, and changes none that has ended but for the expiry
\* of a lease it still had.
SparesEnded ==
  /\ \A i \in DOMAIN jobs' : /\ Leased(jobs'[i])
                             /\ i \notin DOMAIN jobs => jobs'[i].status \notin Spent
  /\ \A i \in DOMAIN jobs :
       /\ i \in DOMAIN jobs'
       /\ jobs'[i].status \in Spent \/ jobs[i].status \in Spent =>
            /\ jobs'[i].status = jobs[i].status
            /\ jobs'[i].lease = "none" <=> jobs[i].lease = "none"

\* The invariant is kept by such a step, when the jobs that a worker adds to its
\* batch have not ended.
LEMMA LeaseKept ==
  ASSUME Inv, LeaseInv, SparesEnded,
         \A w \in Workers :
           /\ Distinct(w)'
           /\ UNCHANGED <<wpc[w], batch[w], loaded[w]>> \/ Remembered(w)'
           /\ \A i \in Rows(batch[w])' : i \in Rows(batch[w]) \/ jobs'[i].status \notin Spent
  PROVE  LeaseInv'
<1>1. \A i \in DOMAIN jobs' : Leased(jobs'[i])
  BY DEF SparesEnded
<1>2. EndedByOne'
  <2> SUFFICES ASSUME NEW i \in DOMAIN jobs', NEW v \in Workers, NEW w \in Workers,
                      jobs'[i].status \in Spent,
                      i \in Rows(batch[v])', i \in Rows(batch[w])'
               PROVE  v = w
    BY DEF EndedByOne
  <2>1. i \in DOMAIN jobs /\ jobs[i].status \in Spent
    BY DEF SparesEnded
  <2>2. i \in Rows(batch[v]) /\ i \in Rows(batch[w])
    OBVIOUS
  <2> QED  BY <2>1, <2>2 DEF LeaseInv, EndedByOne
<1>3. ASSUME NEW w \in Workers, UNCHANGED <<wpc[w], batch[w], loaded[w]>>
      PROVE  Remembered(w)'
  <2>1. wpc[w] = "save" => Head(batch[w]) \in DOMAIN jobs
    BY BatchHead DEF Inv, Queue
  <2> QED  BY <1>3, <2>1 DEF LeaseInv, Remembered, SparesEnded, Leased
<1> QED  BY <1>1, <1>2, <1>3 DEF LeaseInv

\* The steps of the worker that write no job: what it had is what it has, less
\* what it is done with.
LEMMA LeaseIdle ==
  ASSUME Inv, LeaseInv, NEW w \in Workers, UNCHANGED jobs,
         \A v \in Workers : v # w => UNCHANGED <<wpc[v], batch[v], loaded[v]>>,
         Distinct(w)', Remembered(w)', Rows(batch[w])' \subseteq Rows(batch[w])
  PROVE  LeaseInv'
<1>1. SparesEnded
  BY DEF SparesEnded, LeaseInv
<1>2. \A v \in Workers : Distinct(v)'
  BY DEF LeaseInv, Distinct
<1>3. \A v \in Workers : \A i \in Rows(batch[v])' : i \in Rows(batch[v])
  BY DEF Rows
<1> QED  BY <1>1, <1>2, <1>3, LeaseKept

\* What the rest of a batch holds, and that its first job is not among it.
LEMMA DistinctTail ==
  ASSUME Inv, NEW w \in Workers, batch[w] # <<>>, Distinct(w)
  PROVE  /\ Head(batch[w]) \in DOMAIN jobs /\ Head(batch[w]) \in Rows(batch[w])
         /\ \A k, l \in DOMAIN Tail(batch[w]) : Tail(batch[w])[k] = Tail(batch[w])[l] => k = l
         /\ Rows(Tail(batch[w])) \subseteq Rows(batch[w])
         /\ Head(batch[w]) \notin Rows(Tail(batch[w]))
<1>1. batch[w] \in Seq(Nat)
  BY DEF Inv, TypeOK, WorkerTypeOK
<1>2. Len(batch[w]) \in Nat \ {0} /\ DOMAIN batch[w] = 1..Len(batch[w])
  BY <1>1, EmptySeq, LenProperties
<1>3. Head(batch[w]) = batch[w][1] /\ 1 \in DOMAIN batch[w]
  BY <1>1, <1>2
<1>4. \A k \in DOMAIN Tail(batch[w]) :
        k \in Nat /\ k # 0 /\ k + 1 \in DOMAIN batch[w] /\ Tail(batch[w])[k] = batch[w][k + 1]
  BY <1>1, <1>2
<1>5. \A k \in DOMAIN batch[w] : batch[w][k] \in DOMAIN jobs
  BY DEF Inv, Queue
<1>6. \A k \in DOMAIN Tail(batch[w]) : k + 1 # 1
  BY <1>4
<1>7. \A k, l \in DOMAIN Tail(batch[w]) : k + 1 = l + 1 => k = l
  BY <1>4
<1>8. Head(batch[w]) \notin Rows(Tail(batch[w]))
  BY <1>3, <1>4, <1>6 DEF Distinct, Rows
<1>9. Rows(Tail(batch[w])) \subseteq Rows(batch[w])
  BY <1>4 DEF Rows
<1> QED  BY <1>3, <1>4, <1>5, <1>7, <1>8, <1>9 DEF Distinct, Rows

\* create_delete_crane_job changes no job that is there; the new ones are pending.
LEMMA NewJobsLeased ==
  ASSUME Inv, LeaseInv, NEW us \in Seq(Uploads), CreateDeleteJobs(us)
  PROVE  SparesEnded
<1>1. TypeOK
  BY DEF Inv
<1>2. /\ \A i \in DOMAIN jobs : i \in DOMAIN jobs' /\ jobs'[i] = jobs[i]
      /\ \A i \in DOMAIN jobs' : i \notin DOMAIN jobs => jobs'[i] = NewJob(jobs'[i].key)
  BY <1>1, TypeTables, CreateJobs
<1>3. \A u : Leased(NewJob(u)) /\ NewJob(u).status \notin Spent
  BY DEF Leased, NewJob, Spent
<1> QED  BY <1>2, <1>3 DEF SparesEnded, LeaseInv

\* A claim leaves jobs that have ended alone and gives the others a lease.
LEMMA ClaimLeases ==
  ASSUME LeaseInv, NEW S \in SUBSET Claimable, MarkClaimed(S)
  PROVE  SparesEnded /\ \A i \in S : jobs'[i].status \notin Spent
<1>1. /\ DOMAIN jobs' = DOMAIN jobs
      /\ \A i \in DOMAIN jobs : jobs'[i] = IF i \in S THEN Claimed(jobs[i]) ELSE jobs[i]
  BY DEF MarkClaimed
<1>2. \A i \in DOMAIN jobs : Leased(Claimed(jobs[i])) /\ Claimed(jobs[i]).status = "processing"
  BY DEF Leased, Claimed
<1>3. \A i \in S : i \in DOMAIN jobs /\ jobs[i].status \notin Spent
  BY DEF Claimable, Spent
<1> QED  BY <1>1, <1>2, <1>3 DEF LeaseInv, SparesEnded, Spent

\* capture_success and capture_failure: whatever the worker read, what it writes
\* is no job in processing without a lease.
LEMMA SaveLeases ==
  ASSUME Inv, LeaseInv, TwoWorkers, NEW w \in Workers, wpc[w] = "save",
         NEW s \in {"completed", "pending", "failed"}, NEW a \in BOOLEAN,
         SaveJob(w, s, a), NextJob(w)
  PROVE  LeaseInv'
<1> DEFINE i == Head(batch[w])
<1>1. /\ batch[w] # <<>> /\ batch' = [batch EXCEPT ![w] = Tail(batch[w])]
      /\ wpc'[w] = "delete" /\ batch'[w] = Tail(batch[w])
      /\ \A v \in Workers : v # w => UNCHANGED <<wpc[v], batch[v], loaded[v]>>
      /\ jobs \in Seq(Job) /\ \A k \in DOMAIN jobs : jobs[k] \in Job
      /\ loaded[w] \in [status : JobStatus, attempts : Nat, lease : Lease]
  BY TypeTables, JobKeys DEF Inv, Queue, TypeOK, WorkerTypeOK, StoreTypeOK, NextJob, WGoto
<1>2. /\ i \in DOMAIN jobs /\ i \in Rows(batch[w])
      /\ \A k, l \in DOMAIN Tail(batch[w]) : Tail(batch[w])[k] = Tail(batch[w])[l] => k = l
      /\ Rows(Tail(batch[w])) \subseteq Rows(batch[w])
      /\ i \notin Rows(Tail(batch[w]))
  BY <1>1, DistinctTail DEF LeaseInv
<1>3. /\ DOMAIN jobs' = DOMAIN jobs
      /\ jobs'[i] = Saved(jobs[i], loaded[w], s, a)
      /\ \A k \in DOMAIN jobs : k # i => jobs'[k] = jobs[k]
  BY <1>2 DEF SaveJob
<1>4. /\ Leased(jobs[i]) /\ Leased(loaded[w])
      /\ loaded[w].status \in Spent => /\ jobs[i].status = loaded[w].status
                                       /\ jobs[i].lease = "none" <=> loaded[w].lease = "none"
  BY <1>2 DEF LeaseInv, Remembered
<1> HIDE DEF i
<1>5. Leased(jobs'[i])
  <2>1. /\ jobs'[i].status = IF s = loaded[w].status THEN jobs[i].status ELSE s
        /\ jobs'[i].lease = IF "none" = loaded[w].lease THEN jobs[i].lease ELSE "none"
    BY <1>3 DEF Saved, FlushColumn
  <2>2. CASE loaded[w].status = "processing"
    BY <1>4, <2>1, <2>2 DEF Leased
  <2>3. CASE loaded[w].status = "pending"
    BY <1>4, <2>1, <2>3 DEF Leased
  <2>4. CASE loaded[w].status \in Spent
    BY <1>4, <2>1, <2>4 DEF Leased, Spent
  <2>5. loaded[w].status \in {"processing", "pending"} \cup Spent
    BY <1>1 DEF JobStatus, Spent
  <2> QED  BY <2>2, <2>3, <2>4, <2>5
<1>6. \A k \in DOMAIN jobs' : Leased(jobs'[k])
  BY <1>3, <1>5 DEF LeaseInv
<1>7. EndedByOne'
  <2> SUFFICES ASSUME NEW k \in DOMAIN jobs', NEW u \in Workers, NEW v \in Workers,
                      jobs'[k].status \in Spent,
                      k \in Rows(batch[u])', k \in Rows(batch[v])'
               PROVE  u = v
    BY DEF EndedByOne
  <2>a. /\ \A z \in Workers : z # w => Rows(batch[z])' = Rows(batch[z])
        /\ Rows(batch[w])' = Rows(Tail(batch[w]))
    <3>1. ASSUME NEW z \in Workers, z # w PROVE Rows(batch[z])' = Rows(batch[z])
      <4>1. batch'[z] = batch[z]
        BY <1>1, <3>1
      <4> QED  BY <4>1 DEF Rows
    <3>2. Rows(batch[w])' = Rows(Tail(batch[w]))
      <4>1. batch'[w] = Tail(batch[w])
        BY <1>1
      <4> QED  BY <4>1 DEF Rows
    <3> QED  BY <3>1, <3>2
  <2>1. k \in Rows(batch[u]) /\ k \in Rows(batch[v])
    BY <1>2, <2>a
  <2>2. CASE k = i
    <3>1. u # w /\ v # w
      BY <1>2, <2>2, <2>a
    <3> QED  BY <3>1 DEF TwoWorkers
  <2>3. CASE k # i
    BY <1>3, <2>1, <2>3 DEF LeaseInv, EndedByOne
  <2> QED  BY <2>2, <2>3
<1>8. ASSUME NEW v \in Workers PROVE Distinct(v)' /\ Remembered(v)'
  <2>1. CASE v = w
    BY <1>1, <1>2, <2>1 DEF Distinct, Remembered
  <2>2. CASE v # w
    <3>1. Distinct(v)'
      BY <1>1, <2>2 DEF LeaseInv, Distinct
    <3> SUFFICES ASSUME wpc[v] = "save" PROVE Remembered(v)'
      BY <1>1, <2>2, <3>1 DEF Remembered
    <3> DEFINE j == Head(batch[v])
    <3>2. j \in DOMAIN jobs /\ j \in Rows(batch[v])
      <4>1. batch[v] # <<>>
        BY DEF Inv, Queue
      <4> QED  BY <4>1, DistinctTail DEF LeaseInv
    <3>3. /\ Leased(loaded[v])
          /\ loaded[v].status \in Spent => /\ jobs[j].status = loaded[v].status
                                           /\ jobs[j].lease = "none" <=> loaded[v].lease = "none"
      BY DEF LeaseInv, Remembered
    <3> HIDE DEF j
    <3>4. loaded[v].status \in Spent => jobs'[j] = jobs[j]
      <4>1. jobs[j].status \in Spent /\ j \in Rows(batch[w]) => v = w
        BY <3>2 DEF LeaseInv, EndedByOne
      <4>2. loaded[v].status \in Spent => j # i
        BY <1>2, <2>2, <3>3, <4>1
      <4> QED  BY <1>3, <3>2, <4>2
    <3>5. UNCHANGED <<batch[v], loaded[v], wpc[v]>> /\ Head(batch'[v]) = j
      BY <1>1, <2>2 DEF j
    <3> QED  BY <3>3, <3>4, <3>5 DEF Remembered
  <2> QED  BY <2>1, <2>2
<1> QED  BY <1>6, <1>7, <1>8 DEF LeaseInv

\* A worker's step keeps the invariant, whatever the other is doing.
LEMMA LeaseWorker ==
  ASSUME Inv, LeaseInv, TwoWorkers, NEW w \in Workers, WorkerStep(w)
  PROVE  LeaseInv'
<1>1. /\ jobs \in Seq(Job) /\ wpc \in [Workers -> Points] /\ batch \in [Workers -> Seq(Nat)]
      /\ loaded \in [Workers -> [status : JobStatus, attempts : Nat, lease : Lease]]
      /\ reaping \in [Workers -> Seq(Uploads)]
      /\ \A i \in DOMAIN jobs : jobs[i] \in Job
      /\ Queue /\ Distinct(w) /\ Remembered(w)
  BY TypeTables, JobKeys DEF Inv, TypeOK, StoreTypeOK, WorkerTypeOK, LeaseInv
<1>2. \A v \in Workers : v # w => UNCHANGED <<wpc[v], batch[v], loaded[v]>>
  BY <1>1
  DEF WorkerStep, Claim, ClaimDbError, DeleteObject, DeleteObjectFails, EndBatch, LoadJob,
      CaptureSuccess, CaptureFailure, RecordDbError, ReapSelect, ReapCommit, ReapDbError,
      Signal, Exit, Crash, Restart, NextJob, WGoto
<1>3. \A v \in Workers : v # w => Distinct(v)' /\ Rows(batch[v])' = Rows(batch[v])
  BY <1>2 DEF LeaseInv, Distinct, Rows
<1>4. CASE Claim(w)
  <2>1. PICK sel \in Selections(Claimable) :
          MarkClaimed(Rows(sel)) /\ batch' = [batch EXCEPT ![w] = sel]
    BY <1>4 DEF Claim
  <2>2. Rows(sel) \in SUBSET Claimable /\ \A k, l \in DOMAIN sel : sel[k] = sel[l] => k = l
    BY SelectionType DEF Selections
  <2>3. batch'[w] = sel /\ wpc'[w] = "delete"
    BY <1>1, <1>4, <2>1 DEF Claim, WGoto
  <2>4. SparesEnded /\ \A i \in Rows(sel) : jobs'[i].status \notin Spent
    BY <2>1, <2>2, ClaimLeases
  <2>5. Distinct(w)' /\ Remembered(w)' /\ Rows(batch[w])' = Rows(sel)
    BY <2>2, <2>3 DEF Distinct, Remembered, Rows
  <2> QED  BY <1>2, <1>3, <2>4, <2>5, LeaseKept
<1>5. CASE ClaimDbError(w)
  <2>1. PICK sel \in {<<>>} \cup Selections(Claimable) : MarkClaimed(Rows(sel))
    BY <1>5 DEF ClaimDbError
  <2>2. Rows(sel) \in SUBSET Claimable
    BY SelectionType DEF Rows
  <2>3. SparesEnded
    BY <2>1, <2>2, ClaimLeases
  <2>4. Distinct(w)' /\ Remembered(w)' /\ Rows(batch[w])' = Rows(batch[w])
    BY <1>1, <1>5 DEF ClaimDbError, WGoto, Distinct, Remembered, Rows
  <2> QED  BY <1>2, <1>3, <2>3, <2>4, LeaseKept
<1>6. CASE CaptureSuccess(w)
  <2>1. jobs[Head(batch[w])].available \in BOOLEAN
    BY <1>1, <1>6, BatchHead DEF CaptureSuccess, Queue, Job
  <2> QED  BY <1>6, <2>1, SaveLeases DEF CaptureSuccess
<1>7. CASE CaptureFailure(w)
  BY <1>7, SaveLeases DEF CaptureFailure
<1>8. CASE RecordDbError(w)
  <2>1. /\ batch'[w] = Tail(batch[w]) /\ wpc'[w] = "delete" /\ jobs' = jobs /\ batch[w] # <<>>
    BY <1>1, <1>8 DEF RecordDbError, NextJob, WGoto, storeVars, Queue
  <2>2. /\ \A k, l \in DOMAIN Tail(batch[w]) : Tail(batch[w])[k] = Tail(batch[w])[l] => k = l
        /\ Rows(Tail(batch[w])) \subseteq Rows(batch[w])
    BY <1>1, <2>1, DistinctTail
  <2>3. Distinct(w)' /\ Remembered(w)' /\ Rows(batch[w])' \subseteq Rows(batch[w])
    BY <2>1, <2>2 DEF Distinct, Remembered, Rows
  <2> QED  BY <1>2, <2>1, <2>3, LeaseIdle
<1>9. CASE LoadJob(w)
  <2>1. /\ UNCHANGED <<jobs, batch>> /\ wpc'[w] = "save" /\ batch[w] # <<>>
        /\ loaded'[w] = [status |-> jobs[Head(batch[w])].status,
                         attempts |-> jobs[Head(batch[w])].attempts,
                         lease |-> jobs[Head(batch[w])].lease]
        /\ wpc[w] = "load"
    BY <1>1, <1>9 DEF LoadJob, WGoto, storeVars, Queue
  <2>2. Leased(jobs[Head(batch[w])])
    BY <1>1, <2>1, DistinctTail DEF LeaseInv
  <2>3. Distinct(w)' /\ Remembered(w)' /\ Rows(batch[w])' = Rows(batch[w])
    BY <1>1, <2>1, <2>2 DEF Distinct, Remembered, Leased, Rows
  <2> QED  BY <1>2, <2>1, <2>3, LeaseIdle
<1>10. CASE ReapCommit(w)
  <2>1. /\ CreateDeleteJobs(reaping[w]) /\ batch' = batch /\ wpc'[w] = "claim"
        /\ wpc[w] = "reap_commit" /\ reaping[w] \in Seq(Uploads)
    BY <1>1, <1>10 DEF ReapCommit, WGoto
  <2>2. SparesEnded
    BY <2>1, NewJobsLeased
  <2>3. Distinct(w)' /\ Remembered(w)' /\ Rows(batch[w])' = Rows(batch[w])
    BY <1>1, <2>1 DEF Distinct, Remembered, Rows
  <2> QED  BY <1>2, <1>3, <2>2, <2>3, LeaseKept
<1>11. CASE Signal(w) \/ DeleteObject(w) \/ DeleteObjectFails(w)
  <2>1. /\ UNCHANGED <<jobs, batch>>
        /\ \/ wpc'[w] = wpc[w] /\ loaded' = loaded
           \/ wpc[w] = "delete" /\ wpc'[w] = "load"
    BY <1>1, <1>11 DEF Signal, DeleteObject, DeleteObjectFails, storeVars, WGoto
  <2>2. Distinct(w)' /\ Rows(batch[w])' = Rows(batch[w])
    BY <1>1, <2>1 DEF Distinct, Rows
  <2>3. Remembered(w)'
    <3>1. CASE wpc'[w] = wpc[w] /\ loaded' = loaded
      BY <1>1, <2>1, <3>1 DEF Remembered, Leased
    <3>2. CASE wpc'[w] = "load"
      BY <3>2 DEF Remembered
    <3> QED  BY <2>1, <3>1, <3>2
  <2> QED  BY <1>2, <2>1, <2>2, <2>3, LeaseIdle
<1>12. CASE \/ EndBatch(w) \/ ReapSelect(w) \/ ReapDbError(w) \/ Exit(w) \/ Crash(w) \/ Restart(w)
  <2>1. UNCHANGED jobs /\ batch'[w] = <<>> /\ wpc'[w] \notin {"delete", "load", "save"}
    BY <1>1, <1>12
    DEF EndBatch, ReapSelect, ReapDbError, Exit, Crash, Restart, storeVars, WGoto, Distinct
  <2>2. Distinct(w)' /\ Remembered(w)' /\ Rows(batch[w])' = {}
    BY <2>1 DEF Distinct, Remembered, Rows
  <2> QED  BY <1>2, <2>1, <2>2, LeaseIdle
<1> QED
  BY <1>4, <1>5, <1>6, <1>7, <1>8, <1>9, <1>10, <1>11, <1>12 DEF WorkerStep

\* Requests, admins and time add jobs that are pending, or let a lease run out.
LEMMA LeaseOthers ==
  ASSUME Inv, LeaseInv, Request \/ Admin \/ Time \/ UNCHANGED vars
  PROVE  LeaseInv'
<1>1. /\ jobs \in Seq(Job) /\ TypeOK /\ \A i \in DOMAIN jobs : jobs[i] \in Job
      /\ UNCHANGED workerVars
  BY TypeTables, JobKeys
  DEF Inv, TypeOK, StoreTypeOK, Request, Admin, Time, AdminSelect, AdminCommit, AdminFails,
      WindowElapses, BackoffElapses, LeaseExpires, vars
<1>2. SUFFICES SparesEnded
  <2>1. \A w \in Workers : /\ Distinct(w)' /\ UNCHANGED <<wpc[w], batch[w], loaded[w]>>
                           /\ Rows(batch[w])' = Rows(batch[w])
    BY <1>1 DEF workerVars, LeaseInv, Distinct, Rows
  <2> QED  BY <2>1, LeaseKept
<1>3. CASE UNCHANGED jobs
  BY <1>3 DEF SparesEnded, LeaseInv
<1>4. ASSUME NEW i \in DOMAIN jobs, BackoffElapses(i) \/ LeaseExpires(i) PROVE SparesEnded
  <2>1. /\ DOMAIN jobs' = DOMAIN jobs
        /\ \A k \in DOMAIN jobs : k # i => jobs'[k] = jobs[k]
        /\ jobs'[i].status = jobs[i].status
        /\ jobs'[i].lease = "none" <=> jobs[i].lease = "none"
    BY <1>1, <1>4 DEF BackoffElapses, LeaseExpires, Job
  <2> QED  BY <2>1 DEF SparesEnded, LeaseInv, Leased
<1>5. CASE Time
  BY <1>3, <1>4, <1>5 DEF Time, WindowElapses
<1>6. CASE Request \/ Admin
  <2>1. \A u \in Uploads : <<u>> \in Seq(Uploads)
    OBVIOUS
  <2>2. UNCHANGED jobs \/ \E u \in Uploads : CreateDeleteJobs(<<u>>)
    BY <1>6
    DEF Request, RequestStep, RejectInvalid, CraneNotFound, LockCrane, LimitExceeded,
        BelowLimit, InsertPhoto, PreuploadDbError, StoreObject, StoreObjectFails, Finalize,
        FinalizeRace, CommitActive, FinalizeDbError, AbandonRead, AbandonFlush,
        AbandonCommit, AbandonDbError, RequestDies, storeVars,
        Admin, AdminSelect, AdminCommit, AdminFails
  <2> QED  BY <1>3, <2>1, <2>2, NewJobsLeased
<1> QED  BY <1>3, <1>5, <1>6 DEF vars, storeVars

\* claim_jobs: a job in processing has a lease, so it can be taken over, with
\* one worker or two.
THEOREM ProcessingHasLeaseHolds == ASSUME TwoWorkers PROVE Spec => []ProcessingHasLease
<1>1. Init => LeaseInv
  BY DEF Init, StoreInit, WorkerInit, LeaseInv, EndedByOne, Distinct, Remembered
<1>2. Inv /\ LeaseInv /\ [Next]_vars => LeaseInv'
  BY LeaseWorker, LeaseOthers DEF Next, Worker
<1>3. LeaseInv => ProcessingHasLease
  BY DEF LeaseInv, Leased, ProcessingHasLease
<1> QED  BY <1>1, <1>2, <1>3, Invariance, PTL DEF Spec
=============================================================================
