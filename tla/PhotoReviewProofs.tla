-------------------------- MODULE PhotoReviewProofs --------------------------
(***************************************************************************)
(* For any photos, reports and page sizes: a review skips no photo that    *)
(* stays and shows none twice, and a photo has no report that was accepted *)
(* after it was withdrawn or twice from one address.                       *)
(***************************************************************************)
EXTENDS PhotoReview, FiniteSetTheorems, TLAPS

\* A photo has as many reports as addresses at most.
LEMMA ReportsFinite ==
  ASSUME reports \subseteq Report, NEW p \in Photos
  PROVE  /\ IsFiniteSet(ReportsOf(p))
         /\ Cardinality(ReportsOf(p)) \in Nat
         /\ Cardinality(ReportsOf(p)) = 0 <=> ReportsOf(p) = {}
<1> DEFINE f == [x \in ReportsOf(p) |-> x.reporter]
<1>1. \A x, y \in ReportsOf(p) : x.reporter = y.reporter => x = y
  BY DEF ReportsOf, Report
<1>2. f \in Injection(ReportsOf(p), Reporters)
  <2>1. f \in [ReportsOf(p) -> Reporters]
    BY DEF ReportsOf, Report
  <2>2. QED
    BY <1>1, <2>1 DEF Injection, IsInjective
<1>3. IsFiniteSet(ReportsOf(p))
  BY <1>2, FS_Injection, ReportsAssumption
<1>4. QED
  BY <1>3, FS_CardinalityType, FS_EmptySet

\* There are neither photos nor reports at first.
LEMMA InitInv == Init => Inv
<1> SUFFICES ASSUME Init PROVE Inv
  OBVIOUS
<1>1. TypeOK
  <2>1. CatalogTypeOK /\ reports \subseteq Report /\ rowLock \in [Photos -> Requests \cup {NoOne}]
    BY DEF Init, CatalogTypeOK, CatalogInit
  <2>2. limit \in 1..MaxLimit /\ counts \in [Photos -> Nat]
    BY LimitAssumption DEF Init
  <2>3. QED
    BY <2>1, <2>2 DEF Init, TypeOK
<1>2. Pages
  BY DEF Init, Pages, NothingSkipped, NewestFirst, ReportedHaveCounts
<1>3. Reporting
  BY DEF Init, Reporting, OneReportEach
<1>4. QED
  BY <1>1, <1>2, <1>3 DEF Inv

\* The life cycle and the reporters disturb no review: what is watched is still
\* there, and reports vanish only with their photo.
LEMMA PagesKept ==
  ASSUME Inv, UNCHANGED reviewVars, watched' = watched \cap Reviewable',
         \A p \in Photos : state[p] = "gone" => state'[p] = "gone",
         \A p \in Photos : ReportsOf(p) # {} => ReportsOf(p)' # {} \/ state'[p] = "gone"
  PROVE  Pages'
  BY DEF Inv, TypeOK, Pages, NothingSkipped, NewestFirst, ReportedHaveCounts, reviewVars

\* A review disturbs no report.
LEMMA ReportingKept ==
  ASSUME Reporting, UNCHANGED <<state, reportVars>>
  PROVE  Reporting'
  BY DEF Reporting, OneReportEach, reportVars, NewReport

(***************************************************************************)
(* The life cycle.                                                         *)
(***************************************************************************)
LEMMA StageInv ==
  ASSUME Inv, Stage
  PROVE  Inv'
<1>1. TypeOK'
  BY DEF Stage, StillWatched, Insert, Refuse, Publish, Discard, Move, Inv, TypeOK, CatalogTypeOK,
         reportVars, reviewVars
<1>2. /\ \A p \in Photos : state[p] \in {"active", "pending_delete", "gone"} => state'[p] = state[p]
      /\ UNCHANGED <<reportVars, reviewVars>> /\ watched' = watched \cap Reviewable'
  BY DEF Stage, StillWatched, Insert, Refuse, Publish, Discard, Move, Inv, TypeOK, CatalogTypeOK
<1>3. Pages'
  BY <1>2, PagesKept DEF reportVars, ReportsOf
<1>4. Reporting'
  BY <1>2, ReportsAssumption DEF Inv, TypeOK, Report, Reporting, OneReportEach, reportVars, NewReport
<1>5. QED
  BY <1>1, <1>3, <1>4 DEF Inv

\* The withdrawal of an active photo keeps the invariant.
LEMMA WithdrawInv ==
  ASSUME Inv, NEW p \in Photos, WithdrawUnlocked(p)
  PROVE  Inv'
<1>1. /\ UNCHANGED <<reportVars, reviewVars>> /\ watched' = watched \cap Reviewable'
      /\ state[p] = "active" /\ rowLock[p] = NoOne
      /\ state' = [state EXCEPT ![p] = "pending_delete"]
  BY DEF WithdrawUnlocked, StillWatched, Withdraw, Move
<1>2. TypeOK'
  BY <1>1 DEF Inv, TypeOK, CatalogTypeOK, reportVars, reviewVars
<1>3. Pages'
  BY <1>1, PagesKept DEF Inv, TypeOK, CatalogTypeOK, reportVars, ReportsOf
<1>4. Reporting'
  BY <1>1, ReportsAssumption
  DEF Inv, TypeOK, CatalogTypeOK, Report, Reporting, OneReportEach, reportVars, NewReport
<1>5. QED
  BY <1>2, <1>3, <1>4 DEF Inv

\* The deletion of a row, and of its reports with it, keeps the invariant.
LEMMA RemoveInv ==
  ASSUME Inv, NEW p \in Photos, RemoveRow(p)
  PROVE  Inv'
<1>1. /\ UNCHANGED <<rowLock, rpc, answer, reviewVars>> /\ watched' = watched \cap Reviewable'
      /\ state[p] = "pending_delete" /\ reports' = reports \ ReportsOf(p)
      /\ state' = [state EXCEPT ![p] = "gone"]
  BY DEF RemoveRow, StillWatched, Remove, Move
<1>2. TypeOK'
  BY <1>1 DEF Inv, TypeOK, CatalogTypeOK, reviewVars
<1>3. Pages'
  <2>1. \A q \in Photos : ReportsOf(q) # {} => ReportsOf(q)' # {} \/ state'[q] = "gone"
    BY <1>1 DEF ReportsOf, Inv, TypeOK, CatalogTypeOK
  <2>2. QED
    BY <1>1, <2>1, PagesKept DEF Inv, TypeOK, CatalogTypeOK
<1>4. Reporting'
  BY <1>1, ReportsAssumption
  DEF Inv, TypeOK, CatalogTypeOK, Report, Reporting, OneReportEach, ReportsOf, NewReport
<1>5. QED
  BY <1>2, <1>3, <1>4 DEF Inv

(***************************************************************************)
(* The reports.                                                            *)
(***************************************************************************)
LEMMA ReportInv ==
  ASSUME Inv, NEW r \in Requests, ReportStep(r)
  PROVE  Inv'
<1>a. /\ NewReport(r) \in Report /\ PhotoOf[r] \in Photos /\ NewReport(r).photo = PhotoOf[r]
      /\ rpc \in [Requests -> {"start", "insert", "commit", "done"}]
      /\ answer \in [Requests -> {"none", "created", "conflict", "error"}]
      /\ rowLock \in [Photos -> Requests \cup {NoOne}]
      /\ PhotoOf \in [Requests -> Photos] /\ NoOne \notin Requests
      /\ \A s \in Requests : NewReport(s).photo = PhotoOf[s]
  BY ReportsAssumption DEF NewReport, Report, Inv, TypeOK
<1>b. /\ UNCHANGED <<state, reviewVars>>
      /\ \/ reports' = reports
         \/ reports' = reports \cup {NewReport(r)} /\ rpc[r] = "commit"
  BY DEF ReportStep, LockPhoto, PhotoNotFound, InsertReport, ReportConflict, CommitReport, ReportFails
<1>c. watched' = watched \cap Reviewable'
  <2>1. CASE CommitReport(r) \/ ReportFails(r)
    BY <2>1 DEF CommitReport, ReportFails, StillWatched
  <2>2. CASE LockPhoto(r) \/ PhotoNotFound(r) \/ InsertReport(r) \/ ReportConflict(r)
    <3>1. UNCHANGED <<state, reports, reviewVars, watched>>
      BY <2>2 DEF LockPhoto, PhotoNotFound, InsertReport, ReportConflict
    <3>2. Reviewable' = Reviewable
      BY <3>1 DEF Reviewable, ReportsOf, reviewVars
    <3>3. QED
      BY <3>1, <3>2 DEF Inv, Pages
  <2>3. QED
    BY <2>1, <2>2 DEF ReportStep
<1>1. TypeOK'
  BY <1>a, <1>b, <1>c DEF ReportStep, LockPhoto, PhotoNotFound, InsertReport, ReportConflict,
     CommitReport, ReportFails, Respond, Inv, TypeOK, CatalogTypeOK, reviewVars
<1>2. Pages'
  BY <1>b, <1>c, PagesKept DEF ReportsOf
<1>d. Reporting /\ (\A s \in Requests : NewReport(s)' = NewReport(s))
  BY DEF Inv, NewReport
<1>3. ASSUME LockPhoto(r) PROVE Reporting'
  <2>1. /\ rowLock' = [rowLock EXCEPT ![PhotoOf[r]] = r]
        /\ rpc' = [rpc EXCEPT ![r] = "insert"] /\ UNCHANGED <<state, reports, answer>>
        /\ state[PhotoOf[r]] = "active" /\ rowLock[PhotoOf[r]] = NoOne /\ rpc[r] = "start"
    BY <1>3 DEF LockPhoto
  <2>2. QED
    BY <1>a, <1>d, <2>1 DEF Reporting, OneReportEach
<1>4. ASSUME InsertReport(r) PROVE Reporting'
  <2>1. /\ rpc' = [rpc EXCEPT ![r] = "commit"] /\ UNCHANGED <<state, reports, answer, rowLock>>
        /\ NewReport(r) \notin reports /\ rpc[r] = "insert"
    BY <1>4 DEF InsertReport
  <2>2. QED
    BY <1>a, <1>d, <2>1 DEF Reporting, OneReportEach
<1>5. ASSUME PhotoNotFound(r) \/ ReportConflict(r) \/ ReportFails(r), reports' = reports
      PROVE  Reporting'
  <2>1. /\ rpc' = [rpc EXCEPT ![r] = "done"] /\ answer'[r] # "created"
        /\ answer' = [answer EXCEPT ![r] = answer'[r]]
        /\ rowLock' = [q \in Photos |-> IF rowLock[q] = r THEN NoOne ELSE rowLock[q]]
    BY <1>a, <1>5 DEF PhotoNotFound, ReportConflict, ReportFails, Respond
  <2>2. OneReportEach'
    BY <1>a, <1>d, <2>1 DEF Reporting, OneReportEach
  <2>3. QED
    BY <1>a, <1>b, <1>d, <1>5, <2>1, <2>2 DEF Reporting
<1>6. ASSUME CommitReport(r) \/ ReportFails(r), rpc[r] = "commit",
             reports' = reports \cup {NewReport(r)}
      PROVE  Reporting'
  <2> DEFINE a == answer'[r]
  <2>1. /\ rpc' = [rpc EXCEPT ![r] = "done"] /\ answer' = [answer EXCEPT ![r] = a]
        /\ rowLock' = [q \in Photos |-> IF rowLock[q] = r THEN NoOne ELSE rowLock[q]]
    BY <1>a, <1>6 DEF CommitReport, ReportFails, Respond
  <2>2. /\ rowLock[PhotoOf[r]] = r /\ state[PhotoOf[r]] = "active"
        /\ NewReport(r) \notin reports
    BY <1>a, <1>6 DEF Inv, Reporting
  <2>3. \A s \in Requests : answer[s] = "created" => NewReport(s) # NewReport(r)
    BY <1>a, <2>2 DEF Inv, Reporting
  <2>4. OneReportEach'
    BY <1>a, <2>1, <2>3 DEF Inv, Reporting, OneReportEach, NewReport
  <2>5. \A s \in Requests \ {r} : rpc[s] \in {"insert", "commit"} => PhotoOf[s] # PhotoOf[r]
    BY <1>a, <2>2 DEF Inv, Reporting
  <2>6. \A s \in Requests : rpc'[s] \in {"insert", "commit"} => rowLock'[PhotoOf[s]] = s
    BY <1>a, <2>1 DEF Inv, Reporting
  <2>7. \A s \in Requests : rpc'[s] = "commit" => NewReport(s) \notin reports'
    BY <1>a, <1>6, <2>1, <2>5 DEF Inv, Reporting
  <2>8. \A s \in Requests : answer'[s] = "created" =>
          rpc'[s] = "done" /\ (NewReport(s) \in reports' \/ state'[PhotoOf[s]] = "gone")
    BY <1>a, <1>b, <1>6, <2>1 DEF Inv, Reporting
  <2>9. /\ \A q \in Photos : rowLock'[q] # NoOne => state'[q] = "active"
        /\ \A x \in reports' : state'[x.photo] \in {"active", "pending_delete"}
    BY <1>a, <1>b, <1>6, <2>1, <2>2 DEF Inv, Reporting
  <2>10. (\A s \in Requests : NewReport(s)' = NewReport(s))
    BY DEF NewReport
  <2>11. QED
    BY <2>4, <2>6, <2>7, <2>8, <2>9, <2>10 DEF Reporting
<1>7. Reporting'
  <2>1. CASE LockPhoto(r) \/ InsertReport(r)
    BY <2>1, <1>3, <1>4
  <2>2. CASE PhotoNotFound(r) \/ ReportConflict(r)
    BY <2>2, <1>5 DEF PhotoNotFound, ReportConflict
  <2>3. CASE CommitReport(r) \/ ReportFails(r)
    BY <2>3, <1>5, <1>6 DEF CommitReport, ReportFails
  <2>4. QED
    BY <2>1, <2>2, <2>3 DEF ReportStep
<1>8. QED
  BY <1>1, <1>2, <1>7 DEF Inv

(***************************************************************************)
(* The review.                                                             *)
(***************************************************************************)
LEMMA StartInv ==
  ASSUME Inv, StartReview
  PROVE  Inv'
<1>1. Reviewable' \subseteq Photos
  BY DEF Reviewable
<1>2. TypeOK'
  BY <1>1 DEF StartReview, Inv, TypeOK, CatalogTypeOK, reportVars
<1>3. Pages'
  <2>1. /\ shown = {} /\ page = {} /\ shown' = {} /\ page' = {} /\ review' = "ask"
        /\ cursor' = cursor /\ watched' = Reviewable'
    BY DEF StartReview, Inv, Pages
  <2>2. \A p \in watched' : ~(cursor <= p)
    <3>1. cursor = NoCursor /\ watched' \subseteq Photos
      BY <1>1, <2>1 DEF StartReview, Inv, Pages
    <3>2. QED
      BY <3>1, PhotosAssumption
  <2>3. QED
    BY <2>1, <2>2 DEF Pages, NothingSkipped, NewestFirst, ReportedHaveCounts
<1>4. Reporting'
  BY ReportingKept DEF StartReview, Inv, reportVars
<1>5. QED
  BY <1>2, <1>3, <1>4 DEF Inv

\* The statement that picks the page keeps the invariant.
LEMMA GetPhotosInv ==
  ASSUME Inv, GetCranePhotos
  PROVE  Inv'
<1>a. /\ limit' \in 1..MaxLimit /\ page' \subseteq Photos /\ review' = "count" /\ review = "ask"
      /\ IsNewest(page', {p \in Reviewable : p < cursor}, limit' + 1)
      /\ UNCHANGED <<state, reportVars, reportedOnly, cursor, shown, counts, watched>>
  BY DEF GetCranePhotos
<1>1. TypeOK'
  BY <1>a DEF Inv, TypeOK, CatalogTypeOK, reportVars
<1>2. Photos \subseteq Int /\ cursor \in Int /\ shown \subseteq Photos /\ watched \subseteq Photos
  BY PhotosAssumption DEF Inv, TypeOK
<1>3. /\ \A p \in page' : p \in Reviewable /\ p < cursor
      /\ Cardinality(page') <= limit' + 1
      /\ Cardinality(page') = limit' + 1 \/ \A p \in Reviewable : p < cursor => p \in page'
      /\ \A p \in Reviewable \ page' : p < cursor => \A q \in page' : p < q
  BY <1>a DEF IsNewest
<1>4. Reviewable' = Reviewable /\ (\A p \in Photos : ReportsOf(p)' = ReportsOf(p))
  BY <1>a DEF Reviewable, ReportsOf, reportVars
<1>5. NewestFirst'
  BY <1>a, <1>2, <1>3 DEF NewestFirst, Inv, Pages
<1>6. Pages'
  BY <1>a, <1>2, <1>3, <1>4, <1>5
  DEF Inv, Pages, NothingSkipped, ReportedHaveCounts, Reviewable
<1>7. QED
  BY <1>a, <1>1, <1>6, ReportingKept DEF Inv

\* The statement that counts the reports keeps the invariant.
LEMMA GetCountsInv ==
  ASSUME Inv, GetPhotoReportCounts
  PROVE  Inv'
<1>a. PICK T \in SUBSET page : IsNewest(T, page, limit) /\ CountsOf(T) /\ Show(T)
  BY DEF GetPhotoReportCounts
<1>b. /\ review = "count" /\ page' = {}
      /\ UNCHANGED <<state, reportVars, reportedOnly, limit, watched>>
  BY DEF GetPhotoReportCounts
<1>c. /\ Photos \subseteq Int /\ cursor \in Int /\ limit \in Nat /\ limit >= 1
      /\ shown \subseteq Photos /\ watched \subseteq Photos /\ page \subseteq Photos
      /\ reports \subseteq Report /\ counts \in [Photos -> Nat]
  BY PhotosAssumption, LimitAssumption DEF Inv, TypeOK
<1>d. /\ shown' = shown \cup T
      /\ cursor' \in IF T = {} THEN {cursor} ELSE {p \in T : \A q \in T : p <= q}
      /\ review' = IF Cardinality(page) > limit THEN "ask" ELSE "done"
      /\ counts' = [p \in Photos |-> IF p \in T THEN Cardinality(ReportsOf(p)) ELSE counts[p]]
  BY <1>a DEF Show, CountsOf
<1>e. /\ T \subseteq page /\ (T = page \/ Cardinality(T) = limit)
      /\ \A p \in T, q \in page \ T : q < p
  BY <1>a DEF IsNewest
<1>1. IsFiniteSet(page) /\ IsFiniteSet(T) /\ Cardinality(page) \in Nat
      /\ Cardinality(T) <= Cardinality(page) /\ (Cardinality(T) = Cardinality(page) => T = page)
  <2>1. IsFiniteSet(page)
    BY <1>c, PhotosAssumption, FS_Subset
  <2>2. QED
    BY <2>1, <1>e, FS_Subset, FS_CardinalityType
<1>2. TypeOK'
  <2>1. counts' \in [Photos -> Nat]
    BY <1>c, <1>d, ReportsFinite
  <2>2. QED
    BY <1>b, <1>c, <1>d, <1>e, <2>1 DEF Inv, TypeOK, CatalogTypeOK, reportVars
<1>3. \A p \in shown' : cursor' <= p
  BY <1>c, <1>d, <1>e DEF Inv, Pages
<1>4. ASSUME NEW p \in watched, cursor' <= p
      PROVE  p \in shown'
  <2>1. CASE cursor <= p
    BY <1>d, <2>1 DEF Inv, Pages
  <2>2. CASE p < cursor
    <3>1. T # {} /\ cursor' \in T
      BY <1>c, <1>d, <1>4, <2>2
    <3>2. p \in page
      BY <1>b, <1>c, <1>e, <1>4, <2>2, <3>1 DEF Inv, Pages
    <3>3. p \in T
      BY <1>c, <1>e, <1>4, <3>1, <3>2
    <3>4. QED
      BY <1>d, <3>3
  <2>3. QED
    BY <1>c, <2>1, <2>2
<1>5. ASSUME review' = "done"
      PROVE  watched \subseteq shown'
  <2>1. T = page /\ Cardinality(page) # limit + 1
    BY <1>1, <1>c, <1>d, <1>e, <1>5
  <2>2. \A p \in watched : p < cursor => p \in page
    BY <1>b, <2>1 DEF Inv, Pages
  <2>3. QED
    BY <1>c, <1>d, <2>1, <2>2 DEF Inv, Pages
<1>6. ReportedHaveCounts'
  <2>1. ASSUME NEW p \in T, reportedOnly, counts'[p] = 0
        PROVE  state[p] = "gone"
    <3>1. p \in Photos /\ Cardinality(ReportsOf(p)) = 0
      BY <1>c, <1>d, <1>e, <2>1
    <3>2. ReportsOf(p) = {}
      BY <1>c, <3>1, ReportsFinite
    <3>3. QED
      BY <1>e, <2>1, <3>2 DEF Inv, Pages
  <2>2. QED
    BY <1>b, <1>c, <1>d, <2>1 DEF ReportedHaveCounts, Inv, Pages
<1>7. Reviewable' = Reviewable
  BY <1>b DEF Reviewable, ReportsOf, reportVars
<1>8. Pages'
  BY <1>b, <1>d, <1>3, <1>4, <1>5, <1>6, <1>7
  DEF Inv, Pages, NothingSkipped, NewestFirst
<1>9. QED
  BY <1>b, <1>2, <1>8, ReportingKept DEF Inv

\* A review that fails keeps the invariant.
LEMMA FailsInv ==
  ASSUME Inv, ReviewFails
  PROVE  Inv'
<1>1. Reviewable' = Reviewable
  BY DEF ReviewFails, Reviewable, ReportsOf, reportVars
<1>2. QED
  BY <1>1, ReportingKept
  DEF ReviewFails, Inv, TypeOK, CatalogTypeOK, Pages, NothingSkipped, NewestFirst,
      ReportedHaveCounts, reportVars

(***************************************************************************)
(* The theorems.                                                           *)
(***************************************************************************)
\* The invariant holds in every reachable state.
THEOREM Invariance == Spec => []Inv
<1>1. Inv /\ [Next]_vars => Inv'
  <2>1. SUFFICES ASSUME Inv, [Next]_vars PROVE Inv'
    OBVIOUS
  <2>2. CASE UNCHANGED vars
    <3>1. Reviewable' = Reviewable
      BY <2>2 DEF vars, Reviewable, ReportsOf, reportVars, reviewVars
    <3>2. Pages'
      BY <2>1, <2>2, <3>1, PagesKept DEF vars, ReportsOf, reportVars, Inv, Pages
    <3>3. QED
      BY <2>1, <2>2, <3>2, ReportingKept
      DEF vars, Inv, TypeOK, CatalogTypeOK, reportVars, reviewVars
  <2>3. QED
    BY <2>1, <2>2, StageInv, WithdrawInv, RemoveInv, ReportInv, StartInv, GetPhotosInv,
       GetCountsInv, FailsInv
    DEF Next, ReviewStep, Finished
<1>2. QED
  BY <1>1, InitInv, PTL DEF Spec

\* A review that has ended has shown every photo that was there all the time.
THEOREM NothingSkippedHolds == Spec => []NothingSkipped
<1>1. Inv => NothingSkipped
  BY DEF Inv, Pages
<1>2. QED
  BY <1>1, Invariance, PTL

\* No photo is shown twice in a review.
THEOREM NewestFirstHolds == Spec => []NewestFirst
<1>1. Inv => NewestFirst
  BY DEF Inv, Pages
<1>2. QED
  BY <1>1, Invariance, PTL

\* A reported photo is shown with its reports unless its row has gone.
THEOREM ReportedHaveCountsHolds == Spec => []ReportedHaveCounts
<1>1. Inv => ReportedHaveCounts
  BY DEF Inv, Pages
<1>2. QED
  BY <1>1, Invariance, PTL

\* Of the reports of a photo from one address one at most is answered 201.
THEOREM OneReportEachHolds == Spec => []OneReportEach
<1>1. Inv => OneReportEach
  BY DEF Inv, Reporting
<1>2. QED
  BY <1>1, Invariance, PTL

\* A report is recorded only while its photo is active.
THEOREM ReportedWhileActiveHolds == Spec => ReportedWhileActive
<1> DEFINE Step == \A x \in reports' \ reports : state[x.photo] = "active"
<1>1. ASSUME Inv, Next PROVE Step
  <2>1. ASSUME NEW r \in Requests, ReportStep(r) PROVE Step
    <3>1. \/ reports' = reports
          \/ reports' = reports \cup {NewReport(r)} /\ rpc[r] = "commit"
      BY <2>1 DEF ReportStep, LockPhoto, PhotoNotFound, InsertReport, ReportConflict,
                  CommitReport, ReportFails
    <3>2. rpc[r] = "commit" => state[PhotoOf[r]] = "active"
      BY <1>1, ReportsAssumption DEF Inv, Reporting
    <3>3. QED
      BY <3>1, <3>2 DEF NewReport
  <2>2. QED
    BY <1>1, <2>1 DEF Next, Stage, WithdrawUnlocked, RemoveRow, ReviewStep, StartReview,
       GetCranePhotos, GetPhotoReportCounts, ReviewFails, Finished, reportVars, vars
<1>2. ASSUME Inv, [Next]_vars PROVE [Step]_vars
  BY <1>1, <1>2
<1>3. QED
  BY <1>2, Invariance, PTL DEF Spec, ReportedWhileActive
=============================================================================
