----------------------------- MODULE PhotoReview -----------------------------
(***************************************************************************)
(* Readers and reporters of photos, beside the life cycle of PhotoCatalog: *)
(* POST /cranes/{crane_id}/photos/{photo_id}/report, one transaction that  *)
(* locks an active row and inserts a photo_report, and an admin who pages  *)
(* through GET /cranes/photos, newest first, handing the id of the last    *)
(* photo of a page back as the cursor of the next.                         *)
(*                                                                         *)
(* A photo is a number that stands for its place in the order of the       *)
(* uuid7 ids.                                                              *)
(***************************************************************************)
EXTENDS PhotoCatalog, Integers, FiniteSets

CONSTANTS
  Requests,     \* report requests
  Reporters,    \* HMAC hashes of client addresses
  PhotoOf,      \* [Requests -> Photos]
  ReporterOf,   \* [Requests -> Reporters]
  NoOne,        \* "this row is not locked"
  NoCursor,     \* the cursor of the first page, after every id
  MaxLimit      \* the largest page the endpoint accepts

ASSUME PhotosAssumption == /\ Photos \subseteq Int /\ IsFiniteSet(Photos)
                           /\ NoCursor \in Int /\ \A p \in Photos : p < NoCursor
ASSUME ReportsAssumption == /\ NoOne \notin Requests /\ IsFiniteSet(Reporters)
                            /\ PhotoOf \in [Requests -> Photos]
                            /\ ReporterOf \in [Requests -> Reporters]
ASSUME LimitAssumption == MaxLimit \in Nat \ {0}

VARIABLES
  reports,      \* the committed photo_report rows
  rowLock,      \* report request holding each photo row FOR UPDATE
  rpc, answer,  \* where each report request is, and its response
  review,       \* "idle", "ask" for a page, "count" its reports, or "done"
  reportedOnly, \* reported_only of the review
  cursor,       \* the id handed back, or NoCursor
  limit, page,  \* limit of the page, and the rows read, one more than limit at most
  shown,        \* the photos the admin has been shown
  counts,       \* the report_count each was shown with
  watched       \* history: the photos there to be reviewed ever since the start

reportVars == <<reports, rowLock, rpc, answer>>
reviewVars == <<review, reportedOnly, cursor, limit, page, shown, counts>>
vars == <<state, reportVars, reviewVars, watched>>

Report == [photo : Photos, reporter : Reporters]

TypeOK ==
  /\ CatalogTypeOK
  /\ reports \subseteq Report
  /\ rowLock \in [Photos -> Requests \cup {NoOne}]
  /\ rpc \in [Requests -> {"start", "insert", "commit", "done"}]
  /\ answer \in [Requests -> {"none", "created", "conflict", "error"}]
  /\ review \in {"idle", "ask", "count", "done"}
  /\ reportedOnly \in BOOLEAN
  /\ cursor \in Photos \cup {NoCursor}
  /\ limit \in 1..MaxLimit
  /\ page \subseteq Photos /\ shown \subseteq Photos /\ watched \subseteq Photos
  /\ counts \in [Photos -> Nat]

Init ==
  /\ CatalogInit
  /\ reports = {}
  /\ rowLock = [p \in Photos |-> NoOne]
  /\ rpc = [r \in Requests |-> "start"]
  /\ answer = [r \in Requests |-> "none"]
  /\ review = "idle" /\ reportedOnly = FALSE
  /\ cursor = NoCursor /\ limit = 1 /\ page = {} /\ shown = {}
  /\ counts = [p \in Photos |-> 0]
  /\ watched = {}

-----------------------------------------------------------------------------
ReportsOf(p) == {x \in reports : x.photo = p}

\* The rows the query of get_crane_photos selects from, before the cursor.
Reviewable == {p \in Photos : state[p] = "active" /\ (reportedOnly => ReportsOf(p) # {})}

StillWatched == watched' = watched \cap Reviewable'

(***************************************************************************)
(* The life cycle.  A deletion waits for the reporter's row lock; the      *)
(* reports of a row go with it (ON DELETE CASCADE).                        *)
(***************************************************************************)
Stage ==
  /\ \/ \E p \in Photos : Insert(p) \/ Refuse(p) \/ Publish(p)
     \/ \E S \in SUBSET Photos : S # {} /\ Discard(S)
  /\ UNCHANGED <<reportVars, reviewVars>>
  /\ StillWatched

WithdrawUnlocked(p) ==
  /\ rowLock[p] = NoOne
  /\ Withdraw(p)
  /\ UNCHANGED <<reportVars, reviewVars>>
  /\ StillWatched

RemoveRow(p) ==
  /\ Remove(p)
  /\ reports' = reports \ ReportsOf(p)
  /\ UNCHANGED <<rowLock, rpc, answer, reviewVars>>
  /\ StillWatched

(***************************************************************************)
(* report_crane_photo.                                                     *)
(***************************************************************************)
Respond(r, a) ==
  /\ rpc' = [rpc EXCEPT ![r] = "done"]
  /\ answer' = [answer EXCEPT ![r] = a]
  /\ rowLock' = [p \in Photos |-> IF rowLock[p] = r THEN NoOne ELSE rowLock[p]]

\* Mutant: the row is read without FOR UPDATE.
LockPhotoNot(r) ==
  /\ rpc[r] = "start"
  /\ state[PhotoOf[r]] = "active"
  /\ rpc' = [rpc EXCEPT ![r] = "insert"]
  /\ UNCHANGED <<state, reports, rowLock, answer, reviewVars, watched>>

LockPhoto(r) ==
  /\ rpc[r] = "start"
  /\ state[PhotoOf[r]] = "active"
  /\ rowLock[PhotoOf[r]] = NoOne
  /\ rowLock' = [rowLock EXCEPT ![PhotoOf[r]] = r]
  /\ rpc' = [rpc EXCEPT ![r] = "insert"]
  /\ UNCHANGED <<state, reports, answer, reviewVars, watched>>

PhotoNotFound(r) ==
  /\ rpc[r] = "start"
  /\ state[PhotoOf[r]] # "active"
  /\ Respond(r, "error")
  /\ UNCHANGED <<state, reports, reviewVars, watched>>

NewReport(r) == [photo |-> PhotoOf[r], reporter |-> ReporterOf[r]]

\* Mutant: the result of ON CONFLICT DO NOTHING is not looked at.
InsertReportAny(r) ==
  /\ rpc[r] = "insert"
  /\ rpc' = [rpc EXCEPT ![r] = "commit"]
  /\ UNCHANGED <<state, reports, rowLock, answer, reviewVars, watched>>

InsertReport(r) ==
  /\ rpc[r] = "insert"
  /\ NewReport(r) \notin reports
  /\ rpc' = [rpc EXCEPT ![r] = "commit"]
  /\ UNCHANGED <<state, reports, rowLock, answer, reviewVars, watched>>

\* ON CONFLICT DO NOTHING returns no row: 409, and nothing is committed.
ReportConflict(r) ==
  /\ rpc[r] = "insert"
  /\ NewReport(r) \in reports
  /\ Respond(r, "conflict")
  /\ UNCHANGED <<state, reports, reviewVars, watched>>

CommitReport(r) ==
  /\ rpc[r] = "commit"
  /\ reports' = reports \cup {NewReport(r)}
  /\ Respond(r, "created")
  /\ UNCHANGED <<state, reviewVars>>
  /\ StillWatched

\* No client address, a database error or the death of the server.  When it is
\* the commit that fails, the row may be there all the same.
ReportFails(r) ==
  /\ rpc[r] \in {"start", "insert", "commit"}
  /\ \/ UNCHANGED reports
     \/ rpc[r] = "commit" /\ reports' = reports \cup {NewReport(r)}
  /\ Respond(r, "error")
  /\ UNCHANGED <<state, reviewVars>>
  /\ StillWatched

(***************************************************************************)
(* A review.  The rows of a page and their report counts are read by two   *)
(* statements, each of which sees what is committed when it runs.          *)
(***************************************************************************)
\* T can be the result of SELECT ... FROM S ORDER BY id DESC LIMIT n.
IsNewest(T, S, n) ==
  /\ T \subseteq S
  /\ Cardinality(T) <= n
  /\ T = S \/ Cardinality(T) = n
  /\ \A p \in T, q \in S \ T : q < p

StartReview ==
  /\ review = "idle"
  /\ review' = "ask"
  /\ reportedOnly' \in BOOLEAN
  /\ UNCHANGED <<state, reportVars, cursor, limit, page, shown, counts>>
  /\ watched' = Reviewable'

\* Mutant: the photo at the cursor is read again.
GetCranePhotosAtCursor ==
  /\ review = "ask"
  /\ limit' \in 1..MaxLimit
  /\ page' \in SUBSET Photos
  /\ IsNewest(page', {p \in Reviewable : p <= cursor}, limit' + 1)
  /\ review' = "count"
  /\ UNCHANGED <<state, reportVars, reportedOnly, cursor, shown, counts, watched>>

\* get_crane_photos reads one row more than the page to learn if there is more.
GetCranePhotos ==
  /\ review = "ask"
  /\ limit' \in 1..MaxLimit
  /\ page' \in SUBSET Photos
  /\ IsNewest(page', {p \in Reviewable : p < cursor}, limit' + 1)
  /\ review' = "count"
  /\ UNCHANGED <<state, reportVars, reportedOnly, cursor, shown, counts, watched>>

\* Mutant: the extra row is taken for the last of the page.
ShowTooFar(T) ==
  /\ shown' = shown \cup T
  /\ cursor' \in IF page = {} THEN {cursor} ELSE {p \in page : \A q \in page : p <= q}
  /\ review' = IF Cardinality(page) > limit THEN "ask" ELSE "done"

\* The page as it is shown, and the cursor the client takes from it.
Show(T) ==
  /\ shown' = shown \cup T
  /\ cursor' \in IF T = {} THEN {cursor} ELSE {p \in T : \A q \in T : p <= q}
  /\ review' = IF Cardinality(page) > limit THEN "ask" ELSE "done"

\* Mutant: reports are counted for photos that are still active.
CountsOfActive(T) ==
  counts' = [p \in Photos |-> IF p \notin T THEN counts[p]
                              ELSE IF state[p] = "active" THEN Cardinality(ReportsOf(p))
                              ELSE 0]

CountsOf(T) ==
  counts' = [p \in Photos |-> IF p \in T THEN Cardinality(ReportsOf(p)) ELSE counts[p]]

GetPhotoReportCounts ==
  /\ review = "count"
  /\ \E T \in SUBSET page :
       IsNewest(T, page, limit) /\ CountsOf(T) /\ Show(T)
  /\ page' = {}
  /\ UNCHANGED <<state, reportVars, reportedOnly, limit, watched>>

\* The request fails: the client asks for the page again.
ReviewFails ==
  /\ review = "count"
  /\ review' = "ask"
  /\ page' = {}
  /\ UNCHANGED <<state, reportVars, reportedOnly, cursor, limit, shown, counts, watched>>

ReportStep(r) ==
  \/ LockPhoto(r) \/ PhotoNotFound(r) \/ InsertReport(r) \/ ReportConflict(r)
  \/ CommitReport(r) \/ ReportFails(r)

ReviewStep == StartReview \/ GetCranePhotos \/ GetPhotoReportCounts \/ ReviewFails

\* The review is over, every report answered and every photo gone.
Finished ==
  /\ review = "done"
  /\ \A r \in Requests : rpc[r] = "done"
  /\ \A p \in Photos : state[p] = "gone"
  /\ UNCHANGED vars

Next ==
  \/ Stage
  \/ \E p \in Photos : WithdrawUnlocked(p) \/ RemoveRow(p)
  \/ \E r \in Requests : ReportStep(r)
  \/ ReviewStep
  \/ Finished

Spec == Init /\ [][Next]_vars

-----------------------------------------------------------------------------
\* A review that has come to its end has shown every photo that was there to
\* be reviewed all the time, however many were published, reported or deleted
\* between its pages, the photo at the cursor included.
NothingSkipped == review = "done" => watched \subseteq shown

\* A page is older than all that was shown before: no photo is shown twice.
NewestFirst == review = "count" => \A p \in page, q \in shown : p < q

\* In a review of reported photos one is shown with no reports only if its row
\* was removed after the page had been read.
ReportedHaveCounts ==
  \A p \in shown : reportedOnly /\ counts[p] = 0 => state[p] = "gone"

\* Of the reports of one photo from one address at most one is answered 201,
\* the retry of a report whose commit was lost included.
OneReportEach ==
  \A r, s \in Requests :
    /\ answer[r] = "created" /\ answer[s] = "created"
    /\ NewReport(r) = NewReport(s)
    => r = s

\* No photo gets a report once an admin has withdrawn it.
ReportedWhileActive ==
  [][\A x \in reports' \ reports : state[x.photo] = "active"]_vars

(***************************************************************************)
(* The inductive invariant behind these properties.                        *)
(***************************************************************************)
\* The pages so far have covered everything from the cursor on, and the rows
\* read for the next one leave nothing out between its last row and the cursor.
Pages ==
  /\ NothingSkipped /\ NewestFirst /\ ReportedHaveCounts
  /\ watched \subseteq Reviewable
  /\ review = "idle" => cursor = NoCursor /\ shown = {} /\ watched = {}
  /\ review # "count" => page = {}
  /\ \A p \in shown : cursor <= p
  /\ \A p \in watched : cursor <= p => p \in shown
  /\ \A p \in page :
       /\ p < cursor
       /\ reportedOnly => ReportsOf(p) # {} \/ state[p] = "gone"
  /\ review = "count" =>
       /\ Cardinality(page) <= limit + 1
       /\ Cardinality(page) = limit + 1 \/ \A p \in watched : p < cursor => p \in page
       /\ \A p \in watched \ page : p < cursor => \A q \in page : p < q

\* The holder of a row lock has an active photo, and once it has inserted its
\* report nobody else has the same one; a report answered 201 is there until
\* its photo is gone.
Reporting ==
  /\ OneReportEach
  /\ \A p \in Photos : rowLock[p] # NoOne => state[p] = "active"
  /\ \A r \in Requests :
       /\ rpc[r] \in {"insert", "commit"} => rowLock[PhotoOf[r]] = r
       /\ rpc[r] = "commit" => NewReport(r) \notin reports
       /\ answer[r] = "created" =>
            /\ rpc[r] = "done"
            /\ NewReport(r) \in reports \/ state[PhotoOf[r]] = "gone"
  /\ \A x \in reports : state[x.photo] \in {"active", "pending_delete"}

Inv == TypeOK /\ Pages /\ Reporting
=============================================================================
