----------------------------- MODULE GoneReports -----------------------------
(***************************************************************************)
(* POST /cranes/{crane_id}/report: report_crane_as_gone.  One transaction  *)
(* locks the crane row, inserts a gone_report row, counts the rows of the  *)
(* crane and, at the threshold, sets its status to "gone".  The constraint *)
(* crane_reporter allows one row for a crane and a reporter.               *)
(*                                                                         *)
(* The threshold is a parameter of the service, read from the settings for *)
(* every request; it does not change while the application runs.           *)
(***************************************************************************)
EXTENDS Integers, FiniteSets

CONSTANTS
  Requests,     \* report requests
  Reporters,    \* HMAC hashes of client addresses
  CraneIds,     \* the crane ids that requests name
  Cranes,       \* the crane ids that have a row
  CraneOf,      \* [Requests -> CraneIds]
  ReporterOf,   \* [Requests -> Reporters]
  Threshold,    \* gone_report_threshold
  NoOne         \* "this crane row is not locked"

ASSUME RequestAssumption == /\ NoOne \notin Requests
                            /\ CraneOf \in [Requests -> CraneIds]
                            /\ ReporterOf \in [Requests -> Reporters]
ASSUME RowAssumption == Cranes \subseteq CraneIds /\ IsFiniteSet(Reporters)
ASSUME ThresholdAssumption == Threshold \in Nat \ {0}

VARIABLES
  rpc,          \* where each request is
  reply,        \* "recorded", "duplicate" (409) or "error"
  reported,     \* the committed gone_report rows, a set of reporters per crane
  status,       \* Crane.status
  craneLock,    \* request holding each crane row FOR UPDATE
  count         \* gone_report_count of each request

vars == <<rpc, reply, reported, status, craneLock, count>>

Open == {"start", "insert", "count", "commit"}

TypeOK ==
  /\ rpc \in [Requests -> Open \cup {"done"}]
  /\ reply \in [Requests -> {"none", "recorded", "duplicate", "error"}]
  /\ reported \in [Cranes -> SUBSET Reporters]
  /\ status \in [Cranes -> {"active", "gone"}]
  /\ craneLock \in [Cranes -> Requests \cup {NoOne}]
  /\ count \in [Requests -> Nat]

\* A new crane is active and nobody has reported it.
Init ==
  /\ rpc = [r \in Requests |-> "start"]
  /\ reply = [r \in Requests |-> "none"]
  /\ reported = [c \in Cranes |-> {}]
  /\ status = [c \in Cranes |-> "active"]
  /\ craneLock = [c \in Cranes |-> NoOne]
  /\ count = [r \in Requests |-> 0]

-----------------------------------------------------------------------------
Goto(r, pc) == rpc' = [rpc EXCEPT ![r] = pc] /\ UNCHANGED reply

\* The request is answered and its transaction, with its lock, has ended.
Respond(r, answer) ==
  /\ rpc' = [rpc EXCEPT ![r] = "done"]
  /\ reply' = [reply EXCEPT ![r] = answer]
  /\ craneLock' = [c \in Cranes |-> IF craneLock[c] = r THEN NoOne ELSE craneLock[c]]

\* The rows of the crane that r's transaction sees once it has inserted its own.
Visible(r) == reported[CraneOf[r]] \cup {ReporterOf[r]}

CraneNotFound(r) ==
  /\ rpc[r] = "start"
  /\ CraneOf[r] \notin Cranes
  /\ Respond(r, "error")
  /\ UNCHANGED <<reported, status, count>>

LockCrane(r) ==
  /\ rpc[r] = "start"
  /\ CraneOf[r] \in Cranes
  /\ craneLock[CraneOf[r]] = NoOne
  /\ craneLock' = [craneLock EXCEPT ![CraneOf[r]] = r]
  /\ Goto(r, "insert")
  /\ UNCHANGED <<reported, status, count>>

\* Mutant: there is no unique constraint on the reporter.
InsertAny(r) ==
  /\ rpc[r] = "insert"
  /\ Goto(r, "count")
  /\ UNCHANGED <<reported, status, craneLock, count>>

InsertReport(r) ==
  /\ rpc[r] = "insert"
  /\ ReporterOf[r] \notin reported[CraneOf[r]]
  /\ Goto(r, "count")
  /\ UNCHANGED <<reported, status, craneLock, count>>

\* The savepoint is rolled back on IntegrityError; DuplicateGoneReportError
\* ends the transaction.
DuplicateReport(r) ==
  /\ rpc[r] = "insert"
  /\ ReporterOf[r] \in reported[CraneOf[r]]
  /\ Respond(r, "duplicate")
  /\ UNCHANGED <<reported, status, count>>

CountReports(r) ==
  /\ rpc[r] = "count"
  /\ count' = [count EXCEPT ![r] = Cardinality(Visible(r))]
  /\ Goto(r, "commit")
  /\ UNCHANGED <<reported, status, craneLock>>

\* Mutant: the crane is flipped one report late.
RecordLate(r) ==
  /\ reported' = [reported EXCEPT ![CraneOf[r]] = Visible(r)]
  /\ status' = [status EXCEPT ![CraneOf[r]] = IF count[r] > Threshold THEN "gone" ELSE @]

\* What the transaction writes, seen when it commits.
Record(r) ==
  /\ reported' = [reported EXCEPT ![CraneOf[r]] = Visible(r)]
  /\ status' = [status EXCEPT ![CraneOf[r]] = IF count[r] >= Threshold THEN "gone" ELSE @]

Commit(r) ==
  /\ rpc[r] = "commit"
  /\ Record(r)
  /\ Respond(r, "recorded")
  /\ UNCHANGED count

\* A request without a client address, a database error or the death of the
\* server.  When the commit fails, the rows may have been written all the same.
Fails(r) ==
  /\ rpc[r] \in Open
  /\ \/ UNCHANGED <<reported, status>>
     \/ rpc[r] = "commit" /\ Record(r)
  /\ Respond(r, "error")
  /\ UNCHANGED count

ReportStep(r) ==
  \/ CraneNotFound(r) \/ LockCrane(r) \/ InsertReport(r) \/ DuplicateReport(r)
  \/ CountReports(r) \/ Commit(r) \/ Fails(r)

\* Every request has been answered.
Finished == (\A r \in Requests : rpc[r] = "done") /\ UNCHANGED vars

Next == (\E r \in Requests : ReportStep(r)) \/ Finished

Spec == Init /\ [][Next]_vars

-----------------------------------------------------------------------------
\* A crane is gone exactly when Threshold different reporters have reported it:
\* simultaneous reports cannot each count too few and leave it on the map, and
\* a report that was rolled back does not count.
GoneAtThreshold ==
  \A c \in Cranes : (status[c] = "gone") = (Cardinality(reported[c]) >= Threshold)

\* Two requests from one address about one crane are not both recorded, even
\* when they arrive together: the second is answered 409.
OneReportEach ==
  \A r, s \in Requests :
    /\ reply[r] = "recorded" /\ reply[s] = "recorded"
    /\ CraneOf[r] = CraneOf[s] /\ ReporterOf[r] = ReporterOf[s]
    => r = s

\* The inductive invariant that carries both.  A request past LockCrane holds
\* the lock of its crane, so that what it found is still so when it commits:
\* its reporter is new and its count is one more than the committed rows.
Inv ==
  /\ TypeOK
  /\ GoneAtThreshold
  /\ OneReportEach
  /\ \A r \in Requests :
       /\ rpc[r] \in {"insert", "count", "commit"} =>
            CraneOf[r] \in Cranes /\ craneLock[CraneOf[r]] = r
       /\ rpc[r] \in {"count", "commit"} => ReporterOf[r] \notin reported[CraneOf[r]]
       /\ rpc[r] = "commit" => count[r] = Cardinality(reported[CraneOf[r]]) + 1
       /\ reply[r] = "recorded" => /\ rpc[r] = "done"
                                   /\ CraneOf[r] \in Cranes
                                   /\ ReporterOf[r] \in reported[CraneOf[r]]
=============================================================================
