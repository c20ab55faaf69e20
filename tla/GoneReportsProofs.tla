-------------------------- MODULE GoneReportsProofs --------------------------
(***************************************************************************)
(* For every set of requests and cranes and every threshold: a crane is    *)
(* gone exactly when Threshold reporters have reported it, and no reporter *)
(* has two reports of a crane recorded.                                    *)
(***************************************************************************)
EXTENDS GoneReports, FiniteSetTheorems, TLAPS

\* The reports of a crane form a finite set, and one more reporter makes one more.
LEMMA ReportedFinite ==
  ASSUME TypeOK, NEW c \in Cranes
  PROVE  /\ Cardinality(reported[c]) \in Nat
         /\ \A p : p \notin reported[c] =>
              Cardinality(reported[c] \cup {p}) = Cardinality(reported[c]) + 1
<1>1. reported[c] \subseteq Reporters
  BY DEF TypeOK
<1>2. IsFiniteSet(reported[c])
  BY <1>1, RowAssumption, FS_Subset
<1>3. QED
  BY <1>2, FS_CardinalityType, FS_AddElement

\* There are neither reports nor requests at first.
LEMMA InitInv == Init => Inv
<1>1. SUFFICES ASSUME Init PROVE Inv
  OBVIOUS
<1>2. TypeOK
  BY <1>1 DEF Init, TypeOK, Open
<1>3. GoneAtThreshold
  BY <1>1, FS_EmptySet, ThresholdAssumption DEF Init, GoneAtThreshold
<1>4. QED
  BY <1>1, <1>2, <1>3 DEF Init, Inv, OneReportEach

\* A step that leaves the committed rows alone and records nobody keeps both
\* properties; what is left to show is what the requests know.
LEMMA QuietStep ==
  ASSUME Inv, UNCHANGED <<reported, status>>,
         \A r \in Requests : reply'[r] = "recorded" => reply[r] = "recorded"
  PROVE  GoneAtThreshold' /\ OneReportEach'
  BY DEF Inv, GoneAtThreshold, OneReportEach

\* What the commit of r writes: a new reporter, and the status that goes with
\* the number of reporters there are now.
LEMMA RecordStep ==
  ASSUME Inv, NEW r \in Requests, rpc[r] = "commit", Record(r)
  PROVE  /\ reported' = [reported EXCEPT ![CraneOf[r]] = @ \cup {ReporterOf[r]}]
         /\ reported' \in [Cranes -> SUBSET Reporters]
         /\ status' \in [Cranes -> {"active", "gone"}]
         /\ GoneAtThreshold'
<1> DEFINE c == CraneOf[r]
<1>1. /\ c \in Cranes
      /\ ReporterOf[r] \in Reporters
      /\ ReporterOf[r] \notin reported[c]
      /\ count[r] = Cardinality(reported[c]) + 1
  BY RequestAssumption DEF Inv
<1>2. TypeOK
  BY DEF Inv
<1>3. reported' = [reported EXCEPT ![c] = @ \cup {ReporterOf[r]}]
  BY <1>1, <1>2 DEF Record, Visible, TypeOK
<1>4. reported' \in [Cranes -> SUBSET Reporters]
  BY <1>1, <1>2, <1>3 DEF TypeOK
<1>5. status' \in [Cranes -> {"active", "gone"}]
  BY <1>1, <1>2 DEF Record, TypeOK
<1>6. Cardinality(reported'[c]) = Cardinality(reported[c]) + 1
  BY <1>1, <1>2, <1>3, ReportedFinite DEF TypeOK
<1>7. (status[c] = "gone") = (Cardinality(reported[c]) >= Threshold)
  BY <1>1 DEF Inv, GoneAtThreshold
<1>8. (status'[c] = "gone") = (Cardinality(reported'[c]) >= Threshold)
  <2>1. CASE count[r] >= Threshold
    BY <2>1, <1>1, <1>2, <1>6 DEF Record, TypeOK
  <2>2. CASE ~(count[r] >= Threshold)
    <3>1. status'[c] = status[c]
      BY <2>2, <1>1, <1>2 DEF Record, TypeOK
    <3>2. Cardinality(reported[c]) \in Nat
      BY <1>1, <1>2, ReportedFinite
    <3>3. ~(Cardinality(reported[c]) >= Threshold) /\ ~(Cardinality(reported'[c]) >= Threshold)
      BY <2>2, <3>2, <1>1, <1>6, ThresholdAssumption
    <3>4. QED
      BY <3>1, <3>3, <1>7
  <2>3. QED
    BY <2>1, <2>2
<1>9. ASSUME NEW d \in Cranes, d # c
      PROVE  (status'[d] = "gone") = (Cardinality(reported'[d]) >= Threshold)
  <2>1. status'[d] = status[d] /\ reported'[d] = reported[d]
    BY <1>1, <1>2, <1>9 DEF Record, TypeOK
  <2>2. QED
    BY <2>1 DEF Inv, GoneAtThreshold
<1>10. GoneAtThreshold'
  BY <1>8, <1>9 DEF GoneAtThreshold
<1>11. QED
  BY <1>3, <1>4, <1>5, <1>10

\* Every step of a request keeps the invariant.
LEMMA StepInv ==
  ASSUME Inv, NEW r \in Requests, ReportStep(r)
  PROVE  Inv'
<1> USE RequestAssumption
<1>0. TypeOK
  BY DEF Inv
<1>1. CASE CraneNotFound(r)
  <2>1. TypeOK'
    BY <1>0, <1>1 DEF CraneNotFound, Respond, TypeOK, Open
  <2>2. GoneAtThreshold' /\ OneReportEach'
    BY <1>0, <1>1, QuietStep DEF CraneNotFound, Respond, TypeOK
  <2>3. QED
    BY <1>0, <1>1, <2>1, <2>2 DEF CraneNotFound, Respond, TypeOK, Inv
<1>2. CASE LockCrane(r)
  <2>1. TypeOK'
    BY <1>0, <1>2 DEF LockCrane, Goto, TypeOK, Open
  <2>2. GoneAtThreshold' /\ OneReportEach'
    BY <1>0, <1>2, QuietStep DEF LockCrane, Goto, TypeOK
  <2>3. QED
    BY <1>0, <1>2, <2>1, <2>2 DEF LockCrane, Goto, TypeOK, Inv
<1>3. CASE InsertReport(r)
  <2>1. TypeOK'
    BY <1>0, <1>3 DEF InsertReport, Goto, TypeOK, Open
  <2>2. GoneAtThreshold' /\ OneReportEach'
    BY <1>0, <1>3, QuietStep DEF InsertReport, Goto, TypeOK
  <2>3. QED
    BY <1>0, <1>3, <2>1, <2>2 DEF InsertReport, Goto, TypeOK, Inv
<1>4. CASE DuplicateReport(r)
  <2>1. TypeOK'
    BY <1>0, <1>4 DEF DuplicateReport, Respond, TypeOK, Open
  <2>2. GoneAtThreshold' /\ OneReportEach'
    BY <1>0, <1>4, QuietStep DEF DuplicateReport, Respond, TypeOK
  <2>3. QED
    BY <1>0, <1>4, <2>1, <2>2 DEF DuplicateReport, Respond, TypeOK, Inv
<1>5. CASE CountReports(r)
  <2>1. /\ CraneOf[r] \in Cranes
        /\ ReporterOf[r] \notin reported[CraneOf[r]]
    BY <1>5 DEF CountReports, Inv
  <2>2. Cardinality(Visible(r)) = Cardinality(reported[CraneOf[r]]) + 1
    BY <1>0, <2>1, ReportedFinite DEF Visible
  <2>3. Cardinality(Visible(r)) \in Nat
    BY <1>0, <2>1, <2>2, ReportedFinite
  <2>4. TypeOK'
    BY <1>0, <1>5, <2>3 DEF CountReports, Goto, TypeOK, Open
  <2>5. GoneAtThreshold' /\ OneReportEach'
    BY <1>0, <1>5, QuietStep DEF CountReports, Goto, TypeOK
  <2>6. QED
    BY <1>0, <1>5, <2>2, <2>4, <2>5 DEF CountReports, Goto, TypeOK, Inv
<1>6. CASE Commit(r)
  <2>1. /\ reported' = [reported EXCEPT ![CraneOf[r]] = @ \cup {ReporterOf[r]}]
        /\ reported' \in [Cranes -> SUBSET Reporters]
        /\ status' \in [Cranes -> {"active", "gone"}]
        /\ GoneAtThreshold'
    BY <1>6, RecordStep DEF Commit
  <2>2. TypeOK'
    BY <1>0, <1>6, <2>1 DEF Commit, Respond, TypeOK, Open
  <2>3. OneReportEach'
    BY <1>0, <1>6 DEF Commit, Respond, TypeOK, Inv, OneReportEach
  <2>4. QED
    BY <1>0, <1>6, <2>1, <2>2, <2>3 DEF Commit, Respond, TypeOK, Inv
<1>7. CASE Fails(r)
  <2>1. CASE UNCHANGED <<reported, status>>
    <3>1. TypeOK'
      BY <1>0, <1>7, <2>1 DEF Fails, Respond, TypeOK, Open
    <3>2. GoneAtThreshold' /\ OneReportEach'
      BY <1>0, <1>7, <2>1, QuietStep DEF Fails, Respond, TypeOK
    <3>3. QED
      BY <1>0, <1>7, <2>1, <3>1, <3>2 DEF Fails, Respond, TypeOK, Inv
  <2>2. CASE rpc[r] = "commit" /\ Record(r)
    <3>1. /\ reported' = [reported EXCEPT ![CraneOf[r]] = @ \cup {ReporterOf[r]}]
          /\ reported' \in [Cranes -> SUBSET Reporters]
          /\ status' \in [Cranes -> {"active", "gone"}]
          /\ GoneAtThreshold'
      BY <2>2, RecordStep
    <3>2. TypeOK'
      BY <1>0, <1>7, <3>1 DEF Fails, Respond, TypeOK, Open
    <3>3. OneReportEach'
      BY <1>0, <1>7 DEF Fails, Respond, TypeOK, Inv, OneReportEach
    <3>4. QED
      BY <1>0, <1>7, <2>2, <3>1, <3>2, <3>3 DEF Fails, Respond, TypeOK, Inv
  <2>3. QED
    BY <1>7, <2>1, <2>2 DEF Fails
<1>8. QED
  BY <1>1, <1>2, <1>3, <1>4, <1>5, <1>6, <1>7 DEF ReportStep

\* The invariant holds in every reachable state of report_crane_as_gone.
THEOREM Invariance == Spec => []Inv
<1>1. Inv /\ [Next]_vars => Inv'
  <2>1. SUFFICES ASSUME Inv, [Next]_vars PROVE Inv'
    OBVIOUS
  <2>2. CASE \E r \in Requests : ReportStep(r)
    BY <2>1, <2>2, StepInv
  <2>3. CASE UNCHANGED vars
    BY <2>1, <2>3 DEF vars, Inv, TypeOK, GoneAtThreshold, OneReportEach
  <2>4. QED
    BY <2>1, <2>2, <2>3 DEF Next, Finished
<1>2. QED
  BY <1>1, InitInv, PTL DEF Spec

\* report_crane_as_gone flips a crane at the threshold, however its requests
\* interleave and wherever they fail.
THEOREM GoneAtThresholdHolds == Spec => []GoneAtThreshold
<1>1. Inv => GoneAtThreshold
  BY DEF Inv
<1>2. QED
  BY <1>1, Invariance, PTL

\* report_crane_as_gone records one report of a crane for an address.
THEOREM OneReportEachHolds == Spec => []OneReportEach
<1>1. Inv => OneReportEach
  BY DEF Inv
<1>2. QED
  BY <1>1, Invariance, PTL
=============================================================================
