------------------------ MODULE CraneCreationProofs ------------------------
(***************************************************************************)
(* For any requests, any notion of near and any use of the override:       *)
(* clients that wait for their former request make no unwanted duplicate,  *)
(* whatever commits are lost.                                              *)
(***************************************************************************)
EXTENDS CraneCreation, TLAPS

\* There are neither cranes nor requests at first.
LEMMA InitInv == Init => Inv
  BY ClientAssumption
  DEF Init, Inv, TypeOK, SerialRequestsDoNotDuplicate, NoUnwantedDuplicate, Open

\* A step that inserts no row.
LEMMA QuietStep ==
  ASSUME Inv, UNCHANGED cranes, NEW r \in Requests, cpc[r] # "done",
         NEW pc \in {"check", "geocode", "insert", "done"}, cpc' = [cpc EXCEPT ![r] = pc],
         reply' \in [Requests -> {"none", "created", "duplicate", "error"}],
         pc = "check" => (Serial => \A s \in Neighbours(r) : cpc[s] \notin Open),
         pc # "check" => cpc[r] \in Open,
         pc = "geocode" => r \in Override \/ ~PossibleDuplicate(r),
         pc = "insert" => cpc[r] = "geocode"
  PROVE  Inv'
<1>1. TypeOK'
  BY DEF Inv, TypeOK, Open
<1>2. SerialRequestsDoNotDuplicate'
  BY DEF Inv, SerialRequestsDoNotDuplicate, NoUnwantedDuplicate
<1>3. ASSUME NEW t \in Requests
      PROVE  /\ cpc'[t] # "done" => t \notin cranes'
             /\ Serial /\ t \notin Override /\ cpc'[t] \in {"geocode", "insert"} =>
                  Neighbours(t) \cap cranes' = {}
  BY DEF Inv, TypeOK, PossibleDuplicate
<1>4. ASSUME NEW t \in Requests, Serial, cpc'[t] \in Open, NEW s \in Neighbours(t),
             cpc'[s] \in Open
      PROVE  s = t
  <2>1. s \in Requests /\ t \in Neighbours(s)
    BY <1>4, NearAssumption DEF Neighbours
  <2>2. cpc[t] \in Open /\ cpc[s] \in Open => s = t
    BY <1>4 DEF Inv
  <2>3. QED
    BY <1>4, <2>1, <2>2 DEF Inv, TypeOK, Open
<1>5. QED
  BY <1>1, <1>2, <1>3, <1>4 DEF Inv

\* The insert, whether the commit is answered or not: with Serial nobody near
\* was between check and insert, so what the check found is still so.
LEMMA InsertStep ==
  ASSUME Inv, NEW r \in Requests, cpc[r] = "insert", cpc' = [cpc EXCEPT ![r] = "done"],
         reply' \in [Requests -> {"none", "created", "duplicate", "error"}],
         cranes' = cranes \cup {r}
  PROVE  Inv'
<1>1. TypeOK'
  BY DEF Inv, TypeOK, Open
<1>2. ASSUME Serial, NEW t \in cranes' \ Override, NEW s \in cranes' \ Override,
             <<t, s>> \in Near
      PROVE  t = s
  <2>1. t \in Requests /\ s \in Requests /\ <<s, t>> \in Near
    BY <1>2, NearAssumption DEF Inv, TypeOK
  <2>2. r \notin Override => Neighbours(r) \cap cranes = {}
    BY <1>2 DEF Inv
  <2>3. QED
    BY <1>2, <2>1, <2>2 DEF Inv, SerialRequestsDoNotDuplicate, NoUnwantedDuplicate, Neighbours
<1>3. SerialRequestsDoNotDuplicate'
  BY <1>2 DEF SerialRequestsDoNotDuplicate, NoUnwantedDuplicate
<1>4. ASSUME NEW t \in Requests
      PROVE  /\ cpc'[t] # "done" => t \notin cranes'
             /\ Serial /\ cpc'[t] \in Open =>
                  \A s \in Neighbours(t) : cpc'[s] \in Open => s = t
  BY DEF Inv, TypeOK, Open, Neighbours
<1>5. ASSUME NEW t \in Requests, Serial, t \notin Override,
             cpc'[t] \in {"geocode", "insert"}
      PROVE  Neighbours(t) \cap cranes' = {}
  <2>1. t # r /\ cpc[t] \in Open /\ cpc[r] \in Open /\ Neighbours(t) \cap cranes = {}
    BY <1>5 DEF Inv, TypeOK, Open
  <2>2. r \notin Neighbours(t)
    BY <1>5, <2>1 DEF Inv
  <2>3. QED
    BY <2>1, <2>2
<1>6. QED
  BY <1>1, <1>3, <1>4, <1>5 DEF Inv

\* In every reachable state the invariant holds.
THEOREM Invariance == Spec => []Inv
<1>1. Inv /\ [Next]_vars => Inv'
  <2>1. SUFFICES ASSUME Inv, [Next]_vars PROVE Inv'
    OBVIOUS
  <2>2. ASSUME NEW r \in Requests, Arrive(r) PROVE Inv'
    BY <2>1, <2>2, QuietStep DEF Arrive, Goto, Inv, TypeOK, Open
  <2>3. ASSUME NEW r \in Requests, CheckDuplicates(r) PROVE Inv'
    BY <2>1, <2>3, QuietStep DEF CheckDuplicates, Goto, Inv, TypeOK, Open
  <2>4. ASSUME NEW r \in Requests, DuplicateWarning(r) PROVE Inv'
    BY <2>1, <2>4, QuietStep DEF DuplicateWarning, Respond, Inv, TypeOK, Open
  <2>5. ASSUME NEW r \in Requests, ReverseGeocode(r) PROVE Inv'
    BY <2>1, <2>5, QuietStep DEF ReverseGeocode, Goto, Inv, TypeOK, Open
  <2>6. ASSUME NEW r \in Requests, InsertCrane(r) PROVE Inv'
    BY <2>1, <2>6, InsertStep DEF InsertCrane, Respond, Inv, TypeOK
  <2>7. ASSUME NEW r \in Requests, Fails(r) PROVE Inv'
    <3>1. CASE UNCHANGED cranes
      BY <2>1, <2>7, <3>1, QuietStep DEF Fails, Respond, Inv, TypeOK, Open
    <3>2. CASE cpc[r] = "insert" /\ cranes' = cranes \cup {r}
      BY <2>1, <2>7, <3>2, InsertStep DEF Fails, Respond, Inv, TypeOK
    <3>3. QED
      BY <2>7, <3>1, <3>2 DEF Fails
  <2>8. CASE UNCHANGED vars
    BY <2>1, <2>8 DEF vars, Inv, TypeOK, SerialRequestsDoNotDuplicate, NoUnwantedDuplicate,
                      Neighbours
  <2>9. QED
    BY <2>1, <2>2, <2>3, <2>4, <2>5, <2>6, <2>7, <2>8 DEF Next, Finished
<1>2. QED
  BY <1>1, InitInv, PTL DEF Spec

\* Clients that wait for their former request to end never make two cranes near
\* each other without having overridden the warning.
THEOREM SerialRequestsDoNotDuplicateHolds == Spec => []SerialRequestsDoNotDuplicate
<1>1. Inv => SerialRequestsDoNotDuplicate
  BY DEF Inv
<1>2. QED
  BY <1>1, Invariance, PTL
=============================================================================
