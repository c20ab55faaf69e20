---------------------------- MODULE CraneCreation ----------------------------
(***************************************************************************)
(* POST /cranes: create_crane looks for cranes within 100 metres, asks the *)
(* geocoder for the address, which may take seconds, and inserts the row.  *)
(* Neither a lock nor a constraint joins the look to the insert.           *)
(*                                                                         *)
(* A location matters only by which others are near it, so a request       *)
(* stands for its location and for the row it may insert.  Rows of crane   *)
(* are never deleted: no route calls delete_crane.  The status of a crane  *)
(* is not looked at, so a crane reported gone counts like any other.       *)
(***************************************************************************)
EXTENDS FiniteSets

CONSTANTS
  Requests,
  Near,         \* pairs of requests whose locations are within 100 metres
  Override,     \* the requests with override_duplicate_warning
  Serial        \* do requests for near locations come one after another?

ASSUME NearAssumption == /\ Near \subseteq Requests \X Requests
                         /\ \A r \in Requests : <<r, r>> \in Near
                         /\ \A r, s \in Requests : <<r, s>> \in Near => <<s, r>> \in Near
ASSUME ClientAssumption == Override \subseteq Requests /\ Serial \in BOOLEAN

VARIABLES
  cpc,          \* where each request is
  reply,        \* "created", "duplicate" (409) or "error"
  cranes        \* the requests whose crane row is committed

vars == <<cpc, reply, cranes>>

Open == {"check", "geocode", "insert"}

TypeOK ==
  /\ cpc \in [Requests -> {"start", "done"} \cup Open]
  /\ reply \in [Requests -> {"none", "created", "duplicate", "error"}]
  /\ cranes \subseteq Requests

Init ==
  /\ cpc = [r \in Requests |-> "start"]
  /\ reply = [r \in Requests |-> "none"]
  /\ cranes = {}

-----------------------------------------------------------------------------
Goto(r, pc) == cpc' = [cpc EXCEPT ![r] = pc] /\ UNCHANGED reply

Respond(r, a) == /\ cpc' = [cpc EXCEPT ![r] = "done"]
                 /\ reply' = [reply EXCEPT ![r] = a]

Neighbours(r) == {s \in Requests : <<r, s>> \in Near}

\* The request arrives; with Serial, once those for near locations have ended.
Arrive(r) ==
  /\ cpc[r] = "start"
  /\ Serial => \A s \in Neighbours(r) : cpc[s] \notin Open
  /\ Goto(r, "check")
  /\ UNCHANGED cranes

PossibleDuplicate(r) == Neighbours(r) \cap cranes # {}

\* Mutant: the answer of the query is not looked at.
CheckIgnored(r) ==
  /\ cpc[r] = "check"
  /\ Goto(r, "geocode")
  /\ UNCHANGED cranes

\* With the override the query is not made.
CheckDuplicates(r) ==
  /\ cpc[r] = "check"
  /\ r \in Override \/ ~PossibleDuplicate(r)
  /\ Goto(r, "geocode")
  /\ UNCHANGED cranes

DuplicateWarning(r) ==
  /\ cpc[r] = "check"
  /\ r \notin Override
  /\ PossibleDuplicate(r)
  /\ Respond(r, "duplicate")
  /\ UNCHANGED cranes

\* reverse_geocode answers or raises GeocodeRetrievalError; either way the
\* crane is inserted, in the second case without a city.
ReverseGeocode(r) ==
  /\ cpc[r] = "geocode"
  /\ Goto(r, "insert")
  /\ UNCHANGED cranes

InsertCrane(r) ==
  /\ cpc[r] = "insert"
  /\ cranes' = cranes \cup {r}
  /\ Respond(r, "created")

\* A database error, an answer of the geocoder that is no JSON object, or the
\* death of the server.  When it is the commit that fails, the row may be there.
Fails(r) ==
  /\ cpc[r] \in Open
  /\ \/ UNCHANGED cranes
     \/ cpc[r] = "insert" /\ cranes' = cranes \cup {r}
  /\ Respond(r, "error")

Finished == (\A r \in Requests : cpc[r] = "done") /\ UNCHANGED vars

Next ==
  \/ \E r \in Requests :
       \/ Arrive(r) \/ CheckDuplicates(r) \/ DuplicateWarning(r)
       \/ ReverseGeocode(r) \/ InsertCrane(r) \/ Fails(r)
  \/ Finished

Spec == Init /\ [][Next]_vars

-----------------------------------------------------------------------------
\* No two cranes stand within 100 metres of each other unless the client of one
\* of them asked for it.
NoUnwantedDuplicate ==
  \A r, s \in cranes \ Override : <<r, s>> \in Near => r = s

\* The same for clients that try again near by only when the former request has
\* ended: a retry whose first try was committed and answered by an error, or
\* not at all, does not make a second crane.
SerialRequestsDoNotDuplicate == Serial => NoUnwantedDuplicate

\* The inductive invariant: with Serial, a request past its check is alone near
\* its location and what it found is still so.
Inv ==
  /\ TypeOK
  /\ SerialRequestsDoNotDuplicate
  /\ \A r \in Requests :
       /\ cpc[r] # "done" => r \notin cranes
       /\ Serial /\ cpc[r] \in Open =>
            \A s \in Neighbours(r) : cpc[s] \in Open => s = r
       /\ Serial /\ r \notin Override /\ cpc[r] \in {"geocode", "insert"} =>
            Neighbours(r) \cap cranes = {}
=============================================================================
