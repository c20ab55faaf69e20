-------------------------- MODULE AdminAuthProofs --------------------------
(***************************************************************************)
(* For any number of accounts, operators, handlers and tokens and any time *)
(* to live: the invariants of AdminAuth, and that it implements            *)
(* AdminSessions.                                                          *)
(***************************************************************************)
EXTENDS AdminAuth, TLAPS

\* There are neither accounts nor sessions that have not expired at first.
LEMMA InitInv == Init => Inv
  BY SentinelAssumption, StaleAssumption, TimeAssumption
  DEF Init, Inv, TypeOK, RevokedStaysRevoked, BlockedButInFlight, AdmittedOf,
      CreatedIsTheirs, HandlerInv, Login, Admitted, Issuing

\* The operators touch neither handlers nor tokens.
LEMMA ProvisionInv ==
  ASSUME Inv, NEW o \in Operators,
         ProvisionCheck(o) \/ ProvisionInsert(o) \/ ProvisionFails(o)
  PROVE  Inv'
<1> USE DEF OperatorAt
<1>1. oname[o] \in Accounts
  BY DEF Inv, TypeOK
<1>2. TypeOK'
  BY <1>1 DEF Inv, TypeOK, ProvisionCheck, ProvisionInsert, ProvisionFails,
     tokenVars, handlerVars
<1>3. CreatedIsTheirs'
  BY <1>1, SentinelAssumption
     DEF Inv, TypeOK, CreatedIsTheirs, ProvisionCheck, ProvisionInsert, ProvisionFails
<1>4. BlockedButInFlight'
  BY DEF Inv, TypeOK, BlockedButInFlight, AdmittedOf,
     ProvisionCheck, ProvisionInsert, ProvisionFails, tokenVars, handlerVars
<1>5. UNCHANGED <<clock, tokenVars, handlerVars, revoked>>
  BY DEF ProvisionCheck, ProvisionInsert, ProvisionFails
<1>6. QED
  BY <1>2, <1>3, <1>4, <1>5
     DEF Inv, RevokedStaysRevoked, HandlerInv, Issuing, tokenVars, handlerVars

\* Deactivating and reactivating an account keep the invariant.
LEMMA BlockInv ==
  ASSUME Inv, NEW a \in Accounts, Deactivate(a) \/ Reactivate(a)
  PROVE  Inv'
<1>1. TypeOK'
  BY DEF Inv, TypeOK, Deactivate, Reactivate, AdmittedOf, tokenVars, handlerVars
<1>2. BlockedButInFlight'
  BY DEF Inv, TypeOK, BlockedButInFlight, AdmittedOf, Deactivate, Reactivate,
     tokenVars, handlerVars
<1>3. UNCHANGED <<account, opc, oname, clock, tokenVars, handlerVars, revoked>>
  BY DEF Deactivate, Reactivate
<1>4. QED
  BY <1>1, <1>2, <1>3 DEF Inv, RevokedStaysRevoked, CreatedIsTheirs, HandlerInv,
     Issuing, tokenVars, handlerVars

\* A tick of the clock keeps the invariant.
LEMMA TickInv == Inv /\ Tick => Inv'
<1> SUFFICES ASSUME Inv, Tick PROVE Inv'
  OBVIOUS
<1>1. TypeOK'
  BY TimeAssumption DEF Inv, TypeOK, Tick, accountVars, tokenVars, handlerVars
<1>2. /\ UNCHANGED <<accountVars, tokenVars, handlerVars, revoked, inFlight>>
      /\ \A r \in Requests : since[r] <= clock => since'[r] <= clock'
  BY TimeAssumption DEF Inv, TypeOK, Tick, handlerVars
<1>3. QED
  BY <1>1, <1>2 DEF Inv, RevokedStaysRevoked, BlockedButInFlight, AdmittedOf,
     CreatedIsTheirs, HandlerInv, Issuing, accountVars, tokenVars, handlerVars

-----------------------------------------------------------------------------
\* The types after a step of handler r that touches no account.
LEMMA HandlerTypes ==
  ASSUME Inv, NEW r \in Requests, Arrive(r) \/ Proceed(r) \/ RequestFails(r)
  PROVE  TypeOK'
<1> USE SentinelAssumption, TimeAssumption
<1> USE DEF Inv, TypeOK, Goto, Close, accountVars, tokenVars, handlerVars, Login, Admitted
<1>1. ASSUME NEW a \in Accounts, NEW p \in Operators, LoginRead(r, a, p)
      PROVE  TypeOK'
  BY <1>1 DEF LoginRead
<1>2. CASE LoginRefused(r)
  BY <1>2 DEF LoginRefused
<1>3. CASE LoginAccepted(r)
  BY <1>3 DEF LoginAccepted
<1>4. CASE LoginSweep(r) \/ \E t \in Tokens : SweepRow(r, t)
  BY <1>4 DEF LoginSweep, SweepRow
<1>5. CASE LoginCommit(r)
  BY <1>5 DEF LoginCommit, HandlerInv
<1>6. ASSUME NEW t \in known, NEW at \in {"work", "sign_out"}, RequireAdmin(r, t, at)
      PROVE  TypeOK'
  BY <1>6 DEF RequireAdmin
<1>7. CASE AdminWork(r)
  BY <1>7 DEF AdminWork
<1>8. CASE SignOut(r)
  BY <1>8 DEF SignOut
<1>9. CASE SignOutCommit(r)
  BY <1>9 DEF SignOutCommit, HandlerInv
<1>10. CASE RequestFails(r)
  BY <1>10 DEF RequestFails
<1>11. QED
  BY <1>1, <1>2, <1>3, <1>4, <1>5, <1>6, <1>7, <1>8, <1>9, <1>10
     DEF Arrive, Proceed

-----------------------------------------------------------------------------
\* Every handler but r keeps what it knows when r reads, decides or fails.
LEMMA QuietInv ==
  ASSUME Inv, NEW r \in Requests, TypeOK',
         UNCHANGED <<accountVars, clock, tokenVars, inFlight, revoked>>,
         \A q \in Requests \ {r} :
           /\ pc'[q] = pc[q] /\ user'[q] = user[q] /\ since'[q] = since[q]
           /\ tok'[q] = tok[q] /\ doomed'[q] = doomed[q],
         doomed'[r] = {},
         pc'[r] \in {"idle", "verify", "sweep"},
         pc'[r] = "sweep" => since'[r] <= clock,
         pc'[r] \in Login => user'[r] \in Accounts
  PROVE  Inv'
<1> USE DEF accountVars, tokenVars, Login, Admitted
<1>1. BlockedButInFlight'
  BY DEF Inv, BlockedButInFlight, AdmittedOf
<1>2. ASSUME NEW q \in Requests \ {r} PROVE HandlerInv(q)'
  BY <1>2 DEF Inv, HandlerInv, Issuing
<1>3. HandlerInv(r)'
  BY DEF Inv, HandlerInv
<1>4. RevokedStaysRevoked' /\ CreatedIsTheirs'
  BY DEF Inv, RevokedStaysRevoked, CreatedIsTheirs
<1>5. QED
  BY <1>1, <1>2, <1>3, <1>4 DEF Inv

\* The read of the account at login keeps the invariant.
LEMMA LoginReadInv ==
  ASSUME Inv, NEW r \in Requests, NEW a \in Accounts, NEW p \in Operators,
         LoginRead(r, a, p)
  PROVE  Inv'
<1>1. TypeOK'
  BY HandlerTypes DEF Arrive, Proceed
<1>2. doomed[r] = {}
  BY DEF Inv, HandlerInv, LoginRead
<1>3. QED
  BY <1>1, <1>2, QuietInv DEF LoginRead, Goto, Inv, TypeOK

\* A request that ends without a commit keeps the invariant.
LEMMA EndInv ==
  ASSUME Inv, NEW r \in Requests, Close(r),
         LoginRefused(r) \/ AdminWork(r) \/ RequestFails(r)
  PROVE  Inv'
<1>1. TypeOK'
  BY HandlerTypes DEF Arrive, Proceed
<1>2. QED
  BY <1>1, QuietInv DEF LoginRefused, AdminWork, RequestFails, Close, Goto, Inv, TypeOK, Login

\* The insert of a session, not yet committed, keeps the invariant.
LEMMA LoginAcceptedInv ==
  ASSUME Inv, NEW r \in Requests, LoginAccepted(r)
  PROVE  Inv'
<1>1. TypeOK'
  BY HandlerTypes DEF Arrive, Proceed
<1>2. doomed[r] = {} /\ user[r] \in Accounts
  BY DEF Inv, HandlerInv, LoginAccepted, Login
<1>3. QED
  BY <1>1, <1>2, QuietInv, TimeAssumption DEF LoginAccepted, Goto, Inv, TypeOK

\* A sweep comes to rows that have expired, one at a time, and to nobody else's.
LEMMA SweepRowInv ==
  ASSUME Inv, NEW r \in Requests, NEW t \in Tokens, SweepRow(r, t)
  PROVE  Inv'
<1> USE DEF accountVars, tokenVars, Login, Admitted
<1>1. TypeOK'
  BY HandlerTypes DEF Arrive, Proceed
<1>2. /\ pc[r] = "sweep" /\ t \in rows /\ expires[t] <= since[r]
      /\ doomed' = [doomed EXCEPT ![r] = doomed[r] \cup {t}]
      /\ \A q \in Requests \ {r} : t \notin doomed[q]
      /\ UNCHANGED <<accountVars, clock, tokenVars, pc, user, since, tok, revoked, inFlight>>
  BY DEF SweepRow, Expired, Locked
<1>3. RevokedStaysRevoked' /\ BlockedButInFlight' /\ CreatedIsTheirs'
  BY <1>2 DEF Inv, RevokedStaysRevoked, BlockedButInFlight, AdmittedOf, CreatedIsTheirs
<1>4. ASSUME NEW q \in Requests PROVE HandlerInv(q)'
  <2>1. /\ HandlerInv(q) /\ doomed'[r] = doomed[r] \cup {t}
        /\ \A p \in Requests \ {r} : doomed'[p] = doomed[p]
    BY <1>2 DEF Inv, TypeOK
  <2>2. \A p \in Requests \ {q} : doomed'[p] \cap doomed'[q] = {}
    BY <1>2, <2>1 DEF HandlerInv
  <2>3. QED
    BY <1>2, <2>1, <2>2 DEF HandlerInv, Issuing
<1>5. QED
  BY <1>1, <1>2, <1>3, <1>4 DEF Inv

\* The fresh token is nobody else's.
LEMMA LoginSweepInv ==
  ASSUME Inv, NEW r \in Requests, LoginSweep(r)
  PROVE  Inv'
<1> USE DEF accountVars, tokenVars, Login, Admitted
<1>1. TypeOK'
  BY HandlerTypes DEF Arrive, Proceed
<1>2. PICK t \in Tokens \ used : tok' = [tok EXCEPT ![r] = t] /\ used' = used \cup {t}
  BY DEF LoginSweep
<1>3. /\ pc[r] = "sweep" /\ pc' = [pc EXCEPT ![r] = "login_commit"]
      /\ UNCHANGED <<accountVars, clock, rows, owner, expires, known, user, since, doomed,
                     revoked, inFlight>>
  BY DEF LoginSweep, Goto
<1>4. RevokedStaysRevoked'
  BY <1>2, <1>3 DEF Inv, TypeOK, RevokedStaysRevoked
<1>5. BlockedButInFlight' /\ CreatedIsTheirs'
  BY <1>2, <1>3 DEF Inv, TypeOK, BlockedButInFlight, AdmittedOf, CreatedIsTheirs
<1>6. ASSUME NEW q \in Requests \ {r} PROVE HandlerInv(q)'
  BY <1>2, <1>3, <1>6 DEF Inv, TypeOK, HandlerInv, Issuing
<1>7. \A q \in Requests : pc[q] = "login_commit" => tok[q] # t
  BY <1>2 DEF Inv, HandlerInv
<1>8. HandlerInv(r)'
  BY <1>2, <1>3, <1>7 DEF Inv, TypeOK, HandlerInv, Issuing
<1>9. QED
  BY <1>1, <1>2, <1>3, <1>4, <1>5, <1>6, <1>8 DEF Inv

\* The commit of a login keeps the invariant.
LEMMA LoginCommitInv ==
  ASSUME Inv, NEW r \in Requests, LoginCommit(r)
  PROVE  Inv'
<1> USE DEF accountVars, tokenVars, Login, Admitted
<1>1. TypeOK'
  BY HandlerTypes DEF Arrive, Proceed
<1>2. /\ pc[r] = "login_commit"
      /\ pc' = [pc EXCEPT ![r] = "idle"] /\ doomed' = [doomed EXCEPT ![r] = {}]
      /\ tok' = [tok EXCEPT ![r] = NoToken]
      /\ rows' = (rows \ doomed[r]) \cup {tok[r]}
      /\ owner' = [owner EXCEPT ![tok[r]] = user[r]]
      /\ expires' = [expires EXCEPT ![tok[r]] = since[r] + TTL]
      /\ known' \subseteq known \cup {tok[r]} /\ known \subseteq known'
      /\ user' = [user EXCEPT ![r] = Nobody] /\ since' = [since EXCEPT ![r] = 0]
      /\ UNCHANGED <<accountVars, clock, used, revoked, inFlight>>
  BY DEF LoginCommit, Close, Goto
<1>3. /\ tok[r] \in used \ (rows \cup known \cup revoked)
      /\ \A q \in Issuing : tok[q] = tok[r] => q = r
  BY <1>2 DEF Inv, HandlerInv
<1>4. RevokedStaysRevoked'
  BY <1>2, <1>3 DEF Inv, TypeOK, RevokedStaysRevoked
<1>5. BlockedButInFlight' /\ CreatedIsTheirs'
  <2>1. \A q \in Requests : pc'[q] \in Admitted =>
          /\ pc[q] \in Admitted /\ tok'[q] = tok[q] /\ owner'[tok[q]] = owner[tok[q]]
    BY <1>2, <1>3 DEF Inv, TypeOK, HandlerInv
  <2>2. QED
    BY <1>2, <2>1 DEF Inv, BlockedButInFlight, AdmittedOf, CreatedIsTheirs
<1>6. ASSUME NEW q \in Requests \ {r} PROVE HandlerInv(q)'
  <2>1. /\ pc'[q] = pc[q] /\ doomed'[q] = doomed[q] /\ tok'[q] = tok[q]
        /\ since'[q] = since[q] /\ user'[q] = user[q]
    BY <1>2 DEF Inv, TypeOK
  <2>2. HandlerInv(q) /\ HandlerInv(r)
    BY DEF Inv
  <2>3. pc[q] = "login_commit" =>
          /\ tok[q] \in used \ (rows' \cup known' \cup revoked)
          /\ \A t \in doomed[q] : t \in rows' /\ expires'[t] <= since[q]
    BY <1>2, <1>3, <2>2 DEF HandlerInv, Issuing, Inv, TypeOK
  <2>4. pc[q] = "sign_out_commit" => doomed[q] = {tok[q]} \cap rows'
    BY <1>2, <1>3, <2>2 DEF HandlerInv
  <2>5. pc[q] = "login_commit" => \A p \in Issuing' : tok'[p] = tok'[q] => p = q
    BY <1>2, <1>3, <2>1, <2>2 DEF HandlerInv, Issuing, Inv, TypeOK
  <2>6. \A p \in Requests \ {q} : doomed'[p] \cap doomed'[q] = {}
    BY <1>2, <2>1, <2>2 DEF HandlerInv, Inv, TypeOK
  <2>7. QED
    BY <1>2, <2>1, <2>2, <2>3, <2>4, <2>5, <2>6 DEF HandlerInv
<1>7. HandlerInv(r)'
  BY <1>2 DEF Inv, TypeOK, HandlerInv
<1>8. QED
  BY <1>1, <1>2, <1>3, <1>4, <1>5, <1>6, <1>7 DEF Inv

\* The check of a token keeps the invariant.
LEMMA RequireAdminInv ==
  ASSUME Inv, NEW r \in Requests, NEW t \in known, NEW at \in {"work", "sign_out"},
         RequireAdmin(r, t, at)
  PROVE  Inv'
<1> USE DEF accountVars, tokenVars, Login, Admitted
<1>1. TypeOK'
  BY HandlerTypes DEF Arrive, Proceed
<1>2. /\ pc[r] = "idle" /\ pc' = [pc EXCEPT ![r] = at] /\ tok' = [tok EXCEPT ![r] = t]
      /\ owner[t] \in active /\ t \in used
      /\ UNCHANGED <<accountVars, clock, tokenVars, user, since, doomed, revoked, inFlight>>
  BY DEF RequireAdmin, Goto, MayEnter, Inv
<1>3. RevokedStaysRevoked' /\ CreatedIsTheirs'
  BY <1>2 DEF Inv, TypeOK, RevokedStaysRevoked, CreatedIsTheirs
<1>4. BlockedButInFlight'
  BY <1>2 DEF Inv, TypeOK, BlockedButInFlight, AdmittedOf
<1>5. ASSUME NEW q \in Requests PROVE HandlerInv(q)'
  BY <1>2, <1>5 DEF Inv, TypeOK, HandlerInv, Issuing
<1>6. QED
  BY <1>1, <1>2, <1>3, <1>4, <1>5 DEF Inv

\* The statement of a logout keeps the invariant.
LEMMA SignOutInv ==
  ASSUME Inv, NEW r \in Requests, SignOut(r)
  PROVE  Inv'
<1> USE DEF accountVars, tokenVars, Login, Admitted
<1>1. TypeOK'
  BY HandlerTypes DEF Arrive, Proceed
<1>2. /\ pc[r] = "sign_out" /\ pc' = [pc EXCEPT ![r] = "sign_out_commit"]
      /\ doomed' = [doomed EXCEPT ![r] = {tok[r]} \cap rows]
      /\ \A q \in Requests \ {r} : {tok[r]} \cap rows \cap doomed[q] = {}
      /\ UNCHANGED <<accountVars, clock, tokenVars, user, since, tok, revoked, inFlight>>
  BY DEF SignOut, Goto, Locked
<1>3. RevokedStaysRevoked' /\ CreatedIsTheirs'
  BY <1>2 DEF Inv, TypeOK, RevokedStaysRevoked, CreatedIsTheirs
<1>4. BlockedButInFlight'
  BY <1>2 DEF Inv, TypeOK, BlockedButInFlight, AdmittedOf
<1>5. ASSUME NEW q \in Requests PROVE HandlerInv(q)'
  BY <1>2, <1>5 DEF Inv, TypeOK, HandlerInv, Issuing
<1>6. QED
  BY <1>1, <1>2, <1>3, <1>4, <1>5 DEF Inv

\* The token of a logout was given to a client, so no login under way holds it.
LEMMA SignOutCommitInv ==
  ASSUME Inv, NEW r \in Requests, SignOutCommit(r)
  PROVE  Inv'
<1> USE DEF accountVars, tokenVars, Login, Admitted
<1>1. TypeOK'
  BY HandlerTypes DEF Arrive, Proceed
<1>2. /\ pc[r] = "sign_out_commit" /\ pc' = [pc EXCEPT ![r] = "idle"]
      /\ doomed' = [doomed EXCEPT ![r] = {}] /\ tok' = [tok EXCEPT ![r] = NoToken]
      /\ rows' = rows \ doomed[r] /\ revoked' \subseteq revoked \cup {tok[r]}
      /\ user' = [user EXCEPT ![r] = Nobody] /\ since' = [since EXCEPT ![r] = 0]
      /\ UNCHANGED <<accountVars, clock, owner, expires, used, known, inFlight>>
  BY DEF SignOutCommit, Close, Goto
<1>3. tok[r] \in used /\ tok[r] \in known /\ doomed[r] = {tok[r]} \cap rows
  BY <1>2 DEF Inv, HandlerInv
<1>4. RevokedStaysRevoked'
  BY <1>2, <1>3 DEF Inv, TypeOK, RevokedStaysRevoked, HandlerInv
<1>5. BlockedButInFlight' /\ CreatedIsTheirs'
  BY <1>2 DEF Inv, TypeOK, BlockedButInFlight, AdmittedOf, CreatedIsTheirs
<1>6. ASSUME NEW q \in Requests \ {r} PROVE HandlerInv(q)'
  BY <1>2, <1>3, <1>6 DEF Inv, TypeOK, HandlerInv, Issuing
<1>7. HandlerInv(r)'
  BY <1>2 DEF Inv, TypeOK, HandlerInv
<1>8. QED
  BY <1>1, <1>2, <1>3, <1>4, <1>5, <1>6, <1>7 DEF Inv

\* Every step of a handler keeps the invariant.
LEMMA HandlerStepInv ==
  ASSUME Inv, NEW r \in Requests, Arrive(r) \/ Proceed(r) \/ RequestFails(r)
  PROVE  Inv'
<1>1. CASE LoginRefused(r) \/ AdminWork(r) \/ RequestFails(r)
  BY <1>1, EndInv DEF LoginRefused, AdminWork, RequestFails
<1>2. QED
  BY <1>1, LoginReadInv, LoginAcceptedInv, SweepRowInv, LoginSweepInv, LoginCommitInv,
     RequireAdminInv, SignOutInv, SignOutCommitInv DEF Arrive, Proceed

\* Every step keeps the invariant.
LEMMA NextInv == Inv /\ [Next]_vars => Inv'
<1> SUFFICES ASSUME Inv, [Next]_vars PROVE Inv'
  OBVIOUS
<1>1. CASE UNCHANGED vars
  BY <1>1 DEF vars, accountVars, tokenVars, handlerVars, Inv, TypeOK, RevokedStaysRevoked,
     BlockedButInFlight, AdmittedOf, CreatedIsTheirs, HandlerInv, Issuing
<1>2. CASE Next
  BY <1>2, ProvisionInv, BlockInv, TickInv, HandlerStepInv DEF Next
<1>3. QED
  BY <1>1, <1>2

\* The inductive invariant holds for any values of the constants.
THEOREM SpecInv == Spec => []Inv
  BY InitInv, NextInv, PTL DEF Spec

\* No login or sweep under way brings back a session whose logout was answered.
THEOREM RevokedStaysRevokedHolds == Spec => []RevokedStaysRevoked
<1>1. Inv => RevokedStaysRevoked
  BY DEF Inv
<1>2. QED
  BY <1>1, SpecInv, PTL

\* While an account is blocked, only requests admitted before are at work for it.
THEOREM BlockedButInFlightHolds == Spec => []BlockedButInFlight
<1>1. Inv => BlockedButInFlight
  BY DEF Inv
<1>2. QED
  BY <1>1, SpecInv, PTL

\* Two operators who race for a username are not both told that they have it.
THEOREM CreatedIsTheirsHolds == Spec => []CreatedIsTheirs
<1>1. Inv => CreatedIsTheirs
  BY DEF Inv
<1>2. QED
  BY <1>1, SpecInv, PTL

\* A row that leaves the table has expired or is the row of a logout.
LEMMA EndsStep ==
  ASSUME Inv, [Next]_vars, NEW t \in rows \ rows'
  PROVE  expires[t] <= clock \/ \E r \in Requests : pc[r] = "sign_out_commit" /\ tok[r] = t
<1>1. \/ \E r \in Requests : LoginCommit(r) \/ SignOutCommit(r)
      \/ rows' = rows
  BY DEF Next, vars, tokenVars, Arrive, Proceed, ProvisionCheck, ProvisionInsert,
     ProvisionFails, Deactivate, Reactivate, Tick, LoginRead, LoginRefused, LoginAccepted,
     SweepRow, LoginSweep, RequireAdmin, AdminWork, SignOut, RequestFails
<1>2. ASSUME NEW r \in Requests, LoginCommit(r) PROVE expires[t] <= clock
  <2>1. t \in doomed[r] /\ pc[r] = "login_commit"
    BY <1>2 DEF LoginCommit
  <2>2. expires[t] <= since[r] /\ since[r] <= clock
    BY <2>1 DEF Inv, HandlerInv
  <2>3. QED
    BY <2>2, TimeAssumption DEF Inv, TypeOK
<1>3. ASSUME NEW r \in Requests, SignOutCommit(r)
      PROVE  pc[r] = "sign_out_commit" /\ tok[r] = t
  BY <1>3 DEF SignOutCommit, Inv, HandlerInv
<1>4. QED
  BY <1>1, <1>2, <1>3

\* Nobody's live session ends by another one's login.
THEOREM EndsOnlyByLogoutHolds == Spec => EndsOnlyByLogout
<1>1. Inv /\ [Next]_vars =>
        [\A t \in rows \ rows' :
           \/ expires[t] <= clock
           \/ \E r \in Requests : pc[r] = "sign_out_commit" /\ tok[r] = t]_vars
  BY EndsStep
<1>2. QED
  BY <1>1, SpecInv, PTL DEF Spec, EndsOnlyByLogout

-----------------------------------------------------------------------------
(***************************************************************************)
(* The refinement.                                                         *)
(***************************************************************************)
LEMMA SessionsInit == Init => Sessions!SessionsInit
  BY SentinelAssumption, StaleAssumption, TimeAssumption
  DEF Init, Sessions!SessionsInit, Issuing, Admitted

AdmittedBy == [r \in Requests |-> IF pc[r] \in Admitted THEN tok[r] ELSE NoToken]
Opened == used \ {tok[r] : r \in Issuing}
Live == {t \in rows : expires[t] > clock}

\* A step that admits or ends no request, opens no session and moves no clock.
LEMMA SessionStutter ==
  ASSUME UNCHANGED <<clock, active, rows, owner, expires>>,
         Opened' = Opened, AdmittedBy' = AdmittedBy
  PROVE  UNCHANGED Sessions!sessionVars
  BY DEF Sessions!sessionVars, AdmittedBy, Opened

\* A step on accounts enables or disables one of them, or shows nothing.
LEMMA AccountStepSessions ==
  ASSUME Inv,
         \/ \E o \in Operators : ProvisionCheck(o) \/ ProvisionInsert(o) \/ ProvisionFails(o)
         \/ \E a \in Accounts : Deactivate(a) \/ Reactivate(a)
  PROVE  [Sessions!SessionsNext]_(Sessions!sessionVars)
<1>1. UNCHANGED <<clock, rows, owner, expires, used, pc, tok>>
  BY DEF ProvisionCheck, ProvisionInsert, ProvisionFails, Deactivate, Reactivate,
     tokenVars, handlerVars
<1>2. UNCHANGED <<Opened, AdmittedBy, Live>>
  BY <1>1 DEF Opened, AdmittedBy, Live, Issuing
<1>3. \/ active' = active
      \/ \E a \in Accounts : active' = active \cup {a} \/ active' = active \ {a}
  BY DEF ProvisionCheck, ProvisionInsert, ProvisionFails, Deactivate, Reactivate, Inv, TypeOK
<1>4. QED
  BY <1>1, <1>2, <1>3 DEF Sessions!SessionsNext, Sessions!Enable, Sessions!Disable,
     Sessions!sessionVars, Opened, AdmittedBy, Live

\* A tick of the clock is the passing of time.
LEMMA TickSessions == Inv /\ Tick => Sessions!PassTime
  BY TimeAssumption DEF Inv, TypeOK, Tick, Sessions!PassTime, Issuing,
     accountVars, tokenVars, handlerVars

\* The steps of a login up to its commit, and the deletion of a logout, show nothing.
LEMMA QuietSessions ==
  ASSUME Inv, NEW r \in Requests,
         \/ \E a \in Accounts, p \in Operators : LoginRead(r, a, p)
         \/ \E t \in Tokens : SweepRow(r, t)
         \/ LoginRefused(r) \/ LoginAccepted(r) \/ LoginSweep(r) \/ SignOut(r)
  PROVE  UNCHANGED Sessions!sessionVars
<1> USE DEF Login, Admitted, Goto, Close, accountVars, tokenVars
<1>1. UNCHANGED <<clock, active, rows, owner, expires>>
  BY DEF LoginRead, LoginRefused, LoginAccepted, SweepRow, LoginSweep, SignOut
<1>2. AdmittedBy' = AdmittedBy
  <2>1. \A q \in Requests : /\ pc'[q] \in Admitted <=> pc[q] \in Admitted
                            /\ pc[q] \in Admitted => tok'[q] = tok[q]
    BY DEF LoginRead, LoginRefused, LoginAccepted, SweepRow, LoginSweep, SignOut, Inv, TypeOK
  <2>2. QED
    BY <2>1 DEF AdmittedBy
<1>3. Opened' = Opened
  <2>1. CASE LoginSweep(r)
    <3>1. PICK t \in Tokens \ used : tok' = [tok EXCEPT ![r] = t] /\ used' = used \cup {t}
      BY <2>1 DEF LoginSweep
    <3>2. Issuing' = Issuing \cup {r} /\ r \notin Issuing
      BY <2>1 DEF LoginSweep, Issuing, Inv, TypeOK
    <3>3. {tok'[q] : q \in Issuing'} = {tok[q] : q \in Issuing} \cup {t}
      BY <3>1, <3>2 DEF Issuing, Inv, TypeOK
    <3>4. QED
      BY <3>1, <3>3 DEF Opened
  <2>2. CASE ~LoginSweep(r)
    <3>1. Issuing' = Issuing /\ used' = used /\ \A q \in Issuing : tok'[q] = tok[q]
      BY <2>2 DEF LoginRead, LoginRefused, LoginAccepted, SweepRow, SignOut, Issuing, Inv, TypeOK
    <3>2. QED
      BY <3>1 DEF Opened
  <2>3. QED
    BY <2>1, <2>2
<1>4. QED
  BY <1>1, <1>2, <1>3, SessionStutter

\* The end of a login under way gives its token to the opened ones.
LEMMA IssuingEnds ==
  ASSUME Inv, NEW r \in Issuing, Goto(r, "idle"), tok' = [tok EXCEPT ![r] = NoToken],
         used' = used
  PROVE  tok[r] \notin Opened /\ Opened' = Opened \cup {tok[r]} /\ AdmittedBy' = AdmittedBy
<1>1. /\ Issuing' = Issuing \ {r} /\ r \in Requests /\ pc[r] = "login_commit"
      /\ \A q \in Issuing' : tok'[q] = tok[q]
  BY DEF Issuing, Goto, Inv, TypeOK
<1>2. tok[r] \in used /\ \A q \in Issuing : tok[q] = tok[r] => q = r
  BY <1>1 DEF Inv, HandlerInv
<1>3. {tok'[q] : q \in Issuing'} = {tok[q] : q \in Issuing} \ {tok[r]}
  BY <1>1, <1>2
<1>4. AdmittedBy' = AdmittedBy
  BY <1>1 DEF Goto, Inv, TypeOK, AdmittedBy, Admitted
<1>5. QED
  BY <1>2, <1>3, <1>4 DEF Opened

\* The commit of a login opens a session.
LEMMA LoginCommitSessions ==
  ASSUME Inv, NEW r \in Requests, LoginCommit(r),
         NEW t0, t0 = tok[r], NEW a, a = user[r], NEW d, d = since[r] + TTL
  PROVE  Sessions!OpenSession(t0, a, d)
<1>1. r \in Issuing /\ pc[r] = "login_commit"
  BY DEF LoginCommit, Issuing
<1>2. tok[r] \notin Opened /\ Opened' = Opened \cup {tok[r]} /\ AdmittedBy' = AdmittedBy
  BY <1>1, IssuingEnds DEF LoginCommit, Close
<1>3. /\ since[r] \in Nat /\ clock \in Nat /\ since[r] <= clock
      /\ tok[r] \notin rows /\ tok[r] \in Tokens
      /\ \A t \in doomed[r] : expires[t] <= since[r]
  BY <1>1, TimeAssumption DEF Inv, TypeOK, HandlerInv
<1>4. Live' = IF since[r] + TTL > clock THEN Live \cup {tok[r]} ELSE Live
  <2>1. rows \subseteq Tokens /\ \A t \in Tokens : expires[t] \in Nat
    BY TimeAssumption DEF Inv, TypeOK
  <2>2. ASSUME NEW t \in Tokens \ {tok[r]} PROVE t \in Live' <=> t \in Live
    BY <1>3, <2>1, <2>2 DEF LoginCommit, Live, Inv, TypeOK
  <2>3. tok[r] \in Live' <=> since[r] + TTL > clock
    BY <1>3, <2>1 DEF LoginCommit, Live, Inv, TypeOK
  <2>4. Live \subseteq Tokens /\ Live' \subseteq Tokens /\ tok[r] \notin Live
    BY <1>3, <2>1 DEF LoginCommit, Live
  <2>5. QED
    BY <2>2, <2>3, <2>4
<1>5. since[r] + TTL <= clock + TTL
  BY <1>3, TimeAssumption
<1>6. QED
  BY <1>2, <1>4, <1>5
     DEF LoginCommit, accountVars, Sessions!OpenSession, Opened, AdmittedBy, Live

\* An accepted token is an admission.
LEMMA RequireAdminSessions ==
  ASSUME Inv, NEW r \in Requests, NEW t \in known, NEW at \in {"work", "sign_out"},
         RequireAdmin(r, t, at)
  PROVE  Sessions!Admit(r, t)
<1>1. /\ AdmittedBy[r] = NoToken
      /\ AdmittedBy' = [AdmittedBy EXCEPT ![r] = t]
  BY DEF RequireAdmin, Goto, AdmittedBy, Admitted, Inv, TypeOK
<1>2. Issuing' = Issuing /\ \A q \in Issuing : tok'[q] = tok[q]
  BY DEF RequireAdmin, Goto, Issuing, Inv, TypeOK
<1>3. Opened' = Opened
  BY <1>2 DEF RequireAdmin, Opened, tokenVars
<1>4. QED
  BY <1>1, <1>3 DEF RequireAdmin, MayEnter, Sessions!Admit, AdmittedBy, Opened,
     accountVars, tokenVars

\* What an admitted request leaves behind when it ends.
LEMMA AdmittedEnds ==
  ASSUME Inv, NEW r \in Requests, pc[r] \in Admitted, Close(r), used' = used
  PROVE  /\ Opened' = Opened
         /\ AdmittedBy[r] = tok[r] /\ tok[r] # NoToken
         /\ AdmittedBy' = [AdmittedBy EXCEPT ![r] = NoToken]
<1>1. Issuing' = Issuing /\ \A q \in Issuing : tok'[q] = tok[q]
  BY DEF Close, Goto, Issuing, Inv, TypeOK, Admitted
<1>2. AdmittedBy' = [AdmittedBy EXCEPT ![r] = NoToken]
  BY DEF Close, Goto, AdmittedBy, Admitted, Inv, TypeOK
<1>3. tok[r] # NoToken
  BY SentinelAssumption DEF Inv, TypeOK, HandlerInv
<1>4. QED
  BY <1>1, <1>2, <1>3 DEF Opened, AdmittedBy

\* The commit of a logout closes the session.
LEMMA SignOutCommitSessions ==
  ASSUME Inv, NEW r \in Requests, SignOutCommit(r)
  PROVE  Sessions!CloseSession(r)
<1>1. pc[r] = "sign_out_commit" /\ doomed[r] = {tok[r]} \cap rows
  BY DEF SignOutCommit, Inv, HandlerInv
<1>2. /\ Opened' = Opened
      /\ AdmittedBy[r] = tok[r] /\ tok[r] # NoToken
      /\ AdmittedBy' = [AdmittedBy EXCEPT ![r] = NoToken]
  BY <1>1, AdmittedEnds DEF SignOutCommit, Admitted
<1>3. Live' = Live \ {tok[r]}
  BY <1>1 DEF SignOutCommit, Live
<1>4. QED
  BY <1>2, <1>3 DEF SignOutCommit, Sessions!CloseSession, Opened, AdmittedBy, Live, accountVars

\* The end of a request ends its admission, forgets a token, or shows nothing.
LEMMA EndSessions ==
  ASSUME Inv, NEW r \in Requests, AdminWork(r) \/ RequestFails(r)
  PROVE  \/ Sessions!Leave(r)
         \/ \E t \in Tokens : Sessions!Forget(t)
         \/ UNCHANGED Sessions!sessionVars
<1>1. Close(r) /\ UNCHANGED <<accountVars, clock, tokenVars>>
  BY DEF AdminWork, RequestFails
<1>2. CASE pc[r] \in Admitted
  <2>1. /\ Opened' = Opened
        /\ AdmittedBy[r] = tok[r] /\ tok[r] # NoToken
        /\ AdmittedBy' = [AdmittedBy EXCEPT ![r] = NoToken]
    BY <1>1, <1>2, AdmittedEnds DEF tokenVars
  <2>2. QED
    BY <1>1, <2>1 DEF Sessions!Leave, Opened, AdmittedBy, accountVars, tokenVars
<1>3. CASE pc[r] = "login_commit"
  <2>1. r \in Issuing /\ tok[r] \in Tokens
    BY <1>3 DEF Issuing, Inv, TypeOK, HandlerInv
  <2>2. tok[r] \notin Opened /\ Opened' = Opened \cup {tok[r]} /\ AdmittedBy' = AdmittedBy
    BY <1>1, <2>1, IssuingEnds DEF Close, tokenVars
  <2>3. PICK t \in Tokens : t = tok[r]
    BY <2>1
  <2>4. Sessions!Forget(t)
    BY <1>1, <2>1, <2>2, <2>3 DEF Sessions!Forget, Opened, AdmittedBy, accountVars, tokenVars
  <2>5. QED
    BY <2>4
<1>4. CASE pc[r] \notin Admitted \cup {"login_commit"}
  <2>1. Issuing' = Issuing /\ \A q \in Issuing : tok'[q] = tok[q]
    BY <1>1, <1>4 DEF Close, Goto, Issuing, Inv, TypeOK
  <2>2. AdmittedBy' = AdmittedBy
    BY <1>1, <1>4 DEF Close, Goto, AdmittedBy, Admitted, Inv, TypeOK
  <2>3. QED
    BY <1>1, <2>1, <2>2, SessionStutter DEF Opened, accountVars, tokenVars
<1>5. QED
  BY <1>2, <1>3, <1>4

\* Every step is a step of AdminSessions, or shows nothing.
LEMMA NextSessions ==
  Inv /\ [Next]_vars => [Sessions!SessionsNext]_(Sessions!sessionVars)
<1> SUFFICES ASSUME Inv, [Next]_vars PROVE [Sessions!SessionsNext]_(Sessions!sessionVars)
  OBVIOUS
<1>1. CASE UNCHANGED vars
  BY <1>1, SessionStutter DEF vars, accountVars, tokenVars, handlerVars, Opened, AdmittedBy,
     Issuing
<1>2. CASE Tick
  BY <1>2, TickSessions DEF Sessions!SessionsNext
<1>3. ASSUME NEW r \in Requests, LoginCommit(r) PROVE Sessions!SessionsNext
  <2>1. /\ tok[r] \in Tokens /\ user[r] \in Accounts
        /\ since[r] + TTL \in 0..(MaxTime + TTL)
    BY <1>3, TimeAssumption DEF LoginCommit, Login, Inv, TypeOK, HandlerInv
  <2>2. PICK t \in Tokens, a \in Accounts, d \in 0..(MaxTime + TTL) :
               t = tok[r] /\ a = user[r] /\ d = since[r] + TTL
    BY <2>1
  <2>3. Sessions!OpenSession(t, a, d)
    BY <1>3, <2>2, LoginCommitSessions
  <2>4. QED
    BY <2>3 DEF Sessions!SessionsNext
<1>4. ASSUME NEW r \in Requests, NEW t \in known, NEW at \in {"work", "sign_out"},
             RequireAdmin(r, t, at)
      PROVE  Sessions!SessionsNext
  BY <1>4, RequireAdminSessions DEF Sessions!SessionsNext, Inv, TypeOK
<1>5. ASSUME NEW r \in Requests, SignOutCommit(r) PROVE Sessions!SessionsNext
  BY <1>5, SignOutCommitSessions DEF Sessions!SessionsNext
<1>6. ASSUME NEW r \in Requests, AdminWork(r) \/ RequestFails(r)
      PROVE  [Sessions!SessionsNext]_(Sessions!sessionVars)
  BY <1>6, EndSessions DEF Sessions!SessionsNext
<1>7. ASSUME NEW r \in Requests, Arrive(r) \/ Proceed(r) \/ RequestFails(r)
      PROVE  [Sessions!SessionsNext]_(Sessions!sessionVars)
  <2>1. \/ \/ \E a \in Accounts, p \in Operators : LoginRead(r, a, p)
           \/ \E t \in Tokens : SweepRow(r, t)
           \/ LoginRefused(r) \/ LoginAccepted(r) \/ LoginSweep(r) \/ SignOut(r)
        \/ LoginCommit(r) \/ SignOutCommit(r) \/ AdminWork(r) \/ RequestFails(r)
        \/ \E t \in known, at \in {"work", "sign_out"} : RequireAdmin(r, t, at)
    BY <1>7, Zenon DEF Arrive, Proceed
  <2>2. QED
    BY <2>1, <1>3, <1>4, <1>5, <1>6, QuietSessions, Zenon
<1>8. QED
  BY <1>1, <1>2, <1>7, AccountStepSessions, Zenon DEF Next

\* Sign-in, logout, sweep and blocking are those of AdminSessions, in one step each.
THEOREM ImplementsSessionsHolds == Spec => ImplementsSessions
  BY SessionsInit, NextSessions, SpecInv, PTL DEF Spec, ImplementsSessions,
     Sessions!SessionsSpec
=============================================================================
