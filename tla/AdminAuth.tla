------------------------------ MODULE AdminAuth ------------------------------
(***************************************************************************)
(* Admin accounts and bearer sessions: the command app.admin, which        *)
(* provisions an account, POST /admin/login, which looks the account up,   *)
(* spends a while on the password hash and then issues a token, the check  *)
(* of require_admin before the work of an admin endpoint, and              *)
(* POST /admin/logout.  The operator changes is_active in the database.    *)
(*                                                                         *)
(* The database runs at READ COMMITTED: a deletion is seen when it is      *)
(* committed, and a DELETE locks its rows one after another, waiting for   *)
(* those that another one has locked; of transactions that wait for one    *)
(* another in a circle the database makes one fail.                        *)
(*                                                                         *)
(* A password is as good as the operator who chose it, so an account holds *)
(* the operator that created it.  Tokens are random, so a fresh one was    *)
(* never used before; all readings of the clock come from one clock that   *)
(* never goes back.  A request that is refused changes nothing.            *)
(***************************************************************************)
EXTENDS Integers, FiniteSets

CONSTANTS
  Accounts,     \* usernames
  Operators,    \* runs of app.admin, each with its password
  Nobody,       \* "there is no such account", or no such operator
  Requests,     \* request handlers, each of which serves one request at a time
  Tokens,
  NoToken,
  Stale,        \* tokens of other accounts, expired and not yet swept
  TTL,          \* ADMIN_TOKEN_TTL_SECONDS
  MaxTime       \* bound of the clock

ASSUME SentinelAssumption == Nobody \notin Operators \cup Accounts /\ NoToken \notin Tokens
ASSUME StaleAssumption == Stale \subseteq Tokens
ASSUME TimeAssumption == TTL \in Nat \ {0} /\ MaxTime \in Nat

VARIABLES
  account,      \* the operator whose password each account has, or Nobody
  active,       \* the accounts with is_active
  opc, oname,   \* where each run of app.admin is, and the username it was given
  clock,
  rows,         \* the tokens in table admin_token
  owner,        \* their user_id
  expires,      \* their expires_at
  used,         \* the tokens generated so far
  known,        \* those that a client was given
  pc,           \* where each handler is
  user, valid,  \* login: the username, and whether the account as read may sign in
  since,        \* login: its reading of the clock
  tok,          \* the token issued, or the one presented
  doomed,       \* the rows deleted, and locked, by the open transaction
  revoked,      \* history: tokens whose logout was answered by 204
  inFlight      \* history: requests of each account admitted when it was blocked

accountVars == <<account, active, opc, oname>>
tokenVars == <<rows, owner, expires, used, known>>
handlerVars == <<pc, user, valid, since, tok, doomed>>
vars == <<accountVars, clock, tokenVars, handlerVars, revoked, inFlight>>

Login == {"verify", "sweep", "login_commit"}
Admitted == {"work", "sign_out", "sign_out_commit"}

TypeOK ==
  /\ account \in [Accounts -> Operators \cup {Nobody}]
  /\ active \subseteq Accounts
  /\ opc \in [Operators -> {"start", "insert", "created", "error"}]
  /\ oname \in [Operators -> Accounts]
  /\ clock \in 0..MaxTime
  /\ rows \subseteq Tokens /\ used \subseteq Tokens /\ known \subseteq Tokens
  /\ owner \in [Tokens -> Accounts \cup {Nobody}]
  /\ expires \in [Tokens -> 0..(MaxTime + TTL)]
  /\ pc \in [Requests -> {"idle"} \cup Login \cup Admitted]
  /\ user \in [Requests -> Accounts \cup {Nobody}]
  /\ valid \in [Requests -> BOOLEAN]
  /\ since \in [Requests -> 0..MaxTime]
  /\ tok \in [Requests -> Tokens \cup {NoToken}]
  /\ doomed \in [Requests -> SUBSET Tokens]
  /\ revoked \subseteq Tokens
  /\ inFlight \in [Accounts -> SUBSET Requests]

Init ==
  /\ account = [a \in Accounts |-> Nobody]
  /\ active = {}
  /\ opc = [o \in Operators |-> "start"]
  /\ oname \in [Operators -> Accounts]
  /\ clock = 0
  /\ rows = Stale /\ used = Stale /\ known = {}
  /\ owner = [t \in Tokens |-> Nobody]
  /\ expires = [t \in Tokens |-> 0]
  /\ pc = [r \in Requests |-> "idle"]
  /\ user = [r \in Requests |-> Nobody]
  /\ valid = [r \in Requests |-> FALSE]
  /\ since = [r \in Requests |-> 0]
  /\ tok = [r \in Requests |-> NoToken]
  /\ doomed = [r \in Requests |-> {}]
  /\ revoked = {}
  /\ inFlight = [a \in Accounts |-> {}]

-----------------------------------------------------------------------------
(***************************************************************************)
(* The operators.                                                          *)
(***************************************************************************)
OperatorAt(o, at) == opc' = [opc EXCEPT ![o] = at]

ProvisionCheck(o) ==
  /\ opc[o] = "start"
  /\ OperatorAt(o, IF account[oname[o]] = Nobody THEN "insert" ELSE "error")
  /\ UNCHANGED <<account, active, oname, clock, tokenVars, handlerVars, revoked, inFlight>>

\* Mutant: the row of another operator is overwritten.
InsertUnconstrained(o) ==
  /\ opc[o] = "insert"
  /\ account' = [account EXCEPT ![oname[o]] = o]
  /\ active' = active \cup {oname[o]}
  /\ OperatorAt(o, "created")
  /\ UNCHANGED <<oname, clock, tokenVars, handlerVars, revoked, inFlight>>

\* The username is unique: the insert of the later of two operators fails.
ProvisionInsert(o) ==
  /\ opc[o] = "insert"
  /\ account[oname[o]] = Nobody
  /\ account' = [account EXCEPT ![oname[o]] = o]
  /\ active' = active \cup {oname[o]}
  /\ OperatorAt(o, "created")
  /\ UNCHANGED <<oname, clock, tokenVars, handlerVars, revoked, inFlight>>

\* An exception, with or without the row.
ProvisionFails(o) ==
  /\ opc[o] \in {"start", "insert"}
  /\ OperatorAt(o, "error")
  /\ \/ UNCHANGED <<account, active>>
     \/ /\ opc[o] = "insert" /\ account[oname[o]] = Nobody
        /\ account' = [account EXCEPT ![oname[o]] = o]
        /\ active' = active \cup {oname[o]}
  /\ UNCHANGED <<oname, clock, tokenVars, handlerVars, revoked, inFlight>>

\* The requests that a token of account a has admitted.
AdmittedOf(a) == {r \in Requests : pc[r] \in Admitted /\ owner[tok[r]] = a}

Deactivate(a) ==
  /\ a \in active
  /\ active' = active \ {a}
  /\ inFlight' = [inFlight EXCEPT ![a] = AdmittedOf(a)]
  /\ UNCHANGED <<account, opc, oname, clock, tokenVars, handlerVars, revoked>>

Reactivate(a) ==
  /\ account[a] # Nobody /\ a \notin active
  /\ active' = active \cup {a}
  /\ UNCHANGED <<account, opc, oname, clock, tokenVars, handlerVars, revoked, inFlight>>

Tick ==
  /\ clock < MaxTime
  /\ clock' = clock + 1
  /\ UNCHANGED <<accountVars, tokenVars, handlerVars, revoked, inFlight>>

-----------------------------------------------------------------------------
(***************************************************************************)
(* sign_in, and the commit of the login route.                             *)
(***************************************************************************)
Goto(r, at) == pc' = [pc EXCEPT ![r] = at]

\* The end of request r and of its transaction, with the locks that has.
Close(r) == /\ Goto(r, "idle")
            /\ user' = [user EXCEPT ![r] = Nobody]
            /\ valid' = [valid EXCEPT ![r] = FALSE]
            /\ since' = [since EXCEPT ![r] = 0]
            /\ tok' = [tok EXCEPT ![r] = NoToken]
            /\ doomed' = [doomed EXCEPT ![r] = {}]

\* Bound: there is a fresh token for every login under way.
TokensLeft == Cardinality(Tokens \ used) >
                Cardinality({q \in Requests : pc[q] \in {"verify", "sweep"}})

\* The account, its hash and is_active are read here and not again.
LoginRead(r, a, password) ==
  /\ pc[r] = "idle"
  /\ TokensLeft
  /\ user' = [user EXCEPT ![r] = a]
  /\ valid' = [valid EXCEPT ![r] = account[a] = password /\ a \in active]
  /\ Goto(r, "verify")
  /\ UNCHANGED <<accountVars, clock, tokenVars, since, tok, doomed, revoked, inFlight>>

LoginRefused(r) ==
  /\ pc[r] = "verify"
  /\ ~valid[r]
  /\ Close(r)
  /\ UNCHANGED <<accountVars, clock, tokenVars, revoked, inFlight>>

LoginAccepted(r) ==
  /\ pc[r] = "verify"
  /\ valid[r]
  /\ since' = [since EXCEPT ![r] = clock]
  /\ Goto(r, "sweep")
  /\ UNCHANGED <<accountVars, clock, tokenVars, user, valid, tok, doomed,
                 revoked, inFlight>>

Locked(r) == UNION {doomed[q] : q \in Requests \ {r}}

Expired(r) == {t \in rows : expires[t] <= since[r]}

\* The DELETE of what has expired comes to its next row, in no certain order.
SweepRow(r, t) ==
  /\ pc[r] = "sweep"
  /\ t \in Expired(r) \ (doomed[r] \cup Locked(r))
  /\ doomed' = [doomed EXCEPT ![r] = @ \cup {t}]
  /\ UNCHANGED <<accountVars, clock, tokenVars, pc, user, valid, since, tok,
                 revoked, inFlight>>

\* Mutant: the sessions of the account are replaced by the new one.
SweepAccount(r) ==
  LET replaced == {t \in rows : owner[t] = user[r]} \ Locked(r) IN
  /\ pc[r] = "sweep"
  /\ Expired(r) \subseteq doomed[r]
  /\ doomed' = [doomed EXCEPT ![r] = @ \cup replaced]
  /\ \E t \in Tokens \ used : /\ tok' = [tok EXCEPT ![r] = t]
                              /\ used' = used \cup {t}
  /\ Goto(r, "login_commit")
  /\ UNCHANGED <<accountVars, clock, rows, owner, expires, known, user, valid, since,
                 revoked, inFlight>>

\* It has them all, and the new token is inserted.
LoginSweep(r) ==
  /\ pc[r] = "sweep"
  /\ Expired(r) \subseteq doomed[r]
  /\ \E t \in Tokens \ used : /\ tok' = [tok EXCEPT ![r] = t]
                              /\ used' = used \cup {t}
  /\ Goto(r, "login_commit")
  /\ UNCHANGED <<accountVars, clock, rows, owner, expires, known, user, valid, since,
                 doomed, revoked, inFlight>>

\* The commit; when its answer is lost nobody is given the token.
LoginCommit(r) ==
  /\ pc[r] = "login_commit"
  /\ rows' = (rows \ doomed[r]) \cup {tok[r]}
  /\ owner' = [owner EXCEPT ![tok[r]] = user[r]]
  /\ expires' = [expires EXCEPT ![tok[r]] = since[r] + TTL]
  /\ known' \in {known, known \cup {tok[r]}}
  /\ Close(r)
  /\ UNCHANGED <<accountVars, clock, used, revoked, inFlight>>

-----------------------------------------------------------------------------
(***************************************************************************)
(* require_admin, the work behind it, and the logout route.                *)
(***************************************************************************)
\* Mutant: the check looks at the token alone.
MayEnterByToken(t) == t \in rows /\ expires[t] > clock

\* Mutant: expires_at is not looked at.
MayEnterExpired(t) == t \in rows /\ owner[t] \in active

\* The row get_admin finds.
MayEnter(t) == t \in rows /\ expires[t] > clock /\ owner[t] \in active

\* The check for a request whose handler goes on at "at".
RequireAdmin(r, t, at) ==
  /\ pc[r] = "idle"
  /\ MayEnter(t)
  /\ tok' = [tok EXCEPT ![r] = t]
  /\ Goto(r, at)
  /\ UNCHANGED <<accountVars, clock, tokenVars, user, valid, since, doomed,
                 revoked, inFlight>>

\* The handler of an admin endpoint commits what it did.
AdminWork(r) ==
  /\ pc[r] = "work"
  /\ Close(r)
  /\ UNCHANGED <<accountVars, clock, tokenVars, revoked, inFlight>>

\* Mutant: a DELETE that finds no row, a sweep having taken it, is tried again.
SignOutOfRow(r) ==
  /\ pc[r] = "sign_out"
  /\ tok[r] \in rows \ Locked(r)
  /\ doomed' = [doomed EXCEPT ![r] = {tok[r]}]
  /\ Goto(r, "sign_out_commit")
  /\ UNCHANGED <<accountVars, clock, tokenVars, user, valid, since, tok, revoked, inFlight>>

SignOut(r) ==
  /\ pc[r] = "sign_out"
  /\ {tok[r]} \cap rows \cap Locked(r) = {}
  /\ doomed' = [doomed EXCEPT ![r] = {tok[r]} \cap rows]
  /\ Goto(r, "sign_out_commit")
  /\ UNCHANGED <<accountVars, clock, tokenVars, user, valid, since, tok, revoked, inFlight>>

\* Mutant: the route does not commit.
SignOutForgotten(r) ==
  /\ pc[r] = "sign_out_commit"
  /\ revoked' \in {revoked, revoked \cup {tok[r]}}
  /\ Close(r)
  /\ UNCHANGED <<accountVars, clock, tokenVars, inFlight>>

\* The commit, and the 204 that tells the client, unless it is lost.
SignOutCommit(r) ==
  /\ pc[r] = "sign_out_commit"
  /\ rows' = rows \ doomed[r]
  /\ revoked' \in {revoked, revoked \cup {tok[r]}}
  /\ Close(r)
  /\ UNCHANGED <<accountVars, clock, owner, expires, used, known, inFlight>>

\* A database error, or the death of the server: the transaction is rolled back.
RequestFails(r) ==
  /\ pc[r] # "idle"
  /\ Close(r)
  /\ UNCHANGED <<accountVars, clock, tokenVars, revoked, inFlight>>

Arrive(r) ==
  \/ \E a \in Accounts, p \in Operators : LoginRead(r, a, p)
  \/ \E t \in known, at \in {"work", "sign_out"} : RequireAdmin(r, t, at)

\* What a request does once it has begun.
Proceed(r) ==
  \/ LoginRefused(r) \/ LoginAccepted(r)
  \/ (\E t \in Tokens : SweepRow(r, t)) \/ LoginSweep(r) \/ LoginCommit(r)
  \/ AdminWork(r) \/ SignOut(r) \/ SignOutCommit(r)

\* Sweeps that wait for one another, and for nobody else.
Deadlocked(S) ==
  /\ S # {}
  /\ \A r \in S : /\ pc[r] = "sweep"
                  /\ Expired(r) \ doomed[r] # {}
                  /\ Expired(r) \ doomed[r] \subseteq UNION {doomed[q] : q \in S \ {r}}

\* The database finds the circle and makes one of them fail.
BreakDeadlock == \E S \in SUBSET Requests : Deadlocked(S) /\ \E r \in S : RequestFails(r)

Next ==
  \/ \E o \in Operators : ProvisionCheck(o) \/ ProvisionInsert(o) \/ ProvisionFails(o)
  \/ \E a \in Accounts : Deactivate(a) \/ Reactivate(a)
  \/ Tick
  \/ \E r \in Requests : Arrive(r) \/ Proceed(r) \/ RequestFails(r)

Spec == Init /\ [][Next]_vars

\* A handler goes on, and where it waits for a row again and again it gets its
\* turn, for the waiters of a row queue; a deadlock is found.
Fairness ==
  /\ \A r \in Requests : SF_vars(Proceed(r))
  /\ WF_vars(BreakDeadlock)

FairSpec == Spec /\ Fairness

-----------------------------------------------------------------------------
\* A token whose logout was answered never opens a session again, whatever
\* logins and sweeps were under way at the time.
RevokedStaysRevoked ==
  /\ revoked \cap rows = {}
  /\ \A r \in Requests : pc[r] = "login_commit" => tok[r] \notin revoked

\* "Setting is_active to false blocks existing sessions": while an account is
\* blocked, the only requests of its sessions still at work are those that had
\* passed the check when it was blocked, logins under way then included.
BlockedButInFlight == \A a \in Accounts \ active : AdmittedOf(a) \subseteq inFlight[a]

\* An operator who was told that the account was created has its password.
CreatedIsTheirs == \A o \in Operators : opc[o] = "created" => account[oname[o]] = o

\* A session ends at its deadline, or when a logout it admitted itself is
\* committed: the sweep of a login takes nobody's live session.
EndsOnlyByLogout ==
  [][\A t \in rows \ rows' :
       \/ expires[t] <= clock
       \/ \E r \in Requests : pc[r] = "sign_out_commit" /\ tok[r] = t]_vars

\* Every request is answered: no handler waits for a row for ever.
EveryRequestEnds == \A r \in Requests : pc[r] # "idle" ~> pc[r] = "idle"

(***************************************************************************)
(* The abstract sessions.  A token is spent once its login has ended, and  *)
(* a session is live while its row would let a request in.                 *)
(***************************************************************************)
Issuing == {r \in Requests : pc[r] = "login_commit"}

Sessions == INSTANCE AdminSessions WITH
  time <- clock,
  enabled <- active,
  opened <- used \ {tok[r] : r \in Issuing},
  live <- {t \in rows : expires[t] > clock},
  owner <- owner,
  deadline <- expires,
  admitted <- [r \in Requests |-> IF pc[r] \in Admitted THEN tok[r] ELSE NoToken]

\* Logins that overlap, sweeps, lost answers and failures included, sessions are
\* those of AdminSessions.
ImplementsSessions == Sessions!SessionsSpec

\* What each handler knows of the tokens it holds.
HandlerInv(r) ==
  /\ pc[r] \in {"idle", "verify", "work", "sign_out"} => doomed[r] = {}
  /\ pc[r] \in {"sweep", "login_commit"} => since[r] <= clock
  /\ pc[r] \in {"sweep", "login_commit"} =>
       \A t \in doomed[r] : t \in rows /\ expires[t] <= since[r]
  /\ pc[r] \in Login => user[r] \in Accounts
  /\ pc[r] = "login_commit" =>
       /\ tok[r] \in used \ (rows \cup known \cup revoked)
       /\ \A q \in Issuing : tok[q] = tok[r] => q = r
  /\ pc[r] \in Admitted => tok[r] \in used /\ tok[r] \in known
  /\ pc[r] = "sign_out_commit" => doomed[r] = {tok[r]} \cap rows
  /\ \A q \in Requests \ {r} : doomed[q] \cap doomed[r] = {}

\* The inductive invariant.
Inv ==
  /\ TypeOK
  /\ RevokedStaysRevoked /\ BlockedButInFlight /\ CreatedIsTheirs
  /\ rows \subseteq used /\ known \subseteq used /\ revoked \subseteq used
  /\ \A r \in Requests : HandlerInv(r)
=============================================================================
