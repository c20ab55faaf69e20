---------------------------- MODULE AdminSessions ----------------------------
(***************************************************************************)
(* What the admin endpoints promise about sessions, with every operation   *)
(* in one step: a token opens one session of one account, the session is   *)
(* live until its deadline or until somebody it admitted closes it, it is  *)
(* never live again, and it admits requests only while it is live and its  *)
(* account is enabled.  A request that was admitted may end at any time    *)
(* later.  AdminAuth implements this.                                      *)
(***************************************************************************)
EXTENDS Integers

CONSTANTS
  Accounts,
  Tokens,
  Requests,
  Nobody,       \* "this token has opened no session"
  NoToken,      \* "this request is not admitted"
  TTL,          \* ADMIN_TOKEN_TTL_SECONDS
  MaxTime       \* bound of the clock

VARIABLES
  time,
  enabled,      \* the accounts whose sessions admit requests
  opened,       \* the tokens that can no longer open a session
  live,         \* the tokens whose session is live
  owner,        \* the account of each session
  deadline,     \* when each session ends
  admitted      \* the token that admitted each request

sessionVars == <<time, enabled, opened, live, owner, deadline, admitted>>

\* Some tokens may have been spent before.
SessionsInit ==
  /\ time = 0
  /\ enabled = {} /\ opened \in SUBSET Tokens /\ live = {}
  /\ owner = [t \in Tokens |-> Nobody]
  /\ deadline = [t \in Tokens |-> 0]
  /\ admitted = [r \in Requests |-> NoToken]

PassTime ==
  /\ time' = time + 1
  /\ live' = {t \in live : deadline[t] > time'}
  /\ UNCHANGED <<enabled, opened, owner, deadline, admitted>>

Enable(a) ==
  /\ enabled' = enabled \cup {a}
  /\ UNCHANGED <<time, opened, live, owner, deadline, admitted>>

Disable(a) ==
  /\ enabled' = enabled \ {a}
  /\ UNCHANGED <<time, opened, live, owner, deadline, admitted>>

OpenSession(t, a, d) ==
  /\ t \notin opened
  /\ d <= time + TTL
  /\ opened' = opened \cup {t}
  /\ live' = IF d > time THEN live \cup {t} ELSE live
  /\ owner' = [owner EXCEPT ![t] = a]
  /\ deadline' = [deadline EXCEPT ![t] = d]
  /\ UNCHANGED <<time, enabled, admitted>>

\* The sign-in failed and its token is forgotten.
Forget(t) ==
  /\ t \notin opened
  /\ opened' = opened \cup {t}
  /\ UNCHANGED <<time, enabled, live, owner, deadline, admitted>>

Admit(r, t) ==
  /\ admitted[r] = NoToken
  /\ t \in live /\ owner[t] \in enabled
  /\ admitted' = [admitted EXCEPT ![r] = t]
  /\ UNCHANGED <<time, enabled, opened, live, owner, deadline>>

Leave(r) ==
  /\ admitted[r] # NoToken
  /\ admitted' = [admitted EXCEPT ![r] = NoToken]
  /\ UNCHANGED <<time, enabled, opened, live, owner, deadline>>

CloseSession(r) ==
  /\ admitted[r] # NoToken
  /\ live' = live \ {admitted[r]}
  /\ admitted' = [admitted EXCEPT ![r] = NoToken]
  /\ UNCHANGED <<time, enabled, opened, owner, deadline>>

SessionsNext ==
  \/ PassTime
  \/ \E a \in Accounts : Enable(a) \/ Disable(a)
  \/ \E t \in Tokens :
       \/ Forget(t)
       \/ \E a \in Accounts, d \in 0..(MaxTime + TTL) : OpenSession(t, a, d)
       \/ \E r \in Requests : Admit(r, t)
  \/ \E r \in Requests : Leave(r) \/ CloseSession(r)

SessionsSpec == SessionsInit /\ [][SessionsNext]_sessionVars
=============================================================================
