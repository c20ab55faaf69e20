CONSTANTS
  Accounts = {a1}
  Operators = {o1, o2}
  Nobody = Nobody
  Requests = {r1, r2}
  Tokens = {t1, t2, s1, s2}
  NoToken = NoToken
  Stale = {s1, s2}
  TTL = 1
  MaxTime = 1
SPECIFICATION FairSpec
INVARIANTS
  RevokedStaysRevoked
  BlockedButInFlight
  CreatedIsTheirs
PROPERTIES
  EndsOnlyByLogout
  ImplementsSessions
  EveryRequestEnds
