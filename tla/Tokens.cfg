\* Two requests with one token; the portal may change its mind.
SPECIFICATION FairAuthSpec
CONSTANTS
  t1 = t1  t2 = t2  u1 = u1  u2 = u2
  NoToken = NoToken
  Requests = {r1, r2}
  Tokens = {t1}
  UserNames = {u1}
  UserOf <- OwnUser
  AttemptWindow = 0
  WaitLimit = 1
  InvalidWindow = 2
  WaiterWindow = 3
  CacheWindow = 4
  MaxAttempts = 2
  MaxDelay = 1
INVARIANTS
  AuthTypeOK
  CacheHolds
PROPERTIES
  NoLongRevoked
  OnlyOnceHeld
  RequestsEnd
  RefusalsEnd
