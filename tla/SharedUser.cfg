\* Two tokens of one user displace each other in the cache.
SPECIFICATION AuthSpec
CONSTANTS
  t1 = t1  t2 = t2  u1 = u1  u2 = u2
  NoToken = NoToken
  Requests = {r1}
  Tokens = {t1, t2}
  UserNames = {u1}
  UserOf <- SharedUser
  AttemptWindow = 0
  WaitLimit = 1
  InvalidWindow = 2
  WaiterWindow = 3
  CacheWindow = 4
  MaxAttempts = 2
  MaxDelay = 1
INVARIANTS
  CacheHolds
