\* Two connections share one subscription, under fairness.
SPECIFICATION FairSpec
CONSTANTS
  c1 = c1  c2 = c2  i1 = i1  u1 = u1
  open = open  limited = limited
  s1 = s1  s2 = s2
  NoSub = NoSub
  Clients = {c1, c2}
  IPs = {i1}
  Users = {u1}
  Routes = {open}
  Subs = {s1}
  TaskIds = {t1, t2}
  LimitRoutes = {}
  IpOf <- OneIp
  UserOf <- OneUser
  RouteOf <- AllOpen
  SubsOf <- AnySub
  LimitType <- TokenType
  LimitNumber <- LimitOne
  MaxErrors = 5
  MaxIpCount = 2
INVARIANTS
  OneUpstream
  EntryOwned
PROPERTIES
  ClosesOnlyIdle
  SharesFeeds
  RetiresFeeds
  ClientServed
