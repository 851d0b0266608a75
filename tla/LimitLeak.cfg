\* A failed subscription keeps its place under the limit.
SPECIFICATION Spec
CONSTANTS
  c1 = c1  c2 = c2  i1 = i1  u1 = u1
  open = open  limited = limited
  s1 = s1  s2 = s2
  NoSub = NoSub
  Clients = {c1}
  IPs = {i1}
  Users = {u1}
  Routes = {limited}
  Subs = {s1}
  TaskIds = {t1}
  LimitRoutes = {limited}
  IpOf <- OneIp
  UserOf <- OneUser
  RouteOf <- AllLimited
  SubsOf <- AnySub
  LimitType <- TokenType
  LimitNumber <- LimitOne
  MaxErrors = 5
  MaxIpCount = 2
INVARIANTS
  LimitCountsConnections
