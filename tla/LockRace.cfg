\* A subscription is locked while a client is being added to it.
SPECIFICATION Spec
CONSTANTS
  c1 = c1  c2 = c2  i1 = i1  u1 = u1
  open = open  limited = limited
  s1 = s1  s2 = s2
  NoSub = NoSub
  Clients = {c1, c2}
  IPs = {i1}
  Users = {u1}
  Routes = {open}
  Subs = {s1}
  TaskIds = {t1}
  LimitRoutes = {}
  IpOf <- OneIp
  UserOf <- OneUser
  RouteOf <- AllOpen
  SubsOf <- AnySub
  LimitType <- TokenType
  LimitNumber <- LimitOne
  MaxErrors = 5
  MaxIpCount = 3
PROPERTIES
  LockedMeansRefused
