\* Two connections of one user on a route limited to two subscriptions.
SPECIFICATION Spec
CONSTANTS
  c1 = c1  c2 = c2  i1 = i1  u1 = u1
  open = open  limited = limited
  s1 = s1  s2 = s2
  NoSub = NoSub
  Clients = {c1, c2}
  IPs = {i1}
  Users = {u1}
  Routes = {limited}
  Subs = {s1, s2}
  TaskIds = {t1, t2}
  LimitRoutes = {limited}
  IpOf <- OneIp
  UserOf <- OneUser
  RouteOf <- AllLimited
  SubsOf <- AnySub
  LimitType <- TokenType
  LimitNumber <- LimitTwo
  MaxErrors = 1
  MaxIpCount = 3
SYMMETRY Symmetries
INVARIANTS
  TypeOK
  CountsAgree
  LimitCovers
PROPERTY
  ExactStays
