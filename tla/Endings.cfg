\* One connection, on a public or a private route, under fairness.
SPECIFICATION SoloSpec
CONSTANTS
  c1 = c1  c2 = c2  i1 = i1  u1 = u1  u2 = u2
  private = private  public = public
  NoSub = NoSub
  Clients = {c1, c2}
  IPs = {i1}
  Users = {u1, u2}
  Routes = {private, public}
  PublicRoutes = {public}
  Subs = {s1}
  TaskIds = {t1}
  LimitRoutes = {private}
  IpOf <- MCIpOf
  UserOf <- MCUserOf
  RouteOf <- MCRouteOf
  SubsOf <- MCSubsOf
  LimitType <- MCLimitType
  LimitNumber <- MCLimitNumber
  MaxErrors = 2
  MaxIpCount = 3
INVARIANTS
  SessionTypeOK
  NoGhosts
PROPERTIES
  InactiveEnds
  PublicEnds
  SocketsClose
