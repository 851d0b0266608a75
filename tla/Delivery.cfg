\* Two connections share a feed, with room for two messages each, under fairness.
SPECIFICATION FairDeliverySpec
CONSTANTS
  i1 = i1  u1 = u1  open = open
  NoSub = NoSub
  Clients = {c1, c2}
  IPs = {i1}
  Users = {u1}
  Routes = {open}
  Subs = {s1}
  TaskIds = {t1}
  LimitRoutes = {}
  IpOf <- OneIp
  UserOf <- OneUser
  RouteOf <- AllOpen
  SubsOf <- AnySub
  LimitType <- NoLimit
  LimitNumber <- NoLimit
  MaxErrors = 1
  MaxIpCount = 2
  SENDER_BOUND = 2
INVARIANTS
  DeliveryTypeOK
PROPERTIES
  OnlyMembersServed
  DroppedAreTold
  DataArrives
