\* The portal changes its listing and fails, page by page; under fairness.
SPECIFICATION FairSymbolSpec
CONSTANTS
  p = p  q = q  r = r
  p1 = p1  p2 = p2  q1 = q1  qx = qx  r1 = r1
  NoResponse = NoResponse
  Pairs = {p, q, r}
  Entries = {p1, p2, q1, qx, r1}
  PairOf <- MCPairOf
  Traded = {p1, p2, q1, qx}
  Garbled = {qx}
  Listings <- MCListings
  e1 = e1  e2 = e2
  Endpoints = {e1, e2}
  EndpointOrder <- InOrder
  Bodies = {b1, b2}
  StartUpAttempts = 2
  MaxPage = 2
INVARIANTS
  SymbolTypeOK
PROPERTIES
  FreshListing
  NothingMissed
  PairsRefreshed
  EndpointsRefreshed
