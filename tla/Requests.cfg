\* Connections on every route send messages while symbols and records change.
SPECIFICATION RequestSpec
CONSTANTS
  u1 = u1  public = public  Btc = Btc  Eth = Eth
  Garbled = Garbled
  NoMessage = NoMessage
  NoLimit = NoLimit
  NotANumber = NotANumber
  Clients = {c1}
  Users = {u1}
  Logins <- MCLogins
  Messages <- MCMessages
  Size <- MCSize
  Listings <- MCListings
  RecordsOf <- MCRecordsOf
  whitelist <- MCwhitelist
  chart_exchanges <- MCchart_exchanges
  MaxHeld = 1
INVARIANTS
  RequestTypeOK
  Verdict
  Pertinent
  AcceptedTogether
  NamesGivenBack
