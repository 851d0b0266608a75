------------------------- MODULE SubscriptionRequests -------------------------
(***************************************************************************)
(* What merx does with a subscription message: the handle_subscription of  *)
(* cbbo_v1, market_depth_v1 and rest_cost_calculator_v1, and the key under *)
(* which a subscription is shared (subscriptions.rs).                      *)
(*                                                                         *)
(* A handler reads the symbols and the user's record in sections of their  *)
(* own, one place per read; the pull task and other requests of the user   *)
(* may replace what it read before it reads again.  A reply goes to the    *)
(* channel of the client; joining is MarketData's, here with its outcomes. *)
(***************************************************************************)
EXTENDS MarketNames, FiniteSets

CONSTANTS
  Clients, Users,
  Logins,          \* what connections may be made as, and to
  Messages,        \* route -> the messages it may be sent
  Garbled,         \* a message that is not of the route's form
  NoMessage,
  NoLimit,         \* a message without depth_limit
  Size,            \* text of a size filter -> its number
  NotANumber,      \* in the place of the number of any other text
  Listings,        \* what the pull task may list: pair -> its cbbo sizes
  RecordsOf,       \* user -> the records that portal may give of it
  whitelist,       \* the pairs of the public cbbo route
  chart_exchanges, \* the exchanges of the public depth route
  MaxHeld          \* bound of the model: subscriptions of a client

PrivateRoutes == {"cbbo", "depth", "cost"}
PublicRoutes == {"public cbbo", "public depth"}
CbboRoutes == {"cbbo", "public cbbo"}
DepthRoutes == {"depth", "public depth"}

ASSUME RequestAssumption ==
  /\ << >> \in Listings
  /\ \A login \in Logins :
       /\ login.route \in PrivateRoutes \cup PublicRoutes
       /\ login.route \in PrivateRoutes => login.user \in Users
  /\ NoMessage # Garbled
  /\ \A l \in Listings : \A pair \in DOMAIN l : l[pair] \subseteq Nat
  /\ \A u \in Users : \A r \in RecordsOf[u] : \A e \in DOMAIN r.exchanges :
       r.exchanges[e].non_aggregated_prices \in BOOLEAN /\ r.exchanges[e].customer_specific \in BOOLEAN
  /\ MaxHeld \in Nat

VARIABLES
  connection,     \* client -> its user, route and market_data_id
  symbols,        \* pair -> cbbo sizes, empty before the first pull (SymbolCache)
  users,          \* user -> its validated record (Authentication)
  request,        \* client -> what its handler is doing
  answer,         \* client -> the errors sent for its last message
  joined,         \* client -> the subscription its last message joined
  held,           \* client -> its subscriptions -> the messages that asked for them
  symbolsSeen,    \* client -> the listings there were during its last message (history)
  userSeen        \* client -> likewise the records of its user (history)

environment == << symbols, users >>

history == << symbolsSeen, userSeen >>

requestVars == << connection, symbols, users, request, answer, joined, held, history >>

-----------------------------------------------------------------------------
(* Keys.                                                                    *)
NoKey == [kind |-> "none"]

LegacyCbbo(pair, size_filter, client_id) ==
  [kind |-> "LegacyCbbo", currency_pair |-> pair, size_filter |-> size_filter,
   interval_ms |-> 500, client_id |-> client_id]

Snapshot(pair, markets, depth_limit, interval_ms) ==
  [kind |-> "Snapshot", currency_pair |-> pair, cbag_markets |-> markets,
   depth_limit |-> depth_limit, interval_ms |-> interval_ms]

(* Direct: the query of the cost calculator's URL.                          *)
Direct(pair, quantities, markets) ==
  [kind |-> "Direct", currency_pair |-> pair, target_quantity |-> quantities,
   markets |-> markets]

-----------------------------------------------------------------------------
Public(c) == connection[c].route \in PublicRoutes

Record(c) == users[connection[c].user]

Idle(c) == request[c].at = "idle"

Unconnected == [route |-> "none"]

Sendable(c) ==
  IF connection[c] = Unconnected THEN {} ELSE Messages[connection[c].route] \cup {Garbled}

Places == {"idle", "ready", "pair", "size", "client", "exchanges", "add"}

ErrorCodes ==
  {"InvalidCurrencyPair", "InvalidSubscriptionMessage", "InvalidSizeFilter",
   "InvalidDepthLimit", "InvalidExchanges", "ServerInitializing", "AlreadySubscribed",
   "ReachedWebSocketLimitNumber", "LockedSubscription"}

(* A message has at most one reply more than the one its handler ends with. *)
RequestTypeOK ==
  /\ symbols \in Listings
  /\ \A u \in Users : users[u] \in RecordsOf[u]
  /\ connection \in [Clients -> Logins \cup {Unconnected}]
  /\ \A c \in Clients :
       /\ request[c].at \in Places
       /\ request[c].message \in Sendable(c) \cup {NoMessage}
       /\ (request[c].key # NoKey) = (request[c].at = "add")
       /\ answer[c] \in BoundedSeq(ErrorCodes, 2)
       /\ Cardinality(DOMAIN held[c]) <= MaxHeld

NoRequest == [at |-> "idle", message |-> NoMessage, key |-> NoKey]

RequestInit ==
  /\ symbols = << >>
  /\ users \in {f \in [Users -> UNION {RecordsOf[u] : u \in Users}] :
                  \A u \in Users : f[u] \in RecordsOf[u]}
  /\ connection = [c \in Clients |-> Unconnected]
  /\ request = [c \in Clients |-> NoRequest]
  /\ answer = [c \in Clients |-> << >>]
  /\ joined = [c \in Clients |-> NoKey]
  /\ held = [c \in Clients |-> << >>]
  /\ symbolsSeen = [c \in Clients |-> {}]
  /\ userSeen = [c \in Clients |-> {}]

-----------------------------------------------------------------------------
(* A handler's ways on: to its next place, or to its end.                   *)
Move(c, place, key, errors) ==
  /\ request' = [request EXCEPT ![c].at = place, ![c].key = key]
  /\ answer' = [answer EXCEPT ![c] = @ \o errors]
  /\ UNCHANGED << connection, joined, held, environment, history >>

(* Mutant: a reply is not followed by a return.                             *)
Reject_Stays(c, error) == Move(c, request[c].at, NoKey, <<error>>)

Goto(c, place) == Move(c, place, NoKey, << >>)
Subscribe(c, key) == Move(c, "add", key, << >>)
Reject(c, error) == Move(c, "idle", NoKey, <<error>>)

(* A text message is read; it is the handler's only one until it is done.   *)
ReceiveMessage(c, message) ==
  /\ Idle(c)
  /\ request' = [request EXCEPT
       ![c] = [at |-> IF connection[c].route \in CbboRoutes THEN "pair" ELSE "ready",
               message |-> message, key |-> NoKey]]
  /\ answer' = [answer EXCEPT ![c] = << >>]
  /\ joined' = [joined EXCEPT ![c] = NoKey]
  /\ symbolsSeen' = [symbolsSeen EXCEPT ![c] = {symbols}]
  /\ userSeen' = [userSeen EXCEPT ![c] = IF Public(c) THEN {} ELSE {Record(c)}]
  /\ UNCHANGED << connection, held, environment >>

HasSymbols == DOMAIN symbols # {}

IsReady(c) ==
  /\ request[c].at = "ready"
  /\ IF HasSymbols THEN Goto(c, "pair") ELSE Reject(c, "ServerInitializing")

(* Mutant: a pair is looked up in a listing that has not come yet.          *)
PairError_Early(pair) ==
  IF pair \in DOMAIN symbols THEN "none" ELSE "InvalidCurrencyPair"

PairError(pair) ==
  IF ~HasSymbols THEN "ServerInitializing"
  ELSE IF pair \in DOMAIN symbols THEN "none" ELSE "InvalidCurrencyPair"

(* cbbo_v1 goes on from the pair to the size filter.  The reply to one below*)
(* zero is not followed by a return: the handler goes on.                   *)
ParseSize(c) ==
  LET size == Size[request[c].message.size_filter] IN
  \/ size = NotANumber /\ Reject(c, "InvalidSizeFilter")
  \/ size # NotANumber /\ size < 0 /\ Move(c, "size", NoKey, <<"InvalidSizeFilter">>)
  \/ size # NotANumber /\ size >= 0 /\ Goto(c, "size")

PublicMarkets ==
  [i \in DOMAIN chart_exchanges |->
     exchange_to_cbag_market(chart_exchanges[i], << >>, FALSE, FALSE)]

(* The others to the depth and the exchanges that were asked for.  For the  *)
(* public these must be there, and are replaced by merx's own.              *)
DepthOutOfRange(c) ==
  connection[c].route \in DepthRoutes /\ request[c].message.depth_limit \notin {NoLimit} \cup 1 .. 200

(* Mutant: the reply to a depth limit out of range is not followed by a     *)
(* return.                                                                  *)
CheckShape_GoesOn(c) ==
  LET message == request[c].message IN
  \/ DepthOutOfRange(c) /\ ~Public(c) /\ Move(c, "exchanges", NoKey, <<"InvalidDepthLimit">>)
  \/ ~DepthOutOfRange(c) /\ message.exchanges = << >> /\ Reject(c, "InvalidExchanges")
  \/ /\ ~DepthOutOfRange(c) /\ message.exchanges # << >>
     /\ IF Public(c)
        THEN Subscribe(c, Snapshot(message.currency_pair, PublicMarkets, 200, 30000))
        ELSE Goto(c, "exchanges")

CheckShape(c) ==
  LET message == request[c].message IN
  \/ DepthOutOfRange(c) /\ Reject(c, "InvalidDepthLimit")
  \/ ~DepthOutOfRange(c) /\ message.exchanges = << >> /\ Reject(c, "InvalidExchanges")
  \/ /\ ~DepthOutOfRange(c) /\ message.exchanges # << >>
     /\ IF Public(c)
        THEN Subscribe(c, Snapshot(message.currency_pair, PublicMarkets, 200, 30000))
        ELSE Goto(c, "exchanges")

(* The message is parsed and its pair validated; the whitelist is that of   *)
(* the public cbbo route.                                                   *)
CheckPair(c) ==
  LET message == request[c].message
      allowed == connection[c].route = "public cbbo" => message.currency_pair \in whitelist
      error   == PairError(message.currency_pair)
  IN
  /\ request[c].at = "pair"
  /\ \/ message = Garbled /\ Reject(c, "InvalidSubscriptionMessage")
     \/ message # Garbled /\ ~allowed /\ Reject(c, "InvalidCurrencyPair")
     \/ message # Garbled /\ allowed /\ error # "none" /\ Reject(c, error)
     \/ /\ message # Garbled /\ allowed /\ error = "none"
        /\ IF connection[c].route \in CbboRoutes THEN ParseSize(c) ELSE CheckShape(c)

(* Mutant: a size of any pair will do.                                      *)
SizeListed_Anywhere(pair, size) == \E p \in DOMAIN symbols : size \in symbols[p]

SizeListed(pair, size) == size \in symbols[pair]

(* is_size_filter_valid looks for the pair once more: it may be gone.       *)
CheckSize(c) ==
  LET message == request[c].message
      error   == PairError(message.currency_pair)
      listed  == SizeListed(message.currency_pair, Size[message.size_filter])
  IN
  /\ request[c].at = "size"
  /\ \/ error # "none" /\ Reject(c, error)
     \/ error = "none" /\ ~listed /\ Reject(c, "InvalidSizeFilter")
     \/ /\ error = "none" /\ listed
        /\ IF Public(c)
           THEN Subscribe(c, LegacyCbbo(message.currency_pair, message.size_filter, << >>))
           ELSE Goto(c, "client")

(* get_client_id.  Records are replaced and never removed, so that a user   *)
(* who has connected has one.                                               *)
ReadClient(c) ==
  /\ request[c].at = "client"
  /\ Subscribe(c, LegacyCbbo(request[c].message.currency_pair,
                             request[c].message.size_filter,
                             ClientName(Record(c).client_id, connection[c].market_data_id)))

MarketIn(record, exchange, id) ==
  exchange_to_cbag_market(exchange, ClientName(record.client_id, id),
                          record.exchanges[exchange].non_aggregated_prices,
                          record.exchanges[exchange].customer_specific)

(* validate_exchanges_vector.                                               *)
MarketsIn(record, exchanges, id) ==
  [i \in DOMAIN exchanges |-> MarketIn(record, exchanges[i], id)]

HasExchanges(record, exchanges) == ToSet(exchanges) \subseteq DOMAIN record.exchanges

(* What a client of a private route that names exchanges subscribes to.     *)
KeyOf(c, message, markets) ==
  IF connection[c].route = "depth"
  THEN Snapshot(message.currency_pair, markets,
                IF message.depth_limit = NoLimit THEN 50 ELSE message.depth_limit, 300)
  ELSE Direct(message.currency_pair, message.quantities,
              [i \in DOMAIN markets |-> WithoutSim(markets[i])])

ReadExchanges(c) ==
  LET message == request[c].message IN
  /\ request[c].at = "exchanges"
  /\ IF HasExchanges(Record(c), message.exchanges)
     THEN Subscribe(c, KeyOf(c, message,
                             MarketsIn(Record(c), message.exchanges, connection[c].market_data_id)))
     ELSE Reject(c, "InvalidExchanges")

(* add_client_to_subscription: the client joins, or it is refused for being *)
(* there already, for the limit of its route or for the subscription's lock.*)
Join(c) ==
  LET key == request[c].key IN
  /\ request[c].at = "add"
  /\ key \notin DOMAIN held[c] /\ Cardinality(DOMAIN held[c]) < MaxHeld
  /\ held' = [held EXCEPT ![c] =
       [k \in DOMAIN held[c] \cup {key} |->
          IF k = key THEN request[c].message ELSE held[c][k]]]
  /\ joined' = [joined EXCEPT ![c] = key]
  /\ request' = [request EXCEPT ![c].at = "idle", ![c].key = NoKey]
  /\ UNCHANGED << connection, answer, environment, history >>

RefuseToAdd(c, error) ==
  /\ request[c].at = "add"
  /\ error = "AlreadySubscribed" => request[c].key \in DOMAIN held[c]
  /\ Reject(c, error)

Refusals == {"AlreadySubscribed", "ReachedWebSocketLimitNumber", "LockedSubscription"}

-----------------------------------------------------------------------------
(* What goes on around the handlers (external).                             *)

(* A subscription is given up.                                              *)
LoseFeed(c, key) ==
  /\ key \in DOMAIN held[c]
  /\ held' = [held EXCEPT ![c] = [k \in DOMAIN held[c] \ {key} |-> held[c][k]]]
  /\ UNCHANGED << connection, request, answer, joined, environment, history >>

(* A connection is made, after the last one of this address has ended.      *)
Connect(c, login) ==
  /\ Idle(c) /\ login # connection[c]
  /\ connection' = [connection EXCEPT ![c] = login]
  /\ request' = [request EXCEPT ![c] = NoRequest]
  /\ answer' = [answer EXCEPT ![c] = << >>]
  /\ joined' = [joined EXCEPT ![c] = NoKey]
  /\ held' = [held EXCEPT ![c] = << >>]
  /\ symbolsSeen' = [symbolsSeen EXCEPT ![c] = {}]
  /\ userSeen' = [userSeen EXCEPT ![c] = {}]
  /\ UNCHANGED environment

(* The pull task replaces the symbols, perhaps by none: it lists the pairs  *)
(* that are traded somewhere.                                               *)
ReplaceSymbols(listing) ==
  /\ listing # symbols
  /\ symbols' = listing
  /\ symbolsSeen' = [c \in Clients |-> symbolsSeen[c] \cup (IF Idle(c) THEN {} ELSE {listing})]
  /\ UNCHANGED << connection, users, request, answer, joined, held, userSeen >>

(* The token of a user is validated once more.                              *)
ReplaceUser(u, record) ==
  /\ record # users[u]
  /\ users' = [users EXCEPT ![u] = record]
  /\ userSeen' = [c \in Clients |->
       userSeen[c] \cup (IF Idle(c) \/ connection[c].user # u THEN {} ELSE {record})]
  /\ UNCHANGED << connection, symbols, request, answer, joined, held, symbolsSeen >>

RequestStep(c) ==
  \/ IsReady(c)
  \/ CheckPair(c)
  \/ CheckSize(c)
  \/ ReadClient(c)
  \/ ReadExchanges(c)
  \/ Join(c)
  \/ \E error \in Refusals : RefuseToAdd(c, error)

RequestNext ==
  \/ \E c \in Clients :
       \/ RequestStep(c)
       \/ \E m \in Sendable(c) : ReceiveMessage(c, m)
       \/ \E key \in DOMAIN held[c] : LoseFeed(c, key)
       \/ \E login \in Logins : Connect(c, login)
  \/ \E l \in Listings : ReplaceSymbols(l)
  \/ \E u \in Users : \E r \in RecordsOf[u] : ReplaceUser(u, r)

RequestSpec == RequestInit /\ [][RequestNext]_requestVars

-----------------------------------------------------------------------------
(* A handler that is done with a message has either joined or told why not; *)
(* an error is never followed by the subscription it refused.               *)
Verdict ==
  \A c \in Clients :
    /\ joined[c] # NoKey => Idle(c) /\ answer[c] = << >>
    /\ Idle(c) /\ request[c].message # NoMessage /\ answer[c] = << >> => joined[c] # NoKey

(* What was so, at some moment while the message was handled, of which an   *)
(* error tells the client.                                                  *)
Justified(c, error) ==
  LET message  == request[c].message
      pair     == message.currency_pair
      Lists(l) == pair \in DOMAIN l
  IN /\ error = "ServerInitializing" => \E l \in symbolsSeen[c] : DOMAIN l = {}
     /\ error = "InvalidSubscriptionMessage" => message = Garbled
     /\ error = "InvalidCurrencyPair" =>
          \/ connection[c].route = "public cbbo" /\ pair \notin whitelist
          \/ \E l \in symbolsSeen[c] : DOMAIN l # {} /\ ~Lists(l)
     /\ error = "InvalidSizeFilter" =>
          \/ Size[message.size_filter] = NotANumber
          \/ \E l \in symbolsSeen[c] : Lists(l) /\ Size[message.size_filter] \notin l[pair]
     /\ error = "InvalidDepthLimit" => DepthOutOfRange(c)
     /\ error = "InvalidExchanges" =>
          \/ message.exchanges = << >>
          \/ \E r \in userSeen[c] : ~HasExchanges(r, message.exchanges)

(* "reject requests with pertinent error messages" (README.md): what a      *)
(* client is told of its message, the symbols and its exchanges was so.  A  *)
(* listing without pairs counts as merx still initializing, also one that   *)
(* comes after others.  Nothing is said of the answers to the client's      *)
(* joining (Refusals): MarketData has their causes.                         *)
Pertinent ==
  \A c \in Clients : \A error \in ToSet(answer[c]) : Justified(c, error)

(* The key of a subscription was right by a listing and by a record that    *)
(* there were while the client's last message was handled.                  *)
CbboValid(c, key) ==
  /\ \E l \in symbolsSeen[c] :
       key.currency_pair \in DOMAIN l /\ Size[key.size_filter] \in l[key.currency_pair]
  /\ Public(c) => key.client_id = << >> /\ key.currency_pair \in whitelist
  /\ ~Public(c) => \E r \in userSeen[c] :
                     key.client_id = ClientName(r.client_id, connection[c].market_data_id)

ExchangesValid(c, key) ==
  LET message == request[c].message IN
  /\ \E l \in symbolsSeen[c] : key.currency_pair \in DOMAIN l
  /\ ~Public(c) => \E r \in userSeen[c] :
       /\ HasExchanges(r, message.exchanges)
       /\ key = KeyOf(c, message,
                      MarketsIn(r, message.exchanges, connection[c].market_data_id))

(* What was accepted was valid piece by piece and as a whole, in spite of   *)
(* what was replaced between the reads: pair and size in one listing, all   *)
(* exchanges in one record, and the feed is that of the user's own client.  *)
(* Listing and record may be of different moments of the same message.      *)
AcceptedTogether ==
  \A c \in Clients :
    joined[c] # NoKey =>
      IF joined[c].kind = "LegacyCbbo"
      THEN CbboValid(c, joined[c]) ELSE ExchangesValid(c, joined[c])

(* Exchanges that cbag can be asked for by a name that gives them back: none*)
(* has punctuation in its name or the name of another's market, nor has a   *)
(* client that has markets of its own.                                      *)
PlainExchange(words, exchange) ==
  Plain(words, exchange) /\ exchange \notin {<< >>, <<"coinbase">>, <<"huobi">>}

PlainNames(words) ==
  /\ HasWords(words) /\ "_" \in words
  /\ chart_exchanges \in Seq(Seq(words))
  /\ \A i \in DOMAIN chart_exchanges : PlainExchange(words, chart_exchanges[i])
  /\ \A message \in Messages["depth"] : message.exchanges \in Seq(Seq(words))
  /\ \A u \in Users : \A r \in RecordsOf[u] : \A e \in DOMAIN r.exchanges :
       /\ PlainExchange(words, e)
       /\ r.exchanges[e].customer_specific =>
            /\ Plain(words, r.client_id)
            /\ \A login \in Logins : login.user = u => Plain(words, login.market_data_id)

(* The exchanges that a listener finds in a depth update are those it asked *)
(* for, as it wrote them, whatever cbag calls them, and none of their       *)
(* quantities is lost or mixed up.                                          *)
NamesGivenBack ==
  \A c \in Clients :
    \A key \in DOMAIN held[c] :
      key.kind = "Snapshot" =>
        LET asked  == IF Public(c) THEN chart_exchanges ELSE held[c][key].exchanges
            market == [e \in ToSet(asked) |-> CHOOSE m \in ToSet(key.cbag_markets) :
                                                cbag_market_to_exchange(m) = e]
            level  == [m \in {Reported(m) : m \in ToSet(key.cbag_markets)} |-> m]
        IN /\ [i \in DOMAIN key.cbag_markets |-> cbag_market_to_exchange(key.cbag_markets[i])]
                = asked
           /\ RenamedLevel(level) = {[e \in ToSet(asked) |-> level[Reported(market[e])]]}
=============================================================================
