---------------------- MODULE SubscriptionRequests_proofs ----------------------
(***************************************************************************)
(* Proofs about SubscriptionRequests: for any listings, records, messages  *)
(* and connections, a message ends with a subscription or an error, never  *)
(* both; what is joined was valid as a whole, and an error says what was   *)
(* so at some moment meanwhile.  The invariant says what a handler has     *)
(* established at each of its places, and that what it reads there belongs *)
(* to what there was while it handled the message.                         *)
(***************************************************************************)
EXTENDS SubscriptionRequests, MarketNames_proofs, TLAPS

Shape ==
  /\ DOMAIN users = Users
  /\ symbols \in Listings
  /\ DOMAIN request = Clients /\ DOMAIN answer = Clients /\ DOMAIN joined = Clients
  /\ DOMAIN connection = Clients
  /\ DOMAIN symbolsSeen = Clients /\ DOMAIN userSeen = Clients
  /\ \A c \in Clients :
       /\ request[c] = [at |-> request[c].at, message |-> request[c].message,
                        key |-> request[c].key]
       /\ request[c].at \in Places
       /\ answer[c] \in Seq(ErrorCodes)

KeyValid(c, key) ==
  IF key.kind = "LegacyCbbo" THEN CbboValid(c, key) ELSE ExchangesValid(c, key)

(* The only handler that goes on after an error is one with a size below 0. *)
Undecided(c) ==
  \/ answer[c] = << >>
  \/ request[c].at = "size" /\ Size[request[c].message.size_filter] < 0

Reads(c) ==
  /\ symbols \in symbolsSeen[c]
  /\ ~Public(c) => Record(c) \in userSeen[c]

Established(c) ==
  LET message == request[c].message IN
  /\ request[c].at \in {"size", "client"} /\ Public(c) => message.currency_pair \in whitelist
  /\ request[c].at \in {"client", "exchanges"} => ~Public(c)
  /\ request[c].at = "client" =>
       \E l \in symbolsSeen[c] :
         message.currency_pair \in DOMAIN l /\ Size[message.size_filter] \in l[message.currency_pair]
  /\ request[c].at = "exchanges" => \E l \in symbolsSeen[c] : message.currency_pair \in DOMAIN l
  /\ request[c].at = "add" => request[c].key # NoKey /\ KeyValid(c, request[c].key)

ClientInv(c) ==
  /\ ~Idle(c) => joined[c] = NoKey /\ Undecided(c) /\ Reads(c)
  /\ Established(c)
  /\ joined[c] # NoKey => answer[c] = << >> /\ KeyValid(c, joined[c])
  /\ Idle(c) /\ request[c].message # NoMessage /\ answer[c] = << >> => joined[c] # NoKey

RestInv(c) == Shape /\ \A d \in Clients \ {c} : ClientInv(d)

RequestInv == Shape /\ \A c \in Clients : ClientInv(c)

-----------------------------------------------------------------------------
LEMMA InitInv == RequestInit => RequestInv
<1> SUFFICES ASSUME RequestInit PROVE RequestInv
  OBVIOUS
<1>1. symbols \in Listings
  BY RequestAssumption DEF RequestInit
<1>2. Shape
  BY <1>1 DEF RequestInit, Shape, NoRequest, Places
<1>3. \A c \in Clients : ClientInv(c)
  BY DEF RequestInit, NoRequest, ClientInv, Established, Idle
<1> QED BY <1>2, <1>3 DEF RequestInv

(* What a client's invariant is about, for the steps of others.             *)
Untouched(c) ==
  /\ request'[c] = request[c] /\ answer'[c] = answer[c] /\ joined'[c] = joined[c]
  /\ connection'[c] = connection[c]

LEMMA ValidStays ==
  ASSUME NEW c \in Clients, NEW key, KeyValid(c, key),
         request'[c].message = request[c].message, connection'[c] = connection[c],
         symbolsSeen[c] \subseteq symbolsSeen'[c], userSeen[c] \subseteq userSeen'[c]
  PROVE  KeyValid(c, key)'
<1>1. Public(c)' = Public(c)
  BY DEF Public
<1>2. CASE key.kind = "LegacyCbbo"
  <2>1. CbboValid(c, key)
    BY <1>2 DEF KeyValid
  <2>2. CbboValid(c, key)'
    BY <1>1, <2>1 DEF CbboValid
  <2> QED BY <1>2, <2>2 DEF KeyValid
<1>3. CASE key.kind # "LegacyCbbo"
  <2>1. ExchangesValid(c, key)
    BY <1>3 DEF KeyValid
  <2>2. \A message, markets : KeyOf(c, message, markets)' = KeyOf(c, message, markets)
    BY DEF KeyOf
  <2>3. ExchangesValid(c, key)'
    BY <1>1, <2>1, <2>2 DEF ExchangesValid
  <2> QED BY <1>3, <2>3 DEF KeyValid
<1> QED BY <1>2, <1>3

(* A client that does nothing keeps its invariant while the environment     *)
(* changes, if what is new is noted.                                        *)
LEMMA OthersKeep ==
  ASSUME NEW c \in Clients, ClientInv(c), Untouched(c),
         symbolsSeen[c] \subseteq symbolsSeen'[c], userSeen[c] \subseteq userSeen'[c],
         ~Idle(c) => Reads(c)'
  PROVE  ClientInv(c)'
<1>1. /\ Idle(c)' = Idle(c) /\ Public(c)' = Public(c)
      /\ Undecided(c)' = Undecided(c)
  BY DEF Idle, Public, Undecided, Untouched
<1>2. \A key : KeyValid(c, key) => KeyValid(c, key)'
  BY ValidStays DEF Untouched
<1>3. Established(c)'
  BY <1>1, <1>2 DEF ClientInv, Established, Untouched
<1>4. joined'[c] # NoKey => KeyValid(c, joined[c])'
  BY <1>2 DEF ClientInv, Untouched
<1>5. /\ ~Idle(c)' => joined'[c] = NoKey /\ Undecided(c)' /\ Reads(c)'
      /\ joined'[c] # NoKey => answer'[c] = << >>
      /\ Idle(c)' /\ request'[c].message # NoMessage /\ answer'[c] = << >> => joined'[c] # NoKey
  BY <1>1 DEF ClientInv, Untouched
<1>6. joined'[c] = joined[c]
  BY DEF Untouched
<1> QED BY <1>3, <1>4, <1>5, <1>6 DEF ClientInv

-----------------------------------------------------------------------------
(* The steps of a handler.                                                  *)
Moved(c, place, key, errors) ==
  /\ request'[c] = [at |-> place, message |-> request[c].message, key |-> key]
  /\ answer'[c] = answer[c] \o errors
  /\ UNCHANGED << connection, joined, symbols, users, symbolsSeen, userSeen >>

LEMMA MoveStep ==
  ASSUME RequestInv, NEW c \in Clients, NEW place \in Places, NEW key,
         NEW errors \in Seq(ErrorCodes), Move(c, place, key, errors)
  PROVE  RestInv(c)' /\ Moved(c, place, key, errors)
<1>1. /\ request' = [request EXCEPT ![c].at = place, ![c].key = key]
      /\ answer' = [answer EXCEPT ![c] = @ \o errors]
      /\ UNCHANGED << connection, joined, symbols, users, symbolsSeen, userSeen >>
  BY DEF Move, environment, history
<1>2. request'[c] = [at |-> place, message |-> request[c].message, key |-> key]
  <2>1. c \in DOMAIN request /\ request[c] = [at |-> request[c].at, message |-> request[c].message,
                                              key |-> request[c].key]
    BY DEF RequestInv, Shape
  <2>2. request'[c] = [[request[c] EXCEPT !.at = place] EXCEPT !.key = key]
    BY <1>1, <2>1
  <2> QED BY <2>1, <2>2
<1>3. answer'[c] = answer[c] \o errors /\ answer'[c] \in Seq(ErrorCodes)
  BY <1>1 DEF RequestInv, Shape
<1>4. \A d \in Clients \ {c} : request'[d] = request[d] /\ answer'[d] = answer[d]
  BY <1>1 DEF RequestInv, Shape
<1>5. Shape'
  BY <1>1, <1>2, <1>3, <1>4 DEF RequestInv, Shape
<1>6. ASSUME NEW d \in Clients \ {c} PROVE ClientInv(d)'
  <2>1. Untouched(d)
    BY <1>1, <1>4 DEF Untouched
  <2>2. Reads(d) => Reads(d)'
    BY <1>1 DEF Reads, Record, Public
  <2> QED BY <1>1, <2>1, <2>2, OthersKeep DEF RequestInv, ClientInv
<1>7. RestInv(c)'
  BY <1>5, <1>6 DEF RestInv
<1> QED BY <1>1, <1>2, <1>3, <1>7 DEF Moved

LEMMA RejectKeeps ==
  ASSUME RequestInv, NEW c \in Clients, ~Idle(c), NEW error \in ErrorCodes, Reject(c, error)
  PROVE  RequestInv'
<1>0. "idle" \in Places /\ <<error>> \in Seq(ErrorCodes)
  BY DEF Places
<1>1. Move(c, "idle", NoKey, <<error>>)
  BY DEF Reject
<1>2. /\ RestInv(c)'
      /\ request'[c].at = "idle" /\ answer'[c] = answer[c] \o <<error>>
      /\ joined' = joined
  <2>1. RestInv(c)' /\ Moved(c, "idle", NoKey, <<error>>)
    BY <1>0, <1>1, MoveStep
  <2> QED BY <2>1 DEF Moved
<1>3. answer'[c] # << >>
  BY <1>2 DEF RequestInv, Shape
<1>4. joined'[c] = NoKey
  BY <1>2 DEF RequestInv, ClientInv
<1>5. Established(c)'
  BY <1>2 DEF Established
<1>6. ClientInv(c)'
  BY <1>2, <1>3, <1>4, <1>5 DEF ClientInv, Idle
<1> QED BY <1>2, <1>6 DEF RequestInv, RestInv

LEMMA MoveOnKeeps ==
  ASSUME RequestInv, NEW c \in Clients, ~Idle(c), NEW place \in Places \ {"idle"}, NEW key,
         NEW errors \in Seq(ErrorCodes), Move(c, place, key, errors),
         Undecided(c)', Established(c)'
  PROVE  RequestInv'
<1>1. /\ RestInv(c)'
      /\ request'[c].at = place
      /\ UNCHANGED << connection, joined, symbols, users, symbolsSeen, userSeen >>
  <2>1. RestInv(c)' /\ Moved(c, place, key, errors)
    BY MoveStep
  <2> QED BY <2>1 DEF Moved
<1>2. Reads(c)'
  BY <1>1 DEF Reads, Record, Public, RequestInv, ClientInv
<1>3. joined'[c] = NoKey /\ ~Idle(c)'
  BY <1>1 DEF RequestInv, ClientInv, Idle
<1>4. ClientInv(c)'
  BY <1>2, <1>3 DEF ClientInv
<1> QED BY <1>1, <1>4 DEF RequestInv, RestInv

LEMMA SubscribeKeeps ==
  ASSUME RequestInv, NEW c \in Clients, ~Idle(c), answer[c] = << >>,
         NEW key, key # NoKey, KeyValid(c, key), Subscribe(c, key)
  PROVE  RequestInv'
<1>0. "add" \in Places \ {"idle"} /\ << >> \in Seq(ErrorCodes)
  BY DEF Places
<1>1. Move(c, "add", key, << >>)
  BY DEF Subscribe
<1>2. /\ request'[c] = [at |-> "add", message |-> request[c].message, key |-> key]
      /\ answer'[c] = answer[c] \o << >>
      /\ UNCHANGED << connection, joined, symbols, users, symbolsSeen, userSeen >>
  <2>1. RestInv(c)' /\ Moved(c, "add", key, << >>)
    BY <1>0, <1>1, MoveStep
  <2> QED BY <2>1 DEF Moved
<1>3. Undecided(c)'
  BY <1>2 DEF Undecided, RequestInv, Shape
<1>4. KeyValid(c, key)'
  BY <1>2, ValidStays
<1>5. Established(c)'
  BY <1>2, <1>4 DEF Established
<1> QED BY <1>0, <1>1, <1>3, <1>5, MoveOnKeeps

(* What a place asks of the handler that gets there.                        *)
Entry(c, place) ==
  LET message == request[c].message IN
  /\ place \in {"size", "client"} /\ Public(c) => message.currency_pair \in whitelist
  /\ place \in {"client", "exchanges"} => ~Public(c)
  /\ place = "client" =>
       \E l \in symbolsSeen[c] :
         message.currency_pair \in DOMAIN l /\ Size[message.size_filter] \in l[message.currency_pair]
  /\ place = "exchanges" => \E l \in symbolsSeen[c] : message.currency_pair \in DOMAIN l

LEMMA EntryKeeps ==
  ASSUME RequestInv, NEW c \in Clients, ~Idle(c), answer[c] = << >>,
         NEW place \in {"pair", "size", "client", "exchanges"}, Entry(c, place),
         NEW errors \in Seq(ErrorCodes), Move(c, place, NoKey, errors),
         \/ errors = << >>
         \/ place = "size" /\ Size[request[c].message.size_filter] < 0
  PROVE  RequestInv'
<1>0. place \in Places \ {"idle"}
  BY DEF Places
<1>1. Moved(c, place, NoKey, errors)
  BY <1>0, MoveStep
<1>2. /\ request'[c].at = place /\ request'[c].message = request[c].message
      /\ answer'[c] = << >> \o errors
      /\ connection' = connection /\ symbolsSeen' = symbolsSeen
  BY <1>1 DEF Moved
<1>3. Undecided(c)'
  BY <1>2 DEF Undecided
<1>4. Established(c)'
  BY <1>2 DEF Established, Entry, Public
<1> QED BY <1>0, <1>3, <1>4, MoveOnKeeps

LEMMA NoErrorYet ==
  ASSUME RequestInv, NEW c \in Clients, ~Idle(c), request[c].at # "size"
  PROVE  answer[c] = << >>
BY DEF RequestInv, ClientInv, Undecided

LEMMA IsReadyKeeps == ASSUME RequestInv, NEW c \in Clients, IsReady(c) PROVE RequestInv'
<1>1. ~Idle(c) /\ answer[c] = << >>
  BY NoErrorYet DEF IsReady, Idle
<1>2. CASE Reject(c, "ServerInitializing")
  BY <1>1, <1>2, RejectKeeps DEF ErrorCodes
<1>3. CASE Goto(c, "pair")
  <2>1. Entry(c, "pair")
    BY DEF Entry
  <2>2. Move(c, "pair", NoKey, << >>) /\ << >> \in Seq(ErrorCodes)
    BY <1>3 DEF Goto
  <2> QED BY <1>1, <2>1, <2>2, EntryKeeps
<1> QED BY <1>2, <1>3 DEF IsReady

LEMMA PairErrors == \A pair : PairError(pair) # "none" => PairError(pair) \in ErrorCodes
BY DEF PairError, ErrorCodes

LEMMA PairIsListed == \A pair : PairError(pair) = "none" => pair \in DOMAIN symbols
BY DEF PairError

LEMMA ParseSizeKeeps ==
  ASSUME RequestInv, NEW c \in Clients, ~Idle(c), answer[c] = << >>, ParseSize(c),
         Public(c) => request[c].message.currency_pair \in whitelist
  PROVE  RequestInv'
<1>1. Entry(c, "size")
  BY DEF Entry
<1>2. CASE Reject(c, "InvalidSizeFilter")
  BY <1>2, RejectKeeps DEF ErrorCodes
<1>3. CASE Size[request[c].message.size_filter] < 0
           /\ Move(c, "size", NoKey, <<"InvalidSizeFilter">>)
  <2>1. <<"InvalidSizeFilter">> \in Seq(ErrorCodes)
    BY DEF ErrorCodes
  <2> QED BY <1>1, <1>3, <2>1, EntryKeeps
<1>4. CASE Goto(c, "size")
  <2>1. Move(c, "size", NoKey, << >>) /\ << >> \in Seq(ErrorCodes)
    BY <1>4 DEF Goto
  <2> QED BY <1>1, <2>1, EntryKeeps
<1> QED BY <1>2, <1>3, <1>4 DEF ParseSize

LEMMA KeyKinds ==
  ASSUME NEW c, NEW message, NEW markets
  PROVE  KeyOf(c, message, markets) # NoKey /\ KeyOf(c, message, markets).kind # "LegacyCbbo"
         /\ KeyOf(c, message, markets).currency_pair = message.currency_pair
BY DEF KeyOf, Snapshot, Direct, NoKey

LEMMA CheckShapeKeeps ==
  ASSUME RequestInv, NEW c \in Clients, ~Idle(c), answer[c] = << >>, CheckShape(c),
         \E l \in symbolsSeen[c] : request[c].message.currency_pair \in DOMAIN l
  PROVE  RequestInv'
<1> DEFINE key == Snapshot(request[c].message.currency_pair, PublicMarkets, 200, 30000)
<1>1. CASE Reject(c, "InvalidDepthLimit") \/ Reject(c, "InvalidExchanges")
  BY <1>1, RejectKeeps DEF ErrorCodes
<1>2. CASE Public(c) /\ Subscribe(c, key)
  <2>1. key # NoKey /\ key.kind # "LegacyCbbo"
        /\ key.currency_pair = request[c].message.currency_pair
    BY DEF Snapshot, NoKey
  <2>2. KeyValid(c, key)
    BY <1>2, <2>1 DEF KeyValid, ExchangesValid
  <2> HIDE DEF key
  <2> QED BY <1>2, <2>1, <2>2, SubscribeKeeps
<1>3. CASE ~Public(c) /\ Goto(c, "exchanges")
  <2>1. Move(c, "exchanges", NoKey, << >>) /\ << >> \in Seq(ErrorCodes)
    BY <1>3 DEF Goto
  <2>2. Entry(c, "exchanges")
    BY <1>3 DEF Entry
  <2> QED BY <2>1, <2>2, EntryKeeps
<1> QED BY <1>1, <1>2, <1>3 DEF CheckShape

LEMMA CheckPairKeeps == ASSUME RequestInv, NEW c \in Clients, CheckPair(c) PROVE RequestInv'
<1> DEFINE pair == request[c].message.currency_pair
<1>1. ~Idle(c) /\ answer[c] = << >>
  BY NoErrorYet DEF CheckPair, Idle
<1>2. CASE \E error \in ErrorCodes : Reject(c, error)
  BY <1>1, <1>2, RejectKeeps
<1>3. CASE /\ connection[c].route = "public cbbo" => pair \in whitelist
           /\ PairError(pair) = "none"
           /\ IF connection[c].route \in CbboRoutes THEN ParseSize(c) ELSE CheckShape(c)
  <2>1. pair \in DOMAIN symbols /\ symbols \in symbolsSeen[c]
    BY <1>1, <1>3, PairIsListed DEF RequestInv, ClientInv, Reads
  <2>2. CASE connection[c].route \in CbboRoutes
    <3>1. Public(c) => pair \in whitelist
      BY <1>3, <2>2 DEF Public, PublicRoutes, CbboRoutes
    <3> QED BY <1>1, <1>3, <2>2, <3>1, ParseSizeKeeps
  <2>3. CASE connection[c].route \notin CbboRoutes
    BY <1>1, <1>3, <2>1, <2>3, CheckShapeKeeps
  <2> QED BY <2>2, <2>3
<1>4. /\ "InvalidSubscriptionMessage" \in ErrorCodes /\ "InvalidCurrencyPair" \in ErrorCodes
      /\ PairError(pair) # "none" => PairError(pair) \in ErrorCodes
  BY PairErrors DEF ErrorCodes
<1>5. \/ \E error \in ErrorCodes : Reject(c, error)
      \/ /\ connection[c].route = "public cbbo" => pair \in whitelist
         /\ PairError(pair) = "none"
         /\ IF connection[c].route \in CbboRoutes THEN ParseSize(c) ELSE CheckShape(c)
  BY <1>4 DEF CheckPair
<1> QED BY <1>2, <1>3, <1>5

LEMMA CheckSizeKeeps == ASSUME RequestInv, NEW c \in Clients, CheckSize(c) PROVE RequestInv'
<1> DEFINE pair == request[c].message.currency_pair
           text == request[c].message.size_filter
           key  == LegacyCbbo(pair, text, << >>)
<1>1. ~Idle(c) /\ Reads(c) /\ Undecided(c)
      /\ (Public(c) => pair \in whitelist)
  BY DEF CheckSize, Idle, RequestInv, ClientInv, Established
<1>2. CASE \E error \in ErrorCodes : Reject(c, error)
  BY <1>1, <1>2, RejectKeeps
<1>3. CASE /\ PairError(pair) = "none" /\ SizeListed(pair, Size[text])
           /\ IF Public(c) THEN Subscribe(c, key) ELSE Goto(c, "client")
  <2>1. pair \in DOMAIN symbols /\ Size[text] \in symbols[pair]
    BY <1>3, PairIsListed DEF SizeListed
  <2>2. \E l \in symbolsSeen[c] : pair \in DOMAIN l /\ Size[text] \in l[pair]
    BY <1>1, <2>1 DEF Reads
  <2>3. answer[c] = << >>
    <3>1. Size[text] \in Nat
      BY <2>1, RequestAssumption DEF RequestInv, Shape
    <3>2. ~ (Size[text] < 0)
      BY <3>1
    <3> QED BY <1>1, <3>2 DEF Undecided
  <2>4. CASE Public(c) /\ Subscribe(c, key)
    <3>1. /\ key # NoKey /\ key.kind = "LegacyCbbo" /\ key.currency_pair = pair
          /\ key.size_filter = text /\ key.client_id = << >>
      BY DEF LegacyCbbo, NoKey
    <3> HIDE DEF key
    <3>2. KeyValid(c, key)
      BY <1>1, <2>2, <2>4, <3>1 DEF KeyValid, CbboValid
    <3> QED BY <1>1, <2>3, <2>4, <3>1, <3>2, SubscribeKeeps
  <2>5. CASE ~Public(c) /\ Goto(c, "client")
    <3>1. Move(c, "client", NoKey, << >>) /\ << >> \in Seq(ErrorCodes)
      BY <2>5 DEF Goto
    <3>2. Entry(c, "client")
      BY <2>2, <2>5 DEF Entry
    <3> QED BY <1>1, <2>3, <3>1, <3>2, EntryKeeps
  <2> QED BY <1>3, <2>4, <2>5
<1>4. /\ "InvalidSizeFilter" \in ErrorCodes
      /\ PairError(pair) # "none" => PairError(pair) \in ErrorCodes
  BY PairErrors DEF ErrorCodes
<1> QED BY <1>2, <1>3, <1>4 DEF CheckSize

LEMMA ReadClientKeeps == ASSUME RequestInv, NEW c \in Clients, ReadClient(c) PROVE RequestInv'
<1> DEFINE pair == request[c].message.currency_pair
           text == request[c].message.size_filter
           name == ClientName(Record(c).client_id, connection[c].market_data_id)
           key  == LegacyCbbo(pair, text, name)
<1>1. /\ ~Idle(c) /\ answer[c] = << >> /\ Reads(c) /\ ~Public(c)
      /\ \E l \in symbolsSeen[c] : pair \in DOMAIN l /\ Size[text] \in l[pair]
  BY NoErrorYet DEF ReadClient, Idle, RequestInv, ClientInv, Established
<1>2. /\ key # NoKey /\ key.kind = "LegacyCbbo" /\ key.currency_pair = pair
      /\ key.size_filter = text /\ key.client_id = name
  BY DEF LegacyCbbo, NoKey
<1>3. Subscribe(c, key)
  BY DEF ReadClient
<1> HIDE DEF key
<1>4. KeyValid(c, key)
  BY <1>1, <1>2 DEF KeyValid, CbboValid, Reads
<1> QED BY <1>1, <1>2, <1>3, <1>4, SubscribeKeeps

LEMMA ReadExchangesKeeps ==
  ASSUME RequestInv, NEW c \in Clients, ReadExchanges(c) PROVE RequestInv'
<1> DEFINE message == request[c].message
           key == KeyOf(c, message, MarketsIn(Record(c), message.exchanges,
                                              connection[c].market_data_id))
<1>1. /\ ~Idle(c) /\ answer[c] = << >> /\ Reads(c) /\ ~Public(c)
      /\ \E l \in symbolsSeen[c] : message.currency_pair \in DOMAIN l
  BY NoErrorYet DEF ReadExchanges, Idle, RequestInv, ClientInv, Established
<1>2. CASE Reject(c, "InvalidExchanges")
  BY <1>1, <1>2, RejectKeeps DEF ErrorCodes
<1>3. CASE HasExchanges(Record(c), message.exchanges) /\ Subscribe(c, key)
  <2>1. /\ key # NoKey /\ key.kind # "LegacyCbbo" /\ key.currency_pair = message.currency_pair
    BY KeyKinds
  <2>2. KeyValid(c, key)
    BY <1>1, <1>3, <2>1 DEF KeyValid, ExchangesValid, Reads
  <2> HIDE DEF key
  <2> QED BY <1>1, <1>3, <2>1, <2>2, SubscribeKeeps
<1> QED BY <1>2, <1>3 DEF ReadExchanges

LEMMA JoinKeeps == ASSUME RequestInv, NEW c \in Clients, Join(c) PROVE RequestInv'
<1>1. /\ ~Idle(c) /\ answer[c] = << >>
      /\ request[c].key # NoKey /\ KeyValid(c, request[c].key)
  BY NoErrorYet DEF Join, Idle, RequestInv, ClientInv, Established
<1>2. /\ request' = [request EXCEPT ![c].at = "idle", ![c].key = NoKey]
      /\ joined' = [joined EXCEPT ![c] = request[c].key]
      /\ UNCHANGED << connection, answer, symbols, users, symbolsSeen, userSeen >>
  BY DEF Join, environment, history
<1>3. request'[c] = [at |-> "idle", message |-> request[c].message, key |-> NoKey]
  <2>1. c \in DOMAIN request /\ request[c] = [at |-> request[c].at, message |-> request[c].message,
                                              key |-> request[c].key]
    BY DEF RequestInv, Shape
  <2>2. request'[c] = [[request[c] EXCEPT !.at = "idle"] EXCEPT !.key = NoKey]
    BY <1>2, <2>1
  <2> QED BY <2>1, <2>2
<1>4. /\ joined'[c] = request[c].key
      /\ \A d \in Clients \ {c} : request'[d] = request[d] /\ joined'[d] = joined[d]
      /\ DOMAIN request' = Clients /\ DOMAIN joined' = Clients
  BY <1>2 DEF RequestInv, Shape
<1>5. Shape'
  BY <1>2, <1>3, <1>4 DEF RequestInv, Shape, Places
<1>6. ASSUME NEW d \in Clients \ {c} PROVE ClientInv(d)'
  <2>1. Untouched(d) /\ (Reads(d) => Reads(d)')
    BY <1>2, <1>4 DEF Untouched, Reads, Record, Public
  <2> QED BY <1>2, <2>1, OthersKeep DEF RequestInv, ClientInv
<1>7. ClientInv(c)'
  <2>0. /\ request'[c].message = request[c].message /\ connection'[c] = connection[c]
        /\ symbolsSeen[c] \subseteq symbolsSeen'[c] /\ userSeen[c] \subseteq userSeen'[c]
    BY <1>2, <1>3
  <2>1. \A key : KeyValid(c, key) => KeyValid(c, key)'
    BY <2>0, ValidStays
  <2>2. KeyValid(c, joined'[c])
    BY <1>1, <1>4
  <2>3. KeyValid(c, joined[c])'
    BY <2>1, <2>2
  <2>4. request'[c].at = "idle" /\ answer'[c] = << >> /\ joined'[c] # NoKey
    BY <1>1, <1>2, <1>3, <1>4
  <2>5. Established(c)'
    BY <2>4 DEF Established
  <2> QED BY <2>3, <2>4, <2>5 DEF ClientInv, Idle
<1> QED BY <1>5, <1>6, <1>7 DEF RequestInv

(* A client between two messages: nothing is established but the verdict.   *)
LEMMA IdleKeeps ==
  ASSUME NEW c \in Clients, request'[c].at = "idle", joined'[c] = NoKey,
         request'[c].message = NoMessage \/ answer'[c] # << >>
  PROVE  ClientInv(c)'
BY DEF ClientInv, Established, Idle

LEMMA ReceiveKeeps ==
  ASSUME RequestInv, NEW c \in Clients, NEW m, ReceiveMessage(c, m) PROVE RequestInv'
<1> DEFINE place == IF connection[c].route \in CbboRoutes THEN "pair" ELSE "ready"
<1>1. /\ request' = [request EXCEPT ![c] = [at |-> place, message |-> m, key |-> NoKey]]
      /\ answer' = [answer EXCEPT ![c] = << >>]
      /\ joined' = [joined EXCEPT ![c] = NoKey]
      /\ symbolsSeen' = [symbolsSeen EXCEPT ![c] = {symbols}]
      /\ userSeen' = [userSeen EXCEPT ![c] = IF Public(c) THEN {} ELSE {Record(c)}]
      /\ UNCHANGED << connection, symbols, users >>
  BY DEF ReceiveMessage, environment
<1>2. place \in {"pair", "ready"}
  OBVIOUS
<1> HIDE DEF place
<1>3. /\ request'[c] = [at |-> place, message |-> m, key |-> NoKey]
      /\ answer'[c] = << >> /\ joined'[c] = NoKey /\ symbolsSeen'[c] = {symbols}
      /\ userSeen'[c] = IF Public(c) THEN {} ELSE {Record(c)}
  BY <1>1 DEF RequestInv, Shape
<1>4. \A d \in Clients \ {c} :
        /\ request'[d] = request[d] /\ answer'[d] = answer[d] /\ joined'[d] = joined[d]
        /\ symbolsSeen'[d] = symbolsSeen[d] /\ userSeen'[d] = userSeen[d]
  BY <1>1 DEF RequestInv, Shape
<1>5. Shape'
  <2>1. << >> \in Seq(ErrorCodes) /\ place \in Places
    BY <1>2 DEF Places
  <2>2. /\ DOMAIN request' = Clients /\ DOMAIN answer' = Clients /\ DOMAIN joined' = Clients
        /\ DOMAIN symbolsSeen' = Clients /\ DOMAIN userSeen' = Clients
    BY <1>1 DEF RequestInv, Shape
  <2> QED BY <1>1, <1>3, <1>4, <2>1, <2>2 DEF RequestInv, Shape
<1>6. ASSUME NEW d \in Clients \ {c} PROVE ClientInv(d)'
  <2>1. Untouched(d) /\ (Reads(d) => Reads(d)')
        /\ symbolsSeen[d] \subseteq symbolsSeen'[d] /\ userSeen[d] \subseteq userSeen'[d]
    BY <1>1, <1>4 DEF Untouched, Reads, Record, Public
  <2> QED BY <2>1, OthersKeep DEF RequestInv, ClientInv
<1>7. ClientInv(c)'
  <2>1. request'[c].at = place /\ Established(c)'
    BY <1>2, <1>3 DEF Established
  <2>2. Undecided(c)'
    BY <1>3 DEF Undecided
  <2>3. Reads(c)'
    BY <1>1, <1>3 DEF Reads, Record, Public
  <2> QED BY <1>2, <1>3, <2>1, <2>2, <2>3 DEF ClientInv, Idle
<1> QED BY <1>5, <1>6, <1>7 DEF RequestInv

LEMMA ConnectKeeps ==
  ASSUME RequestInv, NEW c \in Clients, NEW login, Connect(c, login) PROVE RequestInv'
<1>1. /\ request' = [request EXCEPT ![c] = NoRequest]
      /\ answer' = [answer EXCEPT ![c] = << >>]
      /\ joined' = [joined EXCEPT ![c] = NoKey]
      /\ connection' = [connection EXCEPT ![c] = login]
      /\ symbolsSeen' = [symbolsSeen EXCEPT ![c] = {}]
      /\ userSeen' = [userSeen EXCEPT ![c] = {}]
      /\ UNCHANGED << symbols, users >>
  BY DEF Connect, environment
<1>2. request'[c] = NoRequest /\ answer'[c] = << >> /\ joined'[c] = NoKey
  BY <1>1 DEF RequestInv, Shape
<1>3. \A d \in Clients \ {c} :
        /\ request'[d] = request[d] /\ answer'[d] = answer[d] /\ joined'[d] = joined[d]
        /\ connection'[d] = connection[d]
        /\ symbolsSeen'[d] = symbolsSeen[d] /\ userSeen'[d] = userSeen[d]
  BY <1>1 DEF RequestInv, Shape
<1>4. Shape'
  <2>1. << >> \in Seq(ErrorCodes)
    OBVIOUS
  <2>2. /\ DOMAIN request' = Clients /\ DOMAIN answer' = Clients /\ DOMAIN joined' = Clients
        /\ DOMAIN connection' = Clients
        /\ DOMAIN symbolsSeen' = Clients /\ DOMAIN userSeen' = Clients
    BY <1>1 DEF RequestInv, Shape
  <2> QED BY <1>1, <1>2, <1>3, <2>1, <2>2 DEF RequestInv, Shape, NoRequest, Places
<1>5. ASSUME NEW d \in Clients \ {c} PROVE ClientInv(d)'
  <2>1. Untouched(d) /\ (Reads(d) => Reads(d)')
        /\ symbolsSeen[d] \subseteq symbolsSeen'[d] /\ userSeen[d] \subseteq userSeen'[d]
    BY <1>1, <1>3 DEF Untouched, Reads, Record, Public
  <2> QED BY <2>1, OthersKeep DEF RequestInv, ClientInv
<1>6. ClientInv(c)'
  BY <1>2, IdleKeeps DEF NoRequest
<1> QED BY <1>4, <1>5, <1>6 DEF RequestInv

(* The environment: what it replaces is noted for those who are busy.       *)
LEMMA SymbolsKeep ==
  ASSUME RequestInv, NEW listing \in Listings, ReplaceSymbols(listing) PROVE RequestInv'
<1>1. /\ UNCHANGED << connection, users, request, answer, joined, userSeen >>
      /\ symbols' = listing
      /\ symbolsSeen' = [c \in Clients |->
                           symbolsSeen[c] \cup (IF Idle(c) THEN {} ELSE {listing})]
  BY DEF ReplaceSymbols
<1>2. Shape'
  BY <1>1 DEF RequestInv, Shape
<1>3. ASSUME NEW c \in Clients PROVE ClientInv(c)'
  <2>1. Untouched(c) /\ symbolsSeen[c] \subseteq symbolsSeen'[c] /\ userSeen[c] \subseteq userSeen'[c]
    BY <1>1 DEF Untouched
  <2>2. ~Idle(c) => Reads(c)'
    BY <1>1 DEF Reads, Record, Public, RequestInv, ClientInv
  <2> QED BY <2>1, <2>2, OthersKeep DEF RequestInv
<1> QED BY <1>2, <1>3 DEF RequestInv

LEMMA UserKeeps ==
  ASSUME RequestInv, NEW u \in Users, NEW record, ReplaceUser(u, record) PROVE RequestInv'
<1>1. /\ UNCHANGED << connection, symbols, request, answer, joined, symbolsSeen >>
      /\ users' = [users EXCEPT ![u] = record]
      /\ userSeen' = [c \in Clients |->
           userSeen[c] \cup (IF Idle(c) \/ connection[c].user # u THEN {} ELSE {record})]
  BY DEF ReplaceUser
<1>2. Shape'
  BY <1>1 DEF RequestInv, Shape
<1>3. ASSUME NEW c \in Clients PROVE ClientInv(c)'
  <2>1. Untouched(c) /\ symbolsSeen[c] \subseteq symbolsSeen'[c] /\ userSeen[c] \subseteq userSeen'[c]
    BY <1>1 DEF Untouched
  <2>2. ~Idle(c) => Reads(c)'
    <3>1. users'[connection[c].user] = IF connection[c].user = u THEN record
                                       ELSE users[connection[c].user]
      BY <1>1 DEF RequestInv, Shape
    <3> QED BY <1>1, <3>1 DEF Reads, Record, Public, RequestInv, ClientInv
  <2> QED BY <2>1, <2>2, OthersKeep DEF RequestInv
<1> QED BY <1>2, <1>3 DEF RequestInv

LEMMA NothingKeeps ==
  ASSUME RequestInv,
         UNCHANGED << connection, symbols, users, request, answer, joined, symbolsSeen, userSeen >>
  PROVE  RequestInv'
<1>1. Shape'
  BY DEF RequestInv, Shape
<1>2. ASSUME NEW c \in Clients PROVE ClientInv(c)'
  <2>1. Untouched(c) /\ (Reads(c) => Reads(c)')
        /\ symbolsSeen[c] \subseteq symbolsSeen'[c] /\ userSeen[c] \subseteq userSeen'[c]
    BY DEF Untouched, Reads, Record, Public
  <2> QED BY <2>1, OthersKeep DEF RequestInv, ClientInv
<1> QED BY <1>1, <1>2 DEF RequestInv

LEMMA StepInv == RequestInv /\ [RequestNext]_requestVars => RequestInv'
<1> SUFFICES ASSUME RequestInv, [RequestNext]_requestVars PROVE RequestInv'
  OBVIOUS
<1>1. ASSUME NEW c \in Clients, RequestStep(c) PROVE RequestInv'
  <2>1. CASE \E error \in Refusals : RefuseToAdd(c, error)
    <3>1. PICK error \in Refusals : RefuseToAdd(c, error)
      BY <2>1
    <3>2. ~Idle(c) /\ error \in ErrorCodes /\ Reject(c, error)
      BY <3>1 DEF RefuseToAdd, Idle, Refusals, ErrorCodes
    <3> QED BY <3>2, RejectKeeps
  <2> QED BY <1>1, <2>1, IsReadyKeeps, CheckPairKeeps, CheckSizeKeeps, ReadClientKeeps,
             ReadExchangesKeeps, JoinKeeps DEF RequestStep
<1>2. ASSUME NEW c \in Clients, NEW m, ReceiveMessage(c, m) PROVE RequestInv'
  BY <1>2, ReceiveKeeps
<1>3. ASSUME NEW c \in Clients, NEW key, LoseFeed(c, key) PROVE RequestInv'
  BY <1>3, NothingKeeps DEF LoseFeed, environment, history
<1>4. ASSUME NEW c \in Clients, NEW login, Connect(c, login) PROVE RequestInv'
  BY <1>4, ConnectKeeps
<1>5. ASSUME NEW l \in Listings, ReplaceSymbols(l) PROVE RequestInv'
  BY <1>5, SymbolsKeep
<1>6. ASSUME NEW u \in Users, NEW r, ReplaceUser(u, r) PROVE RequestInv'
  BY <1>6, UserKeeps
<1>7. CASE UNCHANGED requestVars
  BY <1>7, NothingKeeps DEF requestVars, history
<1> QED BY <1>1, <1>2, <1>3, <1>4, <1>5, <1>6, <1>7 DEF RequestNext

-----------------------------------------------------------------------------
THEOREM RequestInvariance == RequestSpec => []RequestInv
<1>1. RequestInit => RequestInv
  BY InitInv
<1>2. RequestInv /\ [RequestNext]_requestVars => RequestInv'
  BY StepInv
<1> QED BY <1>1, <1>2, PTL DEF RequestSpec

(* A message ends with a subscription or an error and never with both, in   *)
(* spite of the return that is missing after a size filter below zero: no   *)
(* listing has such a size, so the handler's next check fails.              *)
THEOREM VerdictHolds == RequestSpec => []Verdict
<1>1. RequestInv => Verdict
  BY DEF RequestInv, ClientInv, Verdict
<1> QED BY <1>1, RequestInvariance, PTL

(* What is joined was valid by one listing and one record that there were   *)
(* while its message was handled, whatever was replaced meanwhile.          *)
THEOREM AcceptedWhole == RequestSpec => []AcceptedTogether
<1>1. RequestInv => AcceptedTogether
  BY DEF RequestInv, ClientInv, KeyValid, AcceptedTogether
<1> QED BY <1>1, RequestInvariance, PTL

-----------------------------------------------------------------------------
(* Errors.  What justifies one stays seen; so a step is to justify what it  *)
(* adds.                                                                    *)
Kept(c) ==
  /\ request'[c].message = request[c].message /\ connection'[c] = connection[c]
  /\ symbolsSeen[c] \subseteq symbolsSeen'[c] /\ userSeen[c] \subseteq userSeen'[c]

LEMMA JustifiedStays ==
  ASSUME NEW c \in Clients, NEW error, Justified(c, error), Kept(c)
  PROVE  Justified(c, error)'
BY DEF Justified, Kept, DepthOutOfRange

LEMMA TellKeeps ==
  ASSUME RequestInv, Pertinent, NEW c \in Clients, NEW place \in Places, NEW key,
         NEW errors \in Seq(ErrorCodes), Move(c, place, key, errors),
         \A i \in DOMAIN errors : Justified(c, errors[i])
  PROVE  Pertinent'
<1>1. /\ request'[c].message = request[c].message
      /\ answer'[c] = answer[c] \o errors
      /\ UNCHANGED << connection, symbolsSeen, userSeen >>
  <2>1. Moved(c, place, key, errors)
    BY MoveStep
  <2> QED BY <2>1 DEF Moved
<1>2. \A d \in Clients \ {c} : request'[d] = request[d] /\ answer'[d] = answer[d]
  BY DEF Move, RequestInv, Shape
<1>3. \A d \in Clients : Kept(d)
  BY <1>1, <1>2 DEF Kept
<1>4. ASSUME NEW d \in Clients, NEW error \in ToSet(answer'[d]) PROVE Justified(d, error)
  <2>1. CASE d # c
    BY <1>2, <1>4, <2>1 DEF Pertinent
  <2>2. CASE d = c
    <3>1. answer[c] \in Seq(ErrorCodes)
      BY DEF RequestInv, Shape
    <3>2. PICK i \in 1 .. Len(answer[c]) + Len(errors) : (answer[c] \o errors)[i] = error
      <4>1. DOMAIN (answer[c] \o errors) = 1 .. Len(answer[c]) + Len(errors)
        BY <3>1
      <4>2. error \in ToSet(answer[c] \o errors)
        BY <1>1, <1>4, <2>2
      <4> QED BY <4>1, <4>2 DEF ToSet
    <3>3. CASE i <= Len(answer[c])
      <4>1. error = answer[c][i] /\ i \in DOMAIN answer[c]
        BY <3>1, <3>2, <3>3
      <4> QED BY <2>2, <4>1 DEF Pertinent, ToSet
    <3>4. CASE i > Len(answer[c])
      <4>1. /\ error = errors[i - Len(answer[c])]
            /\ i - Len(answer[c]) \in DOMAIN errors
        BY <3>1, <3>2, <3>4
      <4> QED BY <2>2, <4>1
    <3> QED BY <3>1, <3>3, <3>4
  <2> QED BY <2>1, <2>2
<1>5. ASSUME NEW d \in Clients, NEW error \in ToSet(answer'[d]) PROVE Justified(d, error)'
  BY <1>3, <1>4, JustifiedStays
<1> QED BY <1>5 DEF Pertinent, ToSet

(* A step that tells nobody anything, but may clear what was told.          *)
LEMMA SilentKeeps ==
  ASSUME Pertinent,
         \A c \in Clients : answer'[c] = << >> \/ (answer'[c] = answer[c] /\ Kept(c))
  PROVE  Pertinent'
<1>1. ASSUME NEW c \in Clients, NEW error \in ToSet(answer'[c]) PROVE Justified(c, error)'
  <2>1. answer'[c] = answer[c] /\ Kept(c)
    BY <1>1 DEF ToSet
  <2>2. Justified(c, error)
    BY <1>1, <2>1 DEF Pertinent
  <2> QED BY <2>1, <2>2, JustifiedStays
<1> QED BY <1>1 DEF Pertinent, ToSet

LEMMA RejectTells ==
  ASSUME RequestInv, Pertinent, NEW c \in Clients, NEW error \in ErrorCodes,
         Reject(c, error), Justified(c, error)
  PROVE  Pertinent'
<1> DEFINE errors == <<error>>
<1>1. Move(c, "idle", NoKey, errors) /\ "idle" \in Places
  BY DEF Reject, Places
<1>2. errors \in Seq(ErrorCodes)
  OBVIOUS
<1>3. \A i \in DOMAIN errors : errors[i] = error
  OBVIOUS
<1> HIDE DEF errors
<1>4. \A i \in DOMAIN errors : Justified(c, errors[i])
  BY <1>3
<1> QED BY <1>1, <1>2, <1>4, TellKeeps

LEMMA MoveTells ==
  ASSUME RequestInv, Pertinent, NEW c \in Clients, NEW place \in Places, NEW key,
         Move(c, place, key, << >>)
  PROVE  Pertinent'
<1> DEFINE errors == << >>
<1>1. errors \in Seq(ErrorCodes) /\ DOMAIN errors = {} /\ Move(c, place, key, errors)
  OBVIOUS
<1> HIDE DEF errors
<1> QED BY <1>1, TellKeeps

LEMMA SubscribeTells ==
  ASSUME RequestInv, Pertinent, NEW c \in Clients, NEW key, Subscribe(c, key)
  PROVE  Pertinent'
BY MoveTells DEF Subscribe, Places

LEMMA GotoTells ==
  ASSUME RequestInv, Pertinent, NEW c \in Clients, NEW place \in Places, Goto(c, place)
  PROVE  Pertinent'
BY MoveTells DEF Goto

LEMMA PairErrorJustified ==
  ASSUME NEW c \in Clients, symbols \in symbolsSeen[c],
         PairError(request[c].message.currency_pair) # "none"
  PROVE  Justified(c, PairError(request[c].message.currency_pair))
BY DEF PairError, HasSymbols, Justified

LEMMA BusyReads ==
  ASSUME RequestInv, NEW c \in Clients, request[c].at # "idle"
  PROVE  Reads(c)
BY DEF RequestInv, ClientInv, Idle

LEMMA IsReadyTells == ASSUME RequestInv, Pertinent, NEW c \in Clients, IsReady(c) PROVE Pertinent'
<1>1. symbols \in symbolsSeen[c]
  BY BusyReads DEF IsReady, Reads
<1>2. CASE ~HasSymbols /\ Reject(c, "ServerInitializing")
  <2>1. Justified(c, "ServerInitializing") /\ "ServerInitializing" \in ErrorCodes
    BY <1>1, <1>2 DEF Justified, HasSymbols, ErrorCodes
  <2> QED BY <1>2, <2>1, RejectTells
<1>3. CASE Goto(c, "pair")
  BY <1>3, GotoTells DEF Places
<1> QED BY <1>2, <1>3 DEF IsReady

LEMMA ParseSizeTells ==
  ASSUME RequestInv, Pertinent, NEW c \in Clients, ParseSize(c), symbols \in symbolsSeen[c],
         request[c].message.currency_pair \in DOMAIN symbols
  PROVE  Pertinent'
<1> DEFINE size == Size[request[c].message.size_filter]
           errors == <<"InvalidSizeFilter">>
<1>1. errors \in Seq(ErrorCodes) /\ \A i \in DOMAIN errors : errors[i] = "InvalidSizeFilter"
  BY DEF ErrorCodes
<1>2. CASE size = NotANumber /\ Reject(c, "InvalidSizeFilter")
  <2>1. Justified(c, "InvalidSizeFilter") /\ "InvalidSizeFilter" \in ErrorCodes
    BY <1>2 DEF Justified, ErrorCodes
  <2> QED BY <1>2, <2>1, RejectTells
<1>3. CASE size < 0 /\ Move(c, "size", NoKey, errors)
  <2>1. symbols[request[c].message.currency_pair] \subseteq Nat
    BY RequestAssumption DEF RequestInv, Shape
  <2>2. size \notin symbols[request[c].message.currency_pair]
    BY <1>3, <2>1
  <2>3. Justified(c, "InvalidSizeFilter")
    BY <2>2 DEF Justified
  <2>4. \A i \in DOMAIN errors : Justified(c, errors[i])
    BY <1>1, <2>3
  <2> HIDE DEF errors, size
  <2> QED BY <1>1, <1>3, <2>4, TellKeeps DEF Places
<1>4. CASE Goto(c, "size")
  BY <1>4, GotoTells DEF Places
<1> QED BY <1>2, <1>3, <1>4 DEF ParseSize

LEMMA CheckShapeTells ==
  ASSUME RequestInv, Pertinent, NEW c \in Clients, CheckShape(c) PROVE Pertinent'
<1>1. CASE DepthOutOfRange(c) /\ Reject(c, "InvalidDepthLimit")
  <2>1. Justified(c, "InvalidDepthLimit") /\ "InvalidDepthLimit" \in ErrorCodes
    BY <1>1 DEF Justified, ErrorCodes
  <2> QED BY <1>1, <2>1, RejectTells
<1>2. CASE request[c].message.exchanges = << >> /\ Reject(c, "InvalidExchanges")
  <2>1. Justified(c, "InvalidExchanges") /\ "InvalidExchanges" \in ErrorCodes
    BY <1>2 DEF Justified, ErrorCodes
  <2> QED BY <1>2, <2>1, RejectTells
<1>3. CASE \/ Goto(c, "exchanges")
           \/ Subscribe(c, Snapshot(request[c].message.currency_pair, PublicMarkets, 200, 30000))
  BY <1>3, GotoTells, SubscribeTells DEF Places
<1> QED BY <1>1, <1>2, <1>3 DEF CheckShape

LEMMA CheckPairTells ==
  ASSUME RequestInv, Pertinent, NEW c \in Clients, CheckPair(c) PROVE Pertinent'
<1> DEFINE pair == request[c].message.currency_pair
<1>1. symbols \in symbolsSeen[c]
  BY BusyReads DEF CheckPair, Reads
<1>2. CASE request[c].message = Garbled /\ Reject(c, "InvalidSubscriptionMessage")
  <2>1. Justified(c, "InvalidSubscriptionMessage") /\ "InvalidSubscriptionMessage" \in ErrorCodes
    BY <1>2 DEF Justified, ErrorCodes
  <2> QED BY <1>2, <2>1, RejectTells
<1>3. CASE /\ connection[c].route = "public cbbo" /\ pair \notin whitelist
           /\ Reject(c, "InvalidCurrencyPair")
  <2>1. Justified(c, "InvalidCurrencyPair") /\ "InvalidCurrencyPair" \in ErrorCodes
    BY <1>3 DEF Justified, ErrorCodes
  <2> QED BY <1>3, <2>1, RejectTells
<1>4. CASE PairError(pair) # "none" /\ Reject(c, PairError(pair))
  BY <1>1, <1>4, PairErrors, PairErrorJustified, RejectTells
<1>5. CASE /\ PairError(pair) = "none"
           /\ IF connection[c].route \in CbboRoutes THEN ParseSize(c) ELSE CheckShape(c)
  BY <1>1, <1>5, PairIsListed, ParseSizeTells, CheckShapeTells
<1> QED BY <1>2, <1>3, <1>4, <1>5 DEF CheckPair

LEMMA CheckSizeTells ==
  ASSUME RequestInv, Pertinent, NEW c \in Clients, CheckSize(c) PROVE Pertinent'
<1> DEFINE pair == request[c].message.currency_pair
           size == Size[request[c].message.size_filter]
<1>1. symbols \in symbolsSeen[c]
  BY BusyReads DEF CheckSize, Reads
<1>2. CASE PairError(pair) # "none" /\ Reject(c, PairError(pair))
  BY <1>1, <1>2, PairErrors, PairErrorJustified, RejectTells
<1>3. CASE PairError(pair) = "none" /\ ~SizeListed(pair, size) /\ Reject(c, "InvalidSizeFilter")
  <2>1. pair \in DOMAIN symbols /\ size \notin symbols[pair]
    BY <1>3, PairIsListed DEF SizeListed
  <2>2. Justified(c, "InvalidSizeFilter") /\ "InvalidSizeFilter" \in ErrorCodes
    BY <1>1, <2>1 DEF Justified, ErrorCodes
  <2> QED BY <1>3, <2>2, RejectTells
<1>4. CASE \/ Goto(c, "client")
           \/ Subscribe(c, LegacyCbbo(pair, request[c].message.size_filter, << >>))
  BY <1>4, GotoTells, SubscribeTells DEF Places
<1> QED BY <1>2, <1>3, <1>4 DEF CheckSize

LEMMA ReadExchangesTells ==
  ASSUME RequestInv, Pertinent, NEW c \in Clients, ReadExchanges(c) PROVE Pertinent'
<1> DEFINE exchanges == request[c].message.exchanges
<1>1. ~Public(c) /\ Record(c) \in userSeen[c]
  BY BusyReads DEF ReadExchanges, Reads, RequestInv, ClientInv, Established
<1>2. CASE ~HasExchanges(Record(c), exchanges) /\ Reject(c, "InvalidExchanges")
  <2>1. Justified(c, "InvalidExchanges") /\ "InvalidExchanges" \in ErrorCodes
    BY <1>1, <1>2 DEF Justified, ErrorCodes
  <2> QED BY <1>2, <2>1, RejectTells
<1>3. CASE \E key : Subscribe(c, key)
  BY <1>3, SubscribeTells
<1> QED BY <1>2, <1>3 DEF ReadExchanges

LEMMA RefuseTells ==
  ASSUME RequestInv, Pertinent, NEW c \in Clients, NEW error \in Refusals, RefuseToAdd(c, error)
  PROVE  Pertinent'
<1>1. Justified(c, error) /\ error \in ErrorCodes
  BY DEF Refusals, Justified, ErrorCodes
<1> QED BY <1>1, RejectTells DEF RefuseToAdd

(* Joining, and what goes on around the handlers, tells nobody anything; a  *)
(* new message or connection clears what was told.                          *)
LEMMA JoinTells == ASSUME RequestInv, Pertinent, NEW c \in Clients, Join(c) PROVE Pertinent'
<1>1. /\ request' = [request EXCEPT ![c].at = "idle", ![c].key = NoKey]
      /\ UNCHANGED << connection, answer, symbolsSeen, userSeen >>
  BY DEF Join, history
<1>2. ASSUME NEW d \in Clients PROVE request'[d].message = request[d].message
  <2>1. CASE d # c
    BY <1>1, <2>1 DEF RequestInv, Shape
  <2>2. CASE d = c
    <3>1. c \in DOMAIN request /\ request[c] = [at |-> request[c].at,
            message |-> request[c].message, key |-> request[c].key]
      BY DEF RequestInv, Shape
    <3>2. request'[c] = [[request[c] EXCEPT !.at = "idle"] EXCEPT !.key = NoKey]
      BY <1>1, <3>1
    <3> QED BY <2>2, <3>1, <3>2
  <2> QED BY <2>1, <2>2
<1> QED BY <1>1, <1>2, SilentKeeps DEF Kept

LEMMA ReceiveTells ==
  ASSUME RequestInv, Pertinent, NEW c \in Clients, NEW m, ReceiveMessage(c, m)
  PROVE  Pertinent'
<1>1. /\ \A d \in Clients \ {c} :
           /\ request'[d] = request[d] /\ answer'[d] = answer[d]
           /\ symbolsSeen'[d] = symbolsSeen[d] /\ userSeen'[d] = userSeen[d]
      /\ answer'[c] = << >> /\ connection' = connection
  BY DEF ReceiveMessage, RequestInv, Shape
<1> QED BY <1>1, SilentKeeps DEF Kept

LEMMA ConnectTells ==
  ASSUME RequestInv, Pertinent, NEW c \in Clients, NEW login, Connect(c, login)
  PROVE  Pertinent'
<1>1. /\ \A d \in Clients \ {c} :
           /\ request'[d] = request[d] /\ answer'[d] = answer[d]
           /\ connection'[d] = connection[d]
           /\ symbolsSeen'[d] = symbolsSeen[d] /\ userSeen'[d] = userSeen[d]
      /\ answer'[c] = << >>
  BY DEF Connect, RequestInv, Shape
<1> QED BY <1>1, SilentKeeps DEF Kept

LEMMA AroundTells ==
  ASSUME Pertinent,
         \/ \E c \in Clients : \E key : LoseFeed(c, key)
         \/ \E l \in Listings : ReplaceSymbols(l)
         \/ \E u \in Users : \E r : ReplaceUser(u, r)
         \/ UNCHANGED requestVars
  PROVE  Pertinent'
<1>1. /\ UNCHANGED << request, answer, connection >>
      /\ \A c \in Clients : symbolsSeen[c] \subseteq symbolsSeen'[c]
                          /\ userSeen[c] \subseteq userSeen'[c]
  BY DEF LoseFeed, ReplaceSymbols, ReplaceUser, requestVars, history
<1> QED BY <1>1, SilentKeeps DEF Kept

LEMMA StepPertinent == RequestInv /\ Pertinent /\ [RequestNext]_requestVars => Pertinent'
<1> SUFFICES ASSUME RequestInv, Pertinent, [RequestNext]_requestVars PROVE Pertinent'
  OBVIOUS
<1>1. ASSUME NEW c \in Clients, RequestStep(c) PROVE Pertinent'
  <2>1. ASSUME ReadClient(c) PROVE Pertinent'
    BY <2>1, SubscribeTells DEF ReadClient
  <2> QED BY <1>1, <2>1, IsReadyTells, CheckPairTells, CheckSizeTells, ReadExchangesTells,
             JoinTells, RefuseTells DEF RequestStep
<1>2. ASSUME NEW c \in Clients, NEW m, ReceiveMessage(c, m) PROVE Pertinent'
  BY <1>2, ReceiveTells
<1>3. ASSUME NEW c \in Clients, NEW login, Connect(c, login) PROVE Pertinent'
  BY <1>3, ConnectTells
<1>4. CASE \/ \E c \in Clients : \E key : LoseFeed(c, key)
           \/ \E l \in Listings : ReplaceSymbols(l)
           \/ \E u \in Users : \E r : ReplaceUser(u, r)
           \/ UNCHANGED requestVars
  BY <1>4, AroundTells
<1> QED BY <1>1, <1>2, <1>3, <1>4 DEF RequestNext

(* Every error tells the truth: what it says of the symbols, the exchanges  *)
(* or the message was so at some moment while the message was handled.      *)
THEOREM ErrorsPertinent == RequestSpec => []Pertinent
<1>1. RequestInit => Pertinent
  <2>1. ASSUME RequestInit, NEW c \in Clients PROVE ToSet(answer[c]) = {}
    BY <2>1 DEF RequestInit, ToSet
  <2> QED BY <2>1 DEF Pertinent
<1>2. RequestInv /\ Pertinent /\ [RequestNext]_requestVars => Pertinent'
  BY StepPertinent
<1> QED BY <1>1, <1>2, RequestInvariance, PTL DEF RequestSpec

-----------------------------------------------------------------------------
(* Types.  What a key of the depth routes was made of; a handler that is not*)
(* done has told of one error at most and has a message of its route.       *)
Given(c, key, message) ==
  key.kind = "Snapshot" =>
    IF Public(c) THEN key.cbag_markets = PublicMarkets
    ELSE /\ connection[c].route = "depth" /\ message \in Messages["depth"]
         /\ connection[c] \in Logins
         /\ \E r \in RecordsOf[connection[c].user] :
              /\ HasExchanges(r, message.exchanges)
              /\ key.cbag_markets =
                   MarketsIn(r, message.exchanges, connection[c].market_data_id)

ClientTyped(c) ==
  /\ request[c].message \in Sendable(c) \cup {NoMessage}
  /\ (request[c].key # NoKey) = (request[c].at = "add")
  /\ Len(answer[c]) <= 2
  /\ ~Idle(c) => request[c].message \in Sendable(c) /\ Len(answer[c]) <= 1
  /\ request[c].at = "exchanges" => request[c].message # Garbled
  /\ request[c].at = "add" => Given(c, request[c].key, request[c].message)
  /\ IsFiniteSet(DOMAIN held[c]) /\ Cardinality(DOMAIN held[c]) <= MaxHeld
  /\ \A key \in DOMAIN held[c] : Given(c, key, held[c][key])

TypeInv ==
  /\ connection \in [Clients -> Logins \cup {Unconnected}]
  /\ \A u \in Users : users[u] \in RecordsOf[u]
  /\ DOMAIN held = Clients
  /\ \A c \in Clients : ClientTyped(c)

LEMMA Routes ==
  ASSUME NEW c \in Clients, connection[c] \in Logins \cup {Unconnected}
  PROVE  /\ Sendable(c) # {} => connection[c] \in Logins
         /\ connection[c] \in Logins /\ ~Public(c) => connection[c].user \in Users
BY RequestAssumption DEF Sendable, Public

(* A client that does nothing, or only gives up a subscription, keeps it.   *)
LEMMA TypedStays ==
  ASSUME NEW c \in Clients, ClientTyped(c), Untouched(c),
         IsFiniteSet(DOMAIN held'[c]), Cardinality(DOMAIN held'[c]) <= MaxHeld,
         \A key \in DOMAIN held'[c] : key \in DOMAIN held[c] /\ held'[c][key] = held[c][key]
  PROVE  ClientTyped(c)'
<1>1. \A key, message : Given(c, key, message)' = Given(c, key, message)
  BY DEF Given, Public, Untouched
<1>2. Sendable(c)' = Sendable(c) /\ Idle(c)' = Idle(c)
  BY DEF Sendable, Idle, Untouched
<1>3. /\ (\A key \in DOMAIN held[c] : Given(c, key, held[c][key]))'
      /\ (request[c].at = "add" => Given(c, request[c].key, request[c].message))'
  BY <1>1 DEF ClientTyped, Untouched
<1>4. request'[c] = request[c] /\ answer'[c] = answer[c]
  BY DEF Untouched
<1> QED BY <1>2, <1>3, <1>4 DEF ClientTyped

(* What a handler's step asks of where it goes, and of what it tells.       *)
Onward(c, place, key, errors) ==
  /\ ~Idle(c) /\ Move(c, place, key, errors)
  /\ place \in Places /\ (key # NoKey) = (place = "add")
  /\ errors = << >> \/ \E error \in ErrorCodes : errors = <<error>>
  /\ errors = << >> \/ place = "idle" \/ answer[c] = << >>
  /\ place = "exchanges" => request[c].message # Garbled
  /\ place = "add" => Given(c, key, request[c].message)

LEMMA OneError ==
  ASSUME NEW errors, errors = << >> \/ \E error \in ErrorCodes : errors = <<error>>
  PROVE  errors \in Seq(ErrorCodes) /\ Len(errors) \in {0, 1} /\ (errors # << >> => Len(errors) = 1)
<1>1. CASE errors = << >>
  BY <1>1
<1>2. CASE \E error \in ErrorCodes : errors = <<error>>
  BY <1>2
<1> QED BY <1>1, <1>2

LEMMA OnwardTyped ==
  ASSUME RequestInv, TypeInv, NEW c \in Clients, NEW place, NEW key, NEW errors,
         Onward(c, place, key, errors)
  PROVE  TypeInv'
<1>1. errors \in Seq(ErrorCodes) /\ Len(errors) \in {0, 1} /\ (errors = << >> => Len(errors) = 0)
  BY OneError DEF Onward
<1>2. /\ request'[c] = [at |-> place, message |-> request[c].message, key |-> key]
      /\ answer'[c] = answer[c] \o errors
      /\ UNCHANGED << connection, users >>
  <2>1. Moved(c, place, key, errors)
    BY <1>1, MoveStep DEF Onward
  <2> QED BY <2>1 DEF Moved
<1>3. /\ \A d \in Clients \ {c} : request'[d] = request[d] /\ answer'[d] = answer[d]
      /\ UNCHANGED << joined, held >>
  BY DEF Onward, Move, RequestInv, Shape
<1>4. ASSUME NEW d \in Clients \ {c} PROVE ClientTyped(d)'
  <2>1. Untouched(d) /\ ClientTyped(d) /\ held' = held
    BY <1>2, <1>3 DEF Untouched, TypeInv
  <2> QED BY <2>1, TypedStays DEF ClientTyped
<1>5. ClientTyped(c)'
  <2>1. \A k, message : Given(c, k, message)' = Given(c, k, message)
    BY <1>2 DEF Given, Public
  <2>2. Sendable(c)' = Sendable(c) /\ request[c].message \in Sendable(c)
    BY <1>2 DEF Sendable, TypeInv, ClientTyped, Onward
  <2>3. Len(answer'[c]) <= 2 /\ (place # "idle" => Len(answer'[c]) <= 1)
    <3>1. answer[c] \in Seq(ErrorCodes) /\ Len(answer[c]) <= 1 /\ Len(answer[c]) \in Nat
      BY LenProperties DEF RequestInv, Shape, TypeInv, ClientTyped, Onward
    <3>2. Len(answer'[c]) = Len(answer[c]) + Len(errors)
      BY <1>1, <1>2, <3>1, ConcatProperties
    <3>3. place # "idle" => Len(errors) = 0 \/ Len(answer[c]) = 0
      BY <1>1 DEF Onward
    <3>4. \A before \in Nat, new \in {0, 1} :
            before <= 1 => /\ before + new <= 2
                           /\ new = 0 \/ before = 0 => before + new <= 1
      OBVIOUS
    <3> QED BY <1>1, <3>1, <3>2, <3>3, <3>4, Zenon
  <2>4. /\ request'[c].message = request[c].message /\ request'[c].at = place
        /\ request'[c].key = key
    BY <1>2
  <2>5. /\ (key # NoKey) = (place = "add")
        /\ place = "exchanges" => request[c].message # Garbled
        /\ place = "add" => Given(c, key, request[c].message)'
    BY <2>1, <2>4 DEF Onward
  <2>6. /\ IsFiniteSet(DOMAIN held'[c]) /\ Cardinality(DOMAIN held'[c]) <= MaxHeld
        /\ \A k \in DOMAIN held'[c] : Given(c, k, held[c][k])'
    BY <1>3, <2>1 DEF TypeInv, ClientTyped
  <2> QED BY <2>2, <2>3, <2>4, <2>5, <2>6 DEF ClientTyped, Idle
<1> QED BY <1>2, <1>3, <1>4, <1>5 DEF TypeInv

LEMMA RejectTyped ==
  ASSUME RequestInv, TypeInv, NEW c \in Clients, ~Idle(c), NEW error \in ErrorCodes,
         Reject(c, error)
  PROVE  TypeInv'
<1>1. Onward(c, "idle", NoKey, <<error>>)
  BY DEF Reject, Onward, Places
<1> QED BY <1>1, OnwardTyped

LEMMA GotoTyped ==
  ASSUME RequestInv, TypeInv, NEW c \in Clients, ~Idle(c),
         NEW place \in {"pair", "size", "client", "exchanges"},
         place = "exchanges" => request[c].message # Garbled, Goto(c, place)
  PROVE  TypeInv'
<1>1. Onward(c, place, NoKey, << >>)
  BY DEF Goto, Onward, Places
<1> QED BY <1>1, OnwardTyped

LEMMA SubscribeTyped ==
  ASSUME RequestInv, TypeInv, NEW c \in Clients, ~Idle(c), NEW key, key # NoKey,
         Given(c, key, request[c].message), Subscribe(c, key)
  PROVE  TypeInv'
<1>1. Onward(c, "add", key, << >>)
  BY DEF Subscribe, Onward, Places
<1> QED BY <1>1, OnwardTyped

LEMMA IsReadyTyped == ASSUME RequestInv, TypeInv, NEW c \in Clients, IsReady(c) PROVE TypeInv'
<1>1. ~Idle(c) /\ "ServerInitializing" \in ErrorCodes
  BY DEF IsReady, Idle, ErrorCodes
<1> QED BY <1>1, RejectTyped, GotoTyped DEF IsReady

LEMMA CheckPairTyped ==
  ASSUME RequestInv, TypeInv, NEW c \in Clients, CheckPair(c) PROVE TypeInv'
<1> DEFINE message == request[c].message
           key == Snapshot(message.currency_pair, PublicMarkets, 200, 30000)
<1>1. ~Idle(c) /\ answer[c] = << >>
  BY NoErrorYet DEF CheckPair, Idle
<1>2. CASE \E error \in ErrorCodes : Reject(c, error)
  BY <1>1, <1>2, RejectTyped
<1>3. CASE message # Garbled /\ \E place \in {"size", "exchanges"} : Goto(c, place)
  BY <1>1, <1>3, GotoTyped
<1>4. CASE Move(c, "size", NoKey, <<"InvalidSizeFilter">>)
  <2>1. Onward(c, "size", NoKey, <<"InvalidSizeFilter">>)
    BY <1>1, <1>4 DEF Onward, Places, ErrorCodes
  <2> QED BY <2>1, OnwardTyped
<1>5. CASE Public(c) /\ Subscribe(c, key)
  <2>1. key # NoKey /\ Given(c, key, message)
    BY <1>5 DEF Snapshot, NoKey, Given
  <2> HIDE DEF key
  <2> QED BY <1>1, <1>5, <2>1, SubscribeTyped
<1>6. /\ {"InvalidSubscriptionMessage", "InvalidCurrencyPair", "InvalidSizeFilter",
          "InvalidDepthLimit", "InvalidExchanges"} \subseteq ErrorCodes
      /\ PairError(message.currency_pair) # "none" => PairError(message.currency_pair) \in ErrorCodes
  BY PairErrors DEF ErrorCodes
<1>7. \/ \E error \in ErrorCodes : Reject(c, error)
      \/ message # Garbled /\ (ParseSize(c) \/ CheckShape(c))
  BY <1>6 DEF CheckPair
<1>8. CASE message # Garbled /\ ParseSize(c)
  BY <1>2, <1>3, <1>4, <1>6, <1>8 DEF ParseSize
<1>9. CASE message # Garbled /\ CheckShape(c)
  BY <1>2, <1>3, <1>5, <1>6, <1>9 DEF CheckShape
<1> QED BY <1>2, <1>7, <1>8, <1>9

LEMMA CheckSizeTyped ==
  ASSUME RequestInv, TypeInv, NEW c \in Clients, CheckSize(c) PROVE TypeInv'
<1> DEFINE key == LegacyCbbo(request[c].message.currency_pair, request[c].message.size_filter, << >>)
           pair == request[c].message.currency_pair
<1>1. ~Idle(c)
  BY DEF CheckSize, Idle
<1>2. CASE \E error \in ErrorCodes : Reject(c, error)
  BY <1>1, <1>2, RejectTyped
<1>3. CASE Goto(c, "client")
  BY <1>1, <1>3, GotoTyped
<1>4. CASE Subscribe(c, key)
  <2>1. key # NoKey /\ Given(c, key, request[c].message)
    BY DEF LegacyCbbo, NoKey, Given
  <2> HIDE DEF key
  <2> QED BY <1>1, <1>4, <2>1, SubscribeTyped
<1>5. /\ "InvalidSizeFilter" \in ErrorCodes
      /\ PairError(pair) # "none" => PairError(pair) \in ErrorCodes
  BY PairErrors DEF ErrorCodes
<1> QED BY <1>2, <1>3, <1>4, <1>5 DEF CheckSize

LEMMA ReadClientTyped ==
  ASSUME RequestInv, TypeInv, NEW c \in Clients, ReadClient(c) PROVE TypeInv'
<1> DEFINE key == LegacyCbbo(request[c].message.currency_pair, request[c].message.size_filter,
                    ClientName(Record(c).client_id, connection[c].market_data_id))
<1>1. ~Idle(c) /\ Subscribe(c, key)
  BY DEF ReadClient, Idle
<1>2. key # NoKey /\ Given(c, key, request[c].message)
  BY DEF LegacyCbbo, NoKey, Given
<1> HIDE DEF key
<1> QED BY <1>1, <1>2, SubscribeTyped

LEMMA ReadExchangesTyped ==
  ASSUME RequestInv, TypeInv, NEW c \in Clients, ReadExchanges(c) PROVE TypeInv'
<1> DEFINE message == request[c].message
           markets == MarketsIn(Record(c), message.exchanges, connection[c].market_data_id)
           key == KeyOf(c, message, markets)
<1>1. ~Idle(c) /\ ~Public(c) /\ message # Garbled /\ message \in Sendable(c)
  BY DEF ReadExchanges, Idle, RequestInv, ClientInv, Established, TypeInv, ClientTyped
<1>2. CASE Reject(c, "InvalidExchanges")
  BY <1>1, <1>2, RejectTyped DEF ErrorCodes
<1>3. CASE HasExchanges(Record(c), message.exchanges) /\ Subscribe(c, key)
  <2>1. connection[c] \in Logins /\ Record(c) \in RecordsOf[connection[c].user]
    <3>1. connection[c] \in Logins \cup {Unconnected}
      BY DEF TypeInv
    <3>2. connection[c] \in Logins /\ connection[c].user \in Users
      BY <1>1, <3>1, Routes
    <3> QED BY <3>2 DEF TypeInv, Record
  <2>2. key # NoKey
    BY KeyKinds
  <2>3. CASE connection[c].route = "depth"
    <3>1. key.cbag_markets = markets
      BY <2>3 DEF KeyOf, Snapshot
    <3>2. message \in Messages["depth"]
      BY <1>1, <2>3 DEF Sendable
    <3> HIDE DEF key
    <3>3. Given(c, key, message)
      BY <1>1, <1>3, <2>1, <2>3, <3>1, <3>2 DEF Given
    <3> QED BY <1>1, <1>3, <2>2, <3>3, SubscribeTyped
  <2>4. CASE connection[c].route # "depth"
    <3>1. key.kind # "Snapshot"
      BY <2>4 DEF KeyOf, Direct
    <3> HIDE DEF key
    <3>2. Given(c, key, message)
      BY <3>1 DEF Given
    <3> QED BY <1>1, <1>3, <2>2, <3>2, SubscribeTyped
  <2> QED BY <2>3, <2>4
<1> QED BY <1>2, <1>3 DEF ReadExchanges

LEMMA RefuseTyped ==
  ASSUME RequestInv, TypeInv, NEW c \in Clients, NEW error \in Refusals, RefuseToAdd(c, error)
  PROVE  TypeInv'
<1>1. ~Idle(c) /\ error \in ErrorCodes /\ Reject(c, error)
  BY DEF RefuseToAdd, Idle, Refusals, ErrorCodes
<1> QED BY <1>1, RejectTyped

LEMMA JoinTyped == ASSUME RequestInv, TypeInv, NEW c \in Clients, Join(c) PROVE TypeInv'
<1> DEFINE key == request[c].key
           keys == DOMAIN held[c]
<1>1. /\ request' = [request EXCEPT ![c].at = "idle", ![c].key = NoKey]
      /\ held' = [held EXCEPT ![c] =
                    [k \in keys \cup {key} |-> IF k = key THEN request[c].message ELSE held[c][k]]]
      /\ key \notin keys /\ Cardinality(keys) < MaxHeld
      /\ request[c].at = "add"
      /\ UNCHANGED << connection, answer, users >>
  BY DEF Join, environment
<1>2. request'[c] = [at |-> "idle", message |-> request[c].message, key |-> NoKey]
  <2>1. c \in DOMAIN request /\ request[c] = [at |-> request[c].at, message |-> request[c].message,
                                              key |-> request[c].key]
    BY DEF RequestInv, Shape
  <2>2. request'[c] = [[request[c] EXCEPT !.at = "idle"] EXCEPT !.key = NoKey]
    BY <1>1, <2>1
  <2> QED BY <2>1, <2>2
<1>3. /\ held'[c] = [k \in keys \cup {key} |-> IF k = key THEN request[c].message ELSE held[c][k]]
      /\ DOMAIN held' = Clients
      /\ \A d \in Clients \ {c} : request'[d] = request[d] /\ held'[d] = held[d]
  BY <1>1 DEF TypeInv, RequestInv, Shape
<1>4. ASSUME NEW d \in Clients \ {c} PROVE ClientTyped(d)'
  <2>1. joined'[d] = joined[d]
    BY DEF Join, RequestInv, Shape
  <2>2. Untouched(d) /\ ClientTyped(d) /\ held'[d] = held[d]
    BY <1>1, <1>3, <2>1 DEF Untouched, TypeInv
  <2> QED BY <2>2, TypedStays DEF ClientTyped
<1>5. ClientTyped(c)'
  <2>1. \A k, message : Given(c, k, message)' = Given(c, k, message)
    BY <1>1 DEF Given, Public
  <2>2. Sendable(c)' = Sendable(c) /\ ClientTyped(c)
    BY <1>1 DEF Sendable, TypeInv
  <2>3. IsFiniteSet(DOMAIN held'[c]) /\ Cardinality(DOMAIN held'[c]) <= MaxHeld
    <3>1. DOMAIN held'[c] = keys \cup {key}
      BY <1>3
    <3>2. IsFiniteSet(keys) /\ Cardinality(keys) \in Nat
      BY <2>2, FS_CardinalityType DEF ClientTyped
    <3>3. IsFiniteSet(keys \cup {key}) /\ Cardinality(keys \cup {key}) = Cardinality(keys) + 1
      BY <1>1, <3>2, FS_AddElement
    <3>4. MaxHeld \in Nat
      BY RequestAssumption
    <3>5. Cardinality(keys) + 1 <= MaxHeld
      BY <1>1, <3>2, <3>4
    <3> QED BY <3>1, <3>3, <3>5
  <2>4. \A k \in DOMAIN held'[c] : Given(c, k, held'[c][k])
    <3>1. Given(c, key, request[c].message) /\ \A k \in keys : Given(c, k, held[c][k])
      BY <1>1, <2>2 DEF ClientTyped
    <3> QED BY <1>3, <3>1
  <2>5. (\A k \in DOMAIN held[c] : Given(c, k, held[c][k]))'
    BY <2>1, <2>4
  <2>6. /\ request'[c].at = "idle" /\ request'[c].key = NoKey
        /\ request'[c].message = request[c].message /\ answer'[c] = answer[c]
    BY <1>1, <1>2
  <2> QED BY <2>2, <2>3, <2>5, <2>6 DEF ClientTyped, Idle
<1> QED BY <1>1, <1>3, <1>4, <1>5 DEF TypeInv

LEMMA ReceiveTyped ==
  ASSUME RequestInv, TypeInv, NEW c \in Clients, NEW m \in Sendable(c), ReceiveMessage(c, m)
  PROVE  TypeInv'
<1>1. PICK place \in {"pair", "ready"} :
        request' = [request EXCEPT ![c] = [at |-> place, message |-> m, key |-> NoKey]]
  BY DEF ReceiveMessage
<1>2. /\ answer' = [answer EXCEPT ![c] = << >>] /\ joined' = [joined EXCEPT ![c] = NoKey]
      /\ UNCHANGED << connection, held, users >>
  BY DEF ReceiveMessage, environment
<1>3. /\ request'[c] = [at |-> place, message |-> m, key |-> NoKey] /\ answer'[c] = << >>
      /\ \A d \in Clients \ {c} : Untouched(d)
  BY <1>1, <1>2 DEF RequestInv, Shape, Untouched
<1>4. ASSUME NEW d \in Clients \ {c} PROVE ClientTyped(d)'
  BY <1>2, <1>3, TypedStays DEF ClientTyped, TypeInv
<1>5. ClientTyped(c)'
  <2>1. /\ \A k, message : Given(c, k, message)' = Given(c, k, message)
        /\ Sendable(c)' = Sendable(c)
    BY <1>2 DEF Given, Public, Sendable
  <2>2. ClientTyped(c) /\ Len(answer'[c]) = 0 /\ held'[c] = held[c]
    BY <1>2, <1>3 DEF TypeInv
  <2>3. /\ request'[c].at = place /\ request'[c].message = m /\ request'[c].key = NoKey
    BY <1>3
  <2>4. (\A k \in DOMAIN held[c] : Given(c, k, held[c][k]))'
    BY <2>1, <2>2 DEF ClientTyped
  <2> QED BY <2>1, <2>2, <2>3, <2>4 DEF ClientTyped, Idle
<1> QED BY <1>2, <1>4, <1>5 DEF TypeInv

LEMMA ConnectTyped ==
  ASSUME RequestInv, TypeInv, NEW c \in Clients, NEW login \in Logins, Connect(c, login)
  PROVE  TypeInv'
<1>1. /\ request' = [request EXCEPT ![c] = NoRequest] /\ answer' = [answer EXCEPT ![c] = << >>]
      /\ joined' = [joined EXCEPT ![c] = NoKey] /\ connection' = [connection EXCEPT ![c] = login]
      /\ held' = [held EXCEPT ![c] = << >>]
      /\ users' = users
  BY DEF Connect, environment
<1>2. /\ request'[c] = NoRequest /\ answer'[c] = << >> /\ held'[c] = << >>
      /\ connection' \in [Clients -> Logins \cup {Unconnected}] /\ DOMAIN held' = Clients
      /\ \A d \in Clients \ {c} : Untouched(d) /\ held'[d] = held[d]
  BY <1>1 DEF RequestInv, Shape, TypeInv, Untouched
<1>3. ASSUME NEW d \in Clients \ {c} PROVE ClientTyped(d)'
  BY <1>2, TypedStays DEF ClientTyped, TypeInv
<1>4. ClientTyped(c)'
  <2>1. DOMAIN held'[c] = {} /\ IsFiniteSet({}) /\ Cardinality({}) = 0
    BY <1>2, FS_EmptySet
  <2>2. /\ request'[c].at = "idle" /\ request'[c].message = NoMessage /\ request'[c].key = NoKey
        /\ Len(answer'[c]) = 0
    BY <1>2 DEF NoRequest
  <2> QED BY <2>1, <2>2, RequestAssumption DEF ClientTyped, Idle
<1> QED BY <1>1, <1>2, <1>3, <1>4 DEF TypeInv

LEMMA LoseTyped ==
  ASSUME RequestInv, TypeInv, NEW c \in Clients, NEW key, LoseFeed(c, key) PROVE TypeInv'
<1>1. /\ held' = [held EXCEPT ![c] = [k \in DOMAIN held[c] \ {key} |-> held[c][k]]]
      /\ UNCHANGED << connection, request, answer, joined, users >>
  BY DEF LoseFeed, environment
<1>2. ASSUME NEW d \in Clients PROVE ClientTyped(d)'
  <2>1. Untouched(d) /\ ClientTyped(d)
    BY <1>1 DEF Untouched, TypeInv
  <2>2. /\ DOMAIN held'[d] \subseteq DOMAIN held[d]
        /\ \A k \in DOMAIN held'[d] : held'[d][k] = held[d][k]
    BY <1>1 DEF TypeInv
  <2>3. IsFiniteSet(DOMAIN held'[d]) /\ Cardinality(DOMAIN held'[d]) <= MaxHeld
    <3>1. /\ IsFiniteSet(DOMAIN held[d]) /\ Cardinality(DOMAIN held[d]) <= MaxHeld
      BY <2>1 DEF ClientTyped
    <3>2. /\ IsFiniteSet(DOMAIN held'[d])
          /\ Cardinality(DOMAIN held'[d]) <= Cardinality(DOMAIN held[d])
      BY <2>2, <3>1, FS_Subset
    <3>3. Cardinality(DOMAIN held[d]) \in Nat /\ Cardinality(DOMAIN held'[d]) \in Nat
      BY <3>1, <3>2, FS_CardinalityType
    <3> QED BY <3>1, <3>2, <3>3, RequestAssumption
  <2> QED BY <2>1, <2>2, <2>3, TypedStays
<1> QED BY <1>1, <1>2 DEF TypeInv

LEMMA AroundTyped ==
  ASSUME RequestInv, TypeInv,
         UNCHANGED << connection, request, answer, joined, held >>,
         \A u \in Users : users'[u] \in RecordsOf[u]
  PROVE  TypeInv'
<1>1. ASSUME NEW d \in Clients PROVE ClientTyped(d)'
  BY TypedStays DEF Untouched, TypeInv, ClientTyped
<1> QED BY <1>1 DEF TypeInv

LEMMA StepTyped == RequestInv /\ TypeInv /\ [RequestNext]_requestVars => TypeInv'
<1> SUFFICES ASSUME RequestInv, TypeInv, [RequestNext]_requestVars PROVE TypeInv'
  OBVIOUS
<1>1. ASSUME NEW c \in Clients, RequestStep(c) PROVE TypeInv'
  BY <1>1, IsReadyTyped, CheckPairTyped, CheckSizeTyped, ReadClientTyped, ReadExchangesTyped,
     JoinTyped, RefuseTyped DEF RequestStep
<1>2. ASSUME NEW c \in Clients, NEW m \in Sendable(c), ReceiveMessage(c, m) PROVE TypeInv'
  BY <1>2, ReceiveTyped
<1>3. ASSUME NEW c \in Clients, NEW key, LoseFeed(c, key) PROVE TypeInv'
  BY <1>3, LoseTyped
<1>4. ASSUME NEW c \in Clients, NEW login \in Logins, Connect(c, login) PROVE TypeInv'
  BY <1>4, ConnectTyped
<1>5. ASSUME NEW l \in Listings, ReplaceSymbols(l) PROVE TypeInv'
  BY <1>5, AroundTyped DEF ReplaceSymbols, TypeInv
<1>6. ASSUME NEW u \in Users, NEW r \in RecordsOf[u], ReplaceUser(u, r) PROVE TypeInv'
  <2>1. users' = [users EXCEPT ![u] = r]
        /\ UNCHANGED << connection, request, answer, joined, held >>
    BY <1>6 DEF ReplaceUser
  <2>2. \A v \in Users : users'[v] \in RecordsOf[v]
    BY <2>1 DEF TypeInv, RequestInv, Shape
  <2> QED BY <2>1, <2>2, AroundTyped
<1>7. CASE UNCHANGED requestVars
  BY <1>7, AroundTyped DEF requestVars, environment, TypeInv
<1> QED BY <1>1, <1>2, <1>3, <1>4, <1>5, <1>6, <1>7 DEF RequestNext

LEMMA InitTyped == RequestInit => TypeInv
<1> SUFFICES ASSUME RequestInit PROVE TypeInv
  OBVIOUS
<1>1. ASSUME NEW c \in Clients PROVE ClientTyped(c)
  <2>1. DOMAIN held[c] = {} /\ IsFiniteSet({}) /\ Cardinality({}) = 0 /\ answer[c] = << >>
    BY FS_EmptySet DEF RequestInit
  <2>2. request[c].at = "idle" /\ request[c].message = NoMessage /\ request[c].key = NoKey
    BY DEF RequestInit, NoRequest
  <2> QED BY <2>1, <2>2, RequestAssumption DEF ClientTyped, Idle
<1> QED BY <1>1 DEF RequestInit, TypeInv

THEOREM TypeInvariance == RequestSpec => []TypeInv
<1>1. RequestInit => TypeInv
  BY InitTyped
<1>2. RequestInv /\ TypeInv /\ [RequestNext]_requestVars => TypeInv'
  BY StepTyped
<1> QED BY <1>1, <1>2, RequestInvariance, PTL DEF RequestSpec

LEMMA ShortSeq ==
  ASSUME NEW S, NEW s \in Seq(S), Len(s) <= 2
  PROVE  s \in BoundedSeq(S, 2)
<1>1. Len(s) \in Nat /\ s \in [1 .. Len(s) -> S]
  BY LenProperties
<1>2. Len(s) \in 0 .. 2
  BY <1>1
<1> QED BY <1>1, <1>2 DEF BoundedSeq, SeqOf

(* The state's types; and a handler tells a client two errors at most of a  *)
(* message, for which it needs the one that is not followed by a return.    *)
THEOREM RequestTypes == RequestSpec => []RequestTypeOK
<1>1. RequestInv /\ TypeInv => RequestTypeOK
  <2> SUFFICES ASSUME RequestInv, TypeInv PROVE RequestTypeOK
    OBVIOUS
  <2>1. ASSUME NEW c \in Clients PROVE answer[c] \in BoundedSeq(ErrorCodes, 2)
    BY ShortSeq DEF RequestInv, Shape, TypeInv, ClientTyped
  <2> QED BY <2>1 DEF RequestInv, Shape, TypeInv, ClientTyped, RequestTypeOK
<1> QED BY <1>1, RequestInvariance, TypeInvariance, PTL

-----------------------------------------------------------------------------
(* Names.  The market that an exchange of a record is asked for by gives the*)
(* exchange back.                                                           *)
BackAs(market, exchange) ==
  /\ cbag_market_to_exchange(market) = exchange
  /\ cbag_market_to_exchange(Reported(market)) = exchange

LEMMA MarketBack ==
  ASSUME NEW words, HasWords(words), NEW client, Plain(words, client),
         NEW exchange, PlainExchange(words, exchange),
         NEW na \in BOOLEAN, NEW own \in BOOLEAN,
         NEW market, market = exchange_to_cbag_market(exchange, client, na, own)
  PROVE  BackAs(market, exchange)
<1>1. Plain(words, exchange) /\ exchange \notin {<< >>, <<"coinbase">>, <<"huobi">>}
  BY Zenon DEF PlainExchange
<1>2. /\ cbag_market_to_exchange(market) = exchange
      /\ cbag_market_to_exchange(Reported(market)) = exchange
  BY <1>1, NameGivenBack
<1> QED BY <1>2 DEF BackAs

LEMMA EmptyPlain == ASSUME NEW words PROVE Plain(words, << >>)
<1>1. << >> \in Seq(words) /\ Len(<< >>) = 0
  OBVIOUS
<1> QED BY <1>1 DEF Plain

LEMMA PublicBack ==
  ASSUME NEW words, PlainNames(words), NEW i \in DOMAIN chart_exchanges
  PROVE  BackAs(PublicMarkets[i], chart_exchanges[i])
<1>1. PlainExchange(words, chart_exchanges[i]) /\ HasWords(words)
  BY DEF PlainNames
<1>2. PublicMarkets[i] = exchange_to_cbag_market(chart_exchanges[i], << >>, FALSE, FALSE)
  BY DEF PublicMarkets
<1> QED BY <1>1, <1>2, EmptyPlain, MarketBack

(* A client name is in a market only if it is customer specific.            *)
LEMMA ClientLeftOut ==
  ASSUME NEW exchange, NEW client, NEW na
  PROVE  exchange_to_cbag_market(exchange, client, na, FALSE)
           = exchange_to_cbag_market(exchange, << >>, na, FALSE)
BY DEF exchange_to_cbag_market

LEMMA PrivateBack ==
  ASSUME NEW words, PlainNames(words), NEW login \in Logins, login.user \in Users,
         NEW r \in RecordsOf[login.user], NEW e \in DOMAIN r.exchanges
  PROVE  BackAs(MarketIn(r, e, login.market_data_id), e)
<1> DEFINE na == r.exchanges[e].non_aggregated_prices
           own == r.exchanges[e].customer_specific
           name == ClientName(r.client_id, login.market_data_id)
           client == IF own THEN name ELSE << >>
<1>1. na \in BOOLEAN /\ own \in BOOLEAN
  BY RequestAssumption
<1>2. PlainExchange(words, e) /\ HasWords(words) /\ "_" \in words
  BY DEF PlainNames
<1>3. Plain(words, client)
  <2>1. CASE own
    <3>1. Plain(words, r.client_id) /\ Plain(words, login.market_data_id)
      BY <2>1 DEF PlainNames
    <3>2. Plain(words, name)
      BY <3>1, <1>2, ClientNamePlain, Zenon
    <3> QED BY <2>1, <3>2
  <2>2. CASE ~own
    BY <2>2, EmptyPlain
  <2> QED BY <2>1, <2>2
<1>4. MarketIn(r, e, login.market_data_id) = exchange_to_cbag_market(e, client, na, own)
  <2>1. MarketIn(r, e, login.market_data_id) = exchange_to_cbag_market(e, name, na, own)
    BY Zenon DEF MarketIn
  <2>2. CASE own
    BY <2>1, <2>2
  <2>3. CASE ~own
    <3>1. own = FALSE
      BY <1>1, <2>3
    <3> HIDE DEF own, na, name
    <3> QED BY <2>1, <3>1, ClientLeftOut DEF client
  <2> QED BY <2>2, <2>3
<1> HIDE DEF na, own, client
<1> QED BY <1>1, <1>2, <1>3, <1>4, MarketBack

(* The markets of a subscription to depth are called back the exchanges that*)
(* were asked for.                                                          *)
LEMMA GivenBack ==
  ASSUME NEW words, PlainNames(words), TypeInv, NEW c \in Clients, NEW key \in DOMAIN held[c], key.kind = "Snapshot",
         NEW asked, asked = IF Public(c) THEN chart_exchanges ELSE held[c][key].exchanges
  PROVE  CalledBack(asked, key.cbag_markets) /\ asked = [i \in DOMAIN asked |-> asked[i]]
<1> DEFINE message == held[c][key]
<1>1. Given(c, key, message)
  BY DEF TypeInv, ClientTyped
<1>2. CASE Public(c)
  <2>1. key.cbag_markets = PublicMarkets /\ asked = chart_exchanges
    BY <1>1, <1>2 DEF Given
  <2>2. \A i \in DOMAIN asked : BackAs(PublicMarkets[i], asked[i])
    BY <2>1, PublicBack
  <2>3. DOMAIN PublicMarkets = DOMAIN asked
    BY <2>1 DEF PublicMarkets
  <2>4. \A i, j \in DOMAIN asked : asked[i] = asked[j] => PublicMarkets[i] = PublicMarkets[j]
    BY <2>1 DEF PublicMarkets
  <2>5. asked = [i \in DOMAIN asked |-> asked[i]]
    <3>1. asked \in Seq(Seq(words))
      BY <2>1 DEF PlainNames
    <3> QED BY <3>1, LenProperties
  <2> QED BY <2>1, <2>2, <2>3, <2>4, <2>5 DEF CalledBack, BackAs
<1>3. CASE ~Public(c)
  <2> DEFINE login == connection[c]
  <2>1. /\ login \in Logins /\ login.user \in Users
        /\ message \in Messages["depth"] /\ asked = message.exchanges
    <3>1. login \in Logins
      BY <1>1, <1>3 DEF Given
    <3> QED BY <1>1, <1>3, <3>1, Routes DEF Given
  <2>2. PICK r \in RecordsOf[login.user] :
          /\ HasExchanges(r, asked)
          /\ key.cbag_markets = MarketsIn(r, asked, login.market_data_id)
    BY <1>1, <1>3, <2>1 DEF Given
  <2> DEFINE markets == MarketsIn(r, asked, login.market_data_id)
  <2>3. \A i \in DOMAIN asked : asked[i] \in DOMAIN r.exchanges
    BY <2>2 DEF HasExchanges, ToSet
  <2>4. /\ DOMAIN markets = DOMAIN asked
        /\ \A i \in DOMAIN asked : markets[i] = MarketIn(r, asked[i], login.market_data_id)
    BY DEF MarketsIn
  <2>5. \A i \in DOMAIN asked : BackAs(markets[i], asked[i])
    BY <2>1, <2>3, <2>4, PrivateBack
  <2>6. \A i, j \in DOMAIN asked : asked[i] = asked[j] => markets[i] = markets[j]
    BY <2>4
  <2>7. asked = [i \in DOMAIN asked |-> asked[i]]
    <3>1. asked \in Seq(Seq(words))
      BY <2>1 DEF PlainNames
    <3> QED BY <3>1, LenProperties
  <2> HIDE DEF markets
  <2>8. key.cbag_markets = markets
    BY <2>2 DEF markets
  <2> QED BY <2>4, <2>5, <2>6, <2>7, <2>8 DEF CalledBack, BackAs
<1> QED BY <1>2, <1>3

(* Whatever the names, if they are free of punctuation: the exchanges in a  *)
(* listener's depth updates are those it asked for, as it wrote them, none  *)
(* of their quantities lost or mixed up, also after the record of its user, *)
(* by which they were named, has been replaced.                             *)
THEOREM NamesComeBack ==
  ASSUME NEW CONSTANT words, PlainNames(words)
  PROVE  RequestSpec => []NamesGivenBack
<1>1. TypeInv => NamesGivenBack
  <2> SUFFICES ASSUME TypeInv, NEW c \in Clients, NEW key \in DOMAIN held[c], key.kind = "Snapshot"
               PROVE  LET asked  == IF Public(c) THEN chart_exchanges ELSE held[c][key].exchanges
                          market == [e \in ToSet(asked) |-> CHOOSE m \in ToSet(key.cbag_markets) :
                                                              cbag_market_to_exchange(m) = e]
                          level  == [m \in {Reported(m) : m \in ToSet(key.cbag_markets)} |-> m]
                      IN /\ [i \in DOMAIN key.cbag_markets |->
                               cbag_market_to_exchange(key.cbag_markets[i])] = asked
                         /\ RenamedLevel(level) = {[e \in ToSet(asked) |-> level[Reported(market[e])]]}
    BY DEF NamesGivenBack
  <2> DEFINE asked  == IF Public(c) THEN chart_exchanges ELSE held[c][key].exchanges
             markets == key.cbag_markets
             market == [e \in ToSet(asked) |-> CHOOSE m \in ToSet(markets) :
                                                 cbag_market_to_exchange(m) = e]
             level  == [m \in {Reported(m) : m \in ToSet(markets)} |-> m]
  <2>1. CalledBack(asked, markets) /\ asked = [i \in DOMAIN asked |-> asked[i]]
    BY GivenBack
  <2> HIDE DEF asked, markets
  <2>2. [i \in DOMAIN markets |-> cbag_market_to_exchange(markets[i])] = asked
    BY <2>1 DEF CalledBack
  <2>3. RenamedLevel(level) = {[e \in ToSet(asked) |-> level[Reported(market[e])]]}
    <3>1. ASSUME NEW i \in DOMAIN asked PROVE market[asked[i]] = markets[i]
      <4>1. asked[i] \in ToSet(asked) /\ markets[i] \in ToSet(markets)
        BY <2>1 DEF ToSet, CalledBack
      <4>2. \A m \in ToSet(markets) : cbag_market_to_exchange(m) = asked[i] <=> m = markets[i]
        BY <2>1, <4>1 DEF ToSet, CalledBack
      <4> QED BY <4>1, <4>2
    <3>2. level = [m \in {Reported(m) : m \in ToSet(markets)} |-> m]
      BY Zenon
    <3> HIDE DEF market, level
    <3> QED BY <2>1, <3>1, <3>2, LevelGivenBack
  <2> QED BY <2>2, <2>3, Zenon DEF asked, markets
<1> QED BY <1>1, TypeInvariance, PTL
=============================================================================
