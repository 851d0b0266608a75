------------------------ MODULE MCSubscriptionRequests ------------------------
(***************************************************************************)
(* SubscriptionRequests on a small instance: a connection on any of the    *)
(* routes, while the symbols and the record of its user are replaced.      *)
(* Handlers only read what they share, so one of them meets all there is.  *)
(***************************************************************************)
EXTENDS SubscriptionRequests, TLC

CONSTANTS u1, Btc, Eth, public

Login(user, route, id) == [user |-> user, route |-> route, market_data_id |-> id]

MCLogins ==
  { Login(u1, "cbbo", <<"desk">>), Login(u1, "cbbo", << >>),
    Login(u1, "depth", <<"desk">>), Login(u1, "cost", << >>),
    Login(public, "public cbbo", << >>), Login(public, "public depth", << >>) }

(* One pair with two sizes, one without; then the other way about.          *)
MCListings ==
  { << >>, (Btc :> {0, 1}) @@ (Eth :> {}), Eth :> {1} }

(* Exchanges with names of their own at cbag, one of which becomes customer *)
(* specific, and one that is taken away.                                    *)
Exchange(na, customer) == [non_aggregated_prices |-> na, customer_specific |-> customer]

MCRecordsOf ==
  [u \in Users |->
     { [client_id |-> <<"acme">>,
        exchanges |-> (<<"gdax">> :> Exchange(TRUE, FALSE))
                      @@ (<<"kraken">> :> Exchange(FALSE, FALSE))
                      @@ (<<"sim_", "huobipro">> :> Exchange(FALSE, FALSE))],
       [client_id |-> <<"acme">>,
        exchanges |-> <<"gdax">> :> Exchange(TRUE, TRUE)] }]

MCSize == [text \in {"1", "1.0", "-1", "much"} |->
             CASE text = "much" -> NotANumber [] text = "-1" -> -1 [] OTHER -> 1]

CbboMessages ==
  [currency_pair : {Btc, Eth}, size_filter : DOMAIN MCSize]

Lists == { << >>, << <<"gdax">> >>, << <<"kraken">>, <<"gdax">> >> }

DepthMessages ==
  [currency_pair : {Btc, Eth}, exchanges : Lists, depth_limit : {NoLimit, 0, 200}]

CostMessages ==
  [currency_pair : {Btc, Eth}, exchanges : Lists \cup {<< <<"sim_", "huobipro">> >>},
   quantities : {"0.5"}]

MCMessages ==
  [r \in PrivateRoutes \cup PublicRoutes |->
     CASE r \in CbboRoutes -> CbboMessages
       [] r \in DepthRoutes -> DepthMessages
       [] OTHER -> CostMessages]

MCchart_exchanges == << <<"huobipro">>, <<"gdax">> >>
MCwhitelist == {Btc}

(* The names are such as the proof of NamesGivenBack asks for.              *)
ASSUME MCPlainNames == PlainNames(STRING)

(* CostUpdate against its reference on all lists of up to three items.      *)
MCItems == [side : {"buy", "sell"}, quantity : {"0.5", "", "whole", "null"}]

ASSUME MCOrdersKept ==
  \A items \in BoundedSeq(MCItems, 3) :
    LET quantities == {items[i].quantity : i \in DOMAIN items} IN
    \A side \in {"asks", "bids"}, q \in quantities :
      InOrder(CostUpdate(items, quantities)[side][q], ItemsOf(items, side, q), items)
=============================================================================
