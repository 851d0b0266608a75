----------------------------- MODULE MarketNames -----------------------------
(***************************************************************************)
(* Exchanges as clients name them and markets as cbag names them (helper.rs*)
(* and the exchanges of user.rs), and what merx makes of the names in the  *)
(* updates of cbag before it forwards them.                                *)
(*                                                                         *)
(* A name is a sequence of words, of which "-", "_", "%23na", "#na" and    *)
(* "sim_" are punctuation.  Letter case is left out: markets are in capital*)
(* letters and exchanges in small ones.                                    *)
(***************************************************************************)
EXTENDS Integers, SequencesExt

(* The two exchanges whose market has another name.                         *)
ToMarket(exchange) ==
  CASE exchange = <<"gdax">>     -> <<"coinbase">>
    [] exchange = <<"huobipro">> -> <<"huobi">>
    [] OTHER                     -> exchange

ToExchange(market) ==
  CASE market = <<"coinbase">> -> <<"gdax">>
    [] market = <<"huobi">>    -> <<"huobipro">>
    [] OTHER                   -> market

(* The client under which cbag serves a user: its client_id and, if the     *)
(* connection was opened with one, its market_data_id.                      *)
ClientName(client_id, market_data_id) ==
  IF market_data_id = << >> THEN client_id ELSE client_id \o <<"_">> \o market_data_id

(* The suffix is "#NA" as a URL has it.                                     *)
exchange_to_cbag_market(exchange, client, non_agg_prices, customer_specific) ==
  (IF customer_specific THEN client \o <<"-">> ELSE << >>)
    \o ToMarket(exchange)
    \o (IF non_agg_prices THEN <<"%23na">> ELSE << >>)

StripSuffix(name, word) ==
  IF name # << >> /\ name[Len(name)] = word THEN SubSeq(name, 1, Len(name) - 1) ELSE name

IsFirstDash(name, i) ==
  i \in 1 .. Len(name) /\ name[i] = "-" /\ \A j \in 1 .. i - 1 : name[j] # "-"

AfterDash(name) ==
  IF \E i \in 1 .. Len(name) : IsFirstDash(name, i)
  THEN SubSeq(name, (CHOOSE i \in 1 .. Len(name) : IsFirstDash(name, i)) + 1, Len(name))
  ELSE name

(* Mutant: the suffix is known as cbag reports it only.                     *)
cbag_market_to_exchange_Plain(market) ==
  ToExchange(AfterDash(StripSuffix(market, "#na")))

cbag_market_to_exchange(market) ==
  ToExchange(AfterDash(StripSuffix(StripSuffix(market, "#na"), "%23na")))

(* The cost calculator asks for the real market in the place of a simulated *)
(* one.                                                                     *)
WithoutSim(market) ==
  ToMarket(IF market # << >> /\ market[1] = "sim_" THEN Tail(market) ELSE market)

-----------------------------------------------------------------------------
(* Updates.                                                                 *)

(* cbag decodes the names in its URL (external).                            *)
Reported(market) ==
  [i \in DOMAIN market |-> IF market[i] = "%23na" THEN "#na" ELSE market[i]]

(* market_depth_v1: the quantities of a level, by market, become quantities *)
(* by exchange.  Of two markets with one name either may win: the order of a*)
(* HashMap is random.                                                       *)
RenamedLevel(level) ==
  LET names == {cbag_market_to_exchange(m) : m \in DOMAIN level} IN
  {renamed \in [names -> Range(level)] :
     \A name \in names :
       \E m \in DOMAIN level : cbag_market_to_exchange(m) = name /\ renamed[name] = level[m]}

(* rest_cost_calculator_v1: an item is skipped whose target quantity is null*)
(* or ends in ".00" (a whole one).  The comment there has it that null and  *)
(* empty ones are; the code keeps an item with an empty quantity, and skips *)
(* every whole one.                                                         *)
Skipped(item) == item.quantity \in {"null", "whole"}

ItemSide(item) == IF item.side = "buy" THEN "asks" ELSE "bids"

Pushed(book, item) ==
  [book EXCEPT ![ItemSide(item)][item.quantity] = Append(@, item)]

(* The other items are orders, each for its side and quantity.  (The price  *)
(* of one may fail to be computed; then there is no update at all.)         *)
CostUpdate(items, quantities) ==
  FoldLeft(LAMBDA book, item : IF Skipped(item) THEN book ELSE Pushed(book, item),
           [side \in {"asks", "bids"} |-> [q \in quantities |-> << >>]],
           items)

(* The items that are orders of a side and a quantity: what is bought is    *)
(* asked for, and anything else is a bid.                                   *)
ItemsOf(items, side, quantity) ==
  {i \in DOMAIN items : /\ ~Skipped(items[i]) /\ items[i].quantity = quantity
                        /\ (items[i].side = "buy") = (side = "asks")}

(* The orders are those of the chosen items, one each, in their order.      *)
InOrder(orders, chosen, items) ==
  /\ Len(orders) = Cardinality(chosen)
  /\ \A i \in chosen : orders[Cardinality({j \in chosen : j <= i})] = items[i]

(* Words: all there are, the punctuation and the two markets among them.    *)
HasWords(words) == {"-", "%23na", "#na", "coinbase", "huobi"} \subseteq words

(* A name that is free of the punctuation that a market's name adds.        *)
Plain(words, name) ==
  /\ name \in Seq(words)
  /\ \A i \in 1 .. Len(name) : name[i] \notin {"-", "%23na", "#na"}
=============================================================================
