------------------------------ MODULE OhlcCharts ------------------------------
(***************************************************************************)
(* The charts of the public ohlc endpoint (get_cached_ohlc_response in     *)
(* functions.rs, product_to_chart in state.rs).  The first request for a   *)
(* product starts a poller, which fetches its chart every 30 seconds for   *)
(* ever; until the poller has one, each request fetches a chart of its own.*)
(*                                                                         *)
(* The chart service is external.  A chart is an edition: a higher one is  *)
(* a later one.  A fetch takes any time, and what it brings is of some     *)
(* moment between question and answer.  The service may also fail to       *)
(* answer, or answer with an HTTP error, whose page fetch_chart takes for  *)
(* a chart because it does not look at the status.                         *)
(***************************************************************************)
EXTENDS Integers

CONSTANTS
  Products, Requests, Pollers,
  NoProduct,     \* in the place of the product of an idle request or poller
  NoChart,       \* Chart { data: None }
  ErrorPage,     \* the body of an HTTP error
  MaxEdition     \* bound of the model: editions the service brings out

ASSUME ChartAssumption ==
  /\ NoProduct \notin Products
  /\ MaxEdition \in Nat
  /\ NoChart \notin Nat /\ ErrorPage \notin Nat /\ NoChart # ErrorPage

VARIABLES
  product_to_chart,   \* product -> its chart (partial)
  poller,             \* poller -> its product and what it is doing
  request,            \* request -> where it is
  listed,             \* the products in cbbo_sizes (external: SymbolCache)
  edition,            \* product -> what the service has (external)
  newest              \* product -> the highest edition ever cached (history)

chartVars == << product_to_chart, poller, request, listed, edition, newest >>

external == << listed, edition >>

-----------------------------------------------------------------------------
Editions == 0 .. MaxEdition

PollerType ==
  [at : {"free", "resting", "fetching"},
   product : Products \cup {NoProduct},
   asked : Editions]              \* the edition when it asked

RequestType ==
  [at : {"idle", "lookup", "subscribe", "fetching"},
   product : Products \cup {NoProduct}]

ChartTypeOK ==
  /\ DOMAIN product_to_chart \subseteq Products
  /\ \A p \in DOMAIN product_to_chart :
       product_to_chart[p] \in Editions \cup {NoChart, ErrorPage}
  /\ poller \in [Pollers -> PollerType]
  /\ request \in [Requests -> RequestType]
  /\ listed \subseteq Products
  /\ edition \in [Products -> Editions]
  /\ newest \in [Products -> Editions]
  /\ \A i \in Pollers : poller[i].at = "free" <=> poller[i].product = NoProduct
  /\ \A r \in Requests : request[r].at = "idle" <=> request[r].product = NoProduct

Free == [at |-> "free", product |-> NoProduct, asked |-> 0]

IdleRequest == [at |-> "idle", product |-> NoProduct]

ChartInit ==
  /\ product_to_chart = [p \in {} |-> NoChart]
  /\ poller = [i \in Pollers |-> Free]
  /\ request = [r \in Requests |-> IdleRequest]
  /\ listed = {}
  /\ edition = [p \in Products |-> 0]
  /\ newest = [p \in Products |-> 0]

-----------------------------------------------------------------------------
(* Requests.                                                                *)

(* A request for a pair that merx lists; any other is refused.              *)
Begin(r, p) ==
  /\ request[r] = IdleRequest
  /\ p \in listed
  /\ request' = [request EXCEPT ![r] = [at |-> "lookup", product |-> p]]
  /\ UNCHANGED << product_to_chart, poller, external, newest >>

HasChart(p) == p \in DOMAIN product_to_chart /\ product_to_chart[p] # NoChart

(* Mutant: a request that is answered keeps its product.                    *)
LookUp_Keeps(r) ==
  /\ request[r].at = "lookup"
  /\ request' = [request EXCEPT ![r].at = IF HasChart(request[r].product)
                                          THEN "idle" ELSE "subscribe"]
  /\ UNCHANGED << product_to_chart, poller, external, newest >>

(* get_ohlc_chart: a chart is served; without one, for want of a poller or  *)
(* of its first success, the request goes on.                               *)
LookUp(r) ==
  /\ request[r].at = "lookup"
  /\ request' = [request EXCEPT ![r] =
                   IF HasChart(@.product) THEN IdleRequest ELSE [@ EXCEPT !.at = "subscribe"]]
  /\ UNCHANGED << product_to_chart, poller, external, newest >>

WithChart(p, chart) ==
  [x \in DOMAIN product_to_chart \cup {p} |-> IF x = p THEN chart ELSE product_to_chart[x]]

StartPoller(i, p) ==
  /\ poller[i] = Free
  /\ product_to_chart' = WithChart(p, NoChart)
  /\ poller' = [poller EXCEPT ![i] = [at |-> "resting", product |-> p, asked |-> 0]]

(* Mutant: having found no chart, a request takes it that nobody polls.     *)
Subscribe_Unchecked(r, i) ==
  /\ request[r].at = "subscribe"
  /\ StartPoller(i, request[r].product)
  /\ request' = [request EXCEPT ![r].at = "fetching"]
  /\ UNCHANGED << external, newest >>

(* subscribe_ohlc_chart: under one write lock a product without an entry    *)
(* gets one and a poller.  The request then fetches a chart for itself.     *)
Subscribe(r, i) ==
  /\ request[r].at = "subscribe"
  /\ IF request[r].product \in DOMAIN product_to_chart
     THEN UNCHANGED << product_to_chart, poller >>
     ELSE StartPoller(i, request[r].product)
  /\ request' = [request EXCEPT ![r].at = "fetching"]
  /\ UNCHANGED << external, newest >>

(* The request is answered with what its fetch brings, or with "Awaiting    *)
(* data" when it brings nothing; nothing is cached.                         *)
Answer(r) ==
  /\ request[r].at = "fetching"
  /\ request' = [request EXCEPT ![r] = IdleRequest]
  /\ UNCHANGED << product_to_chart, poller, external, newest >>

-----------------------------------------------------------------------------
(* Pollers.                                                                 *)

PollAsk(i) ==
  /\ poller[i].at = "resting"
  /\ poller' = [poller EXCEPT ![i].at = "fetching", ![i].asked = edition[poller[i].product]]
  /\ UNCHANGED << product_to_chart, request, external, newest >>

Rest(i) == poller' = [poller EXCEPT ![i].at = "resting"]

(* A chart arrives and replaces the last one.                               *)
PollChart(i, e) ==
  LET p == poller[i].product IN
  /\ poller[i].at = "fetching"
  /\ e \in poller[i].asked .. edition[p]
  /\ product_to_chart' = WithChart(p, e)
  /\ newest' = [newest EXCEPT ![p] = IF e > @ THEN e ELSE @]
  /\ Rest(i)
  /\ UNCHANGED << request, external >>

(* An error page arrives, and replaces it too.                              *)
PollErrorPage(i) ==
  /\ poller[i].at = "fetching"
  /\ product_to_chart' = WithChart(poller[i].product, ErrorPage)
  /\ Rest(i)
  /\ UNCHANGED << request, external, newest >>

(* Mutant: a poller whose fetch fails takes the chart away.                 *)
PollFails_Clears(i) ==
  /\ poller[i].at = "fetching"
  /\ product_to_chart' = WithChart(poller[i].product, NoChart)
  /\ Rest(i)
  /\ UNCHANGED << request, external, newest >>

(* Mutant: a poller whose fetch fails ends.                                 *)
PollFails_Ends(i) ==
  /\ poller[i].at = "fetching"
  /\ poller' = [poller EXCEPT ![i].at = "free"]
  /\ UNCHANGED << product_to_chart, request, external, newest >>

(* Nothing arrives: what is cached stays.                                   *)
PollFails(i) ==
  /\ poller[i].at = "fetching"
  /\ Rest(i)
  /\ UNCHANGED << product_to_chart, request, external, newest >>

-----------------------------------------------------------------------------
(* The chart service and the listing (external).                            *)
BringOut(p) ==
  /\ edition[p] < MaxEdition
  /\ edition' = [edition EXCEPT ![p] = @ + 1]
  /\ UNCHANGED << product_to_chart, poller, request, listed, newest >>

List(pairs) ==
  /\ listed' = pairs
  /\ UNCHANGED << product_to_chart, poller, request, edition, newest >>

RequestStep(r) ==
  \/ LookUp(r)
  \/ \E i \in Pollers : Subscribe(r, i)
  \/ Answer(r)

PollStep(i) ==
  \/ PollAsk(i)
  \/ \E e \in Editions : PollChart(i, e)
  \/ PollErrorPage(i)
  \/ PollFails(i)

ChartNext ==
  \/ \E r \in Requests : RequestStep(r) \/ \E p \in Products : Begin(r, p)
  \/ \E i \in Pollers : PollStep(i)
  \/ \E p \in Products : BringOut(p)
  \/ \E pairs \in SUBSET Products : List(pairs)

ChartSpec == ChartInit /\ [][ChartNext]_chartVars

(* Requests and pollers run on; the service does not answer every question  *)
(* of a poller with an error, or with silence, for ever.                    *)
FairChartSpec ==
  /\ ChartSpec
  /\ \A r \in Requests : WF_chartVars(RequestStep(r))
  /\ \A i \in Pollers :
       /\ WF_chartVars(PollStep(i))
       /\ SF_chartVars(\E e \in Editions : PollChart(i, e))

-----------------------------------------------------------------------------
Polls(i, p) == poller[i].at # "free" /\ poller[i].product = p

(* A product has an entry exactly while it has a poller, and never two,     *)
(* however many requests find no chart at once and go on to subscribe.      *)
OnePoller ==
  \A p \in Products :
    /\ p \in DOMAIN product_to_chart <=> \E i \in Pollers : Polls(i, p)
    /\ \A i, j \in Pollers : Polls(i, p) /\ Polls(j, p) => i = j

(* Whatever takes the place of a product's chart is an edition no older than*)
(* any that was cached for it before, also when an error page stood there in*)
(* between, or is the page of an HTTP error.  So a slow fetch does not undo *)
(* a later one, and one that brings nothing does not send the requests back *)
(* to fetching for themselves.  An HTTP error does take a good chart's      *)
(* place: merx knows its page for no error (fetch_chart).                   *)
EditionsAdvance ==
  [][\A p \in DOMAIN product_to_chart :
       /\ p \in DOMAIN product_to_chart'
       /\ product_to_chart'[p] # product_to_chart[p] =>
            product_to_chart'[p] \in {ErrorPage} \cup newest[p] .. MaxEdition]_chartVars

(* A product that was asked for once has its current chart time and again:  *)
(* its poller outlives failures, and an error page does not stay.           *)
ChartsFollow ==
  \A p \in Products :
    p \in DOMAIN product_to_chart
      ~> HasChart(p) /\ product_to_chart[p] = edition[p]
=============================================================================
