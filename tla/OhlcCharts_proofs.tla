-------------------------- MODULE OhlcCharts_proofs --------------------------
(***************************************************************************)
(* Proofs about OhlcCharts, for any number of products, requests, pollers  *)
(* and editions.  That editions advance needs more than the properties:    *)
(* what a poller asked for is no older than anything cached for its        *)
(* product, which holds because nobody else caches charts of that product. *)
(***************************************************************************)
EXTENDS OhlcCharts, TLAPS

(* A poller that waits for an answer asked after all that is cached.        *)
AsksLater ==
  /\ \A p \in Products : newest[p] <= edition[p]
  /\ \A i \in Pollers :
       poller[i].at = "fetching" =>
         /\ newest[poller[i].product] <= poller[i].asked
         /\ poller[i].asked <= edition[poller[i].product]

ChartInv == ChartTypeOK /\ OnePoller /\ AsksLater

-----------------------------------------------------------------------------
(* What the requests do to the charts: nothing, or one new poller.          *)
LEMMA StartPollerKeeps ==
  ASSUME ChartAssumption, ChartInv, NEW i \in Pollers, NEW p \in Products,
         p \notin DOMAIN product_to_chart, StartPoller(i, p),
         UNCHANGED << listed, edition, newest >>,
         NEW r \in Requests, request' = [request EXCEPT ![r].at = "fetching"],
         request[r].at = "subscribe"
  PROVE  ChartInv'
<1>1. /\ poller[i] = Free
      /\ product_to_chart' = [x \in DOMAIN product_to_chart \cup {p} |->
                                IF x = p THEN NoChart ELSE product_to_chart[x]]
      /\ poller' = [poller EXCEPT ![i] = [at |-> "resting", product |-> p, asked |-> 0]]
  BY DEF StartPoller, WithChart
<1>2. /\ poller'[i] = [at |-> "resting", product |-> p, asked |-> 0]
      /\ \A j \in Pollers \ {i} : poller'[j] = poller[j]
      /\ poller' \in [Pollers -> PollerType]
  BY <1>1 DEF ChartInv, ChartTypeOK, PollerType, ChartAssumption, Editions
<1>3. ChartTypeOK'
  <2>1. product_to_chart'[p] = NoChart
        /\ \A x \in DOMAIN product_to_chart : product_to_chart'[x] = product_to_chart[x]
    BY <1>1
  <2>2. request' \in [Requests -> RequestType]
        /\ \A q \in Requests : request'[q].at = "idle" <=> request'[q].product = NoProduct
    BY DEF ChartInv, ChartTypeOK, RequestType, ChartAssumption
  <2>3. \A j \in Pollers : poller'[j].at = "free" <=> poller'[j].product = NoProduct
    BY <1>2 DEF ChartInv, ChartTypeOK, ChartAssumption
  <2> QED
    BY <1>1, <1>2, <2>1, <2>2, <2>3 DEF ChartInv, ChartTypeOK, Editions
<1>4. OnePoller'
  <2>1. ~ Polls(i, p) /\ \A j \in Pollers : ~ Polls(j, p)
    BY DEF ChartInv, OnePoller
  <2>2. \A j \in Pollers \ {i}, q \in Products : Polls(j, q)' <=> Polls(j, q)
    BY <1>2 DEF Polls
  <2>3. \A q \in Products : Polls(i, q)' <=> q = p
    BY <1>2 DEF Polls
  <2>4. \A q \in Products : ~ Polls(i, q)
    BY <1>1 DEF Polls, Free
  <2>5. \A q \in Products : q \in DOMAIN product_to_chart' <=> q = p \/ q \in DOMAIN product_to_chart
    BY <1>1
  <2>6. \A q \in Products : /\ q \in DOMAIN product_to_chart <=> \E j \in Pollers : Polls(j, q)
                            /\ \A j, k \in Pollers : Polls(j, q) /\ Polls(k, q) => j = k
    BY DEF ChartInv, OnePoller
  <2>7. \A q \in Products : /\ q \in DOMAIN product_to_chart' <=> \E j \in Pollers : Polls(j, q)'
                            /\ \A j, k \in Pollers : Polls(j, q)' /\ Polls(k, q)' => j = k
    BY <2>1, <2>2, <2>3, <2>4, <2>5, <2>6
  <2> QED BY <2>7 DEF OnePoller, Polls
<1>5. AsksLater'
  BY <1>2 DEF ChartInv, AsksLater
<1> QED BY <1>3, <1>4, <1>5 DEF ChartInv

(* What an answered poller does: it rests, and its chart may be replaced by *)
(* one that its question allows.                                            *)
LEMMA PollKeeps ==
  ASSUME ChartAssumption, ChartInv, NEW i \in Pollers,
         poller[i].at \in {"resting", "fetching"},
         poller' = [poller EXCEPT ![i].at = "resting"],
         UNCHANGED << request, listed, edition >>,
         NEW new \in Editions \cup {NoChart, ErrorPage},
         product_to_chart' \in {product_to_chart, WithChart(poller[i].product, new)},
         newest' \in [Products -> Editions],
         \A p \in Products : newest'[p] = newest[p] \/ (p = poller[i].product /\ newest'[p] <= edition[p])
  PROVE  ChartInv'
<1>1. poller[i].product \in Products /\ poller[i].product \in DOMAIN product_to_chart
  BY DEF ChartInv, ChartTypeOK, PollerType, ChartAssumption, OnePoller, Polls
<1>2. /\ poller' \in [Pollers -> PollerType]
      /\ \A j \in Pollers : /\ poller'[j].product = poller[j].product
                            /\ poller'[j].asked = poller[j].asked
                            /\ poller'[j].at = IF j = i THEN "resting" ELSE poller[j].at
  BY DEF ChartInv, ChartTypeOK, PollerType
<1>3. /\ DOMAIN product_to_chart' = DOMAIN product_to_chart
      /\ \A p \in DOMAIN product_to_chart :
           product_to_chart'[p] \in {product_to_chart[p], new}
  BY <1>1 DEF WithChart
<1>4. ChartTypeOK'
  <2>1. \A j \in Pollers : poller'[j].at = "free" <=> poller'[j].product = NoProduct
    BY <1>2 DEF ChartInv, ChartTypeOK
  <2>2. DOMAIN product_to_chart' \subseteq Products
        /\ \A p \in DOMAIN product_to_chart' : product_to_chart'[p] \in Editions \cup {NoChart, ErrorPage}
    BY <1>3 DEF ChartInv, ChartTypeOK
  <2> QED BY <1>2, <2>1, <2>2 DEF ChartInv, ChartTypeOK, Editions
<1>5. OnePoller'
  <2>1. \A j \in Pollers, q \in Products : Polls(j, q)' <=> Polls(j, q)
    BY <1>2 DEF Polls
  <2>2. \A q \in Products : /\ q \in DOMAIN product_to_chart <=> \E j \in Pollers : Polls(j, q)
                            /\ \A j, k \in Pollers : Polls(j, q) /\ Polls(k, q) => j = k
    BY DEF ChartInv, OnePoller
  <2>3. \A q \in Products : /\ q \in DOMAIN product_to_chart' <=> \E j \in Pollers : Polls(j, q)'
                            /\ \A j, k \in Pollers : Polls(j, q)' /\ Polls(k, q)' => j = k
    BY <1>3, <2>1, <2>2
  <2> QED BY <2>3 DEF OnePoller, Polls
<1>6. AsksLater'
  <2>1. \A j \in Pollers \ {i} : poller[j].at = "fetching" => newest'[poller[j].product] = newest[poller[j].product]
    <3> SUFFICES ASSUME NEW j \in Pollers \ {i}, poller[j].at = "fetching"
                 PROVE  newest'[poller[j].product] = newest[poller[j].product]
      OBVIOUS
    <3>1. poller[j].product \in Products
      BY DEF ChartInv, ChartTypeOK, PollerType
    <3>2. Polls(j, poller[j].product) /\ Polls(i, poller[i].product)
      BY DEF Polls
    <3>3. poller[j].product # poller[i].product
      BY <1>1, <3>1, <3>2 DEF ChartInv, OnePoller
    <3> QED BY <3>1, <3>3
  <2>2. \A p \in Products : newest'[p] <= edition'[p]
    BY DEF ChartInv, AsksLater
  <2>3. \A j \in Pollers :
          poller'[j].at = "fetching" =>
            /\ newest'[poller'[j].product] <= poller'[j].asked
            /\ poller'[j].asked <= edition'[poller'[j].product]
    <3> SUFFICES ASSUME NEW j \in Pollers, poller'[j].at = "fetching"
                 PROVE  /\ newest'[poller'[j].product] <= poller'[j].asked
                        /\ poller'[j].asked <= edition'[poller'[j].product]
      OBVIOUS
    <3>1. j # i /\ poller[j].at = "fetching"
      BY <1>2
    <3> QED BY <1>2, <2>1, <3>1 DEF ChartInv, AsksLater
  <2> QED BY <2>2, <2>3 DEF AsksLater
<1> QED BY <1>4, <1>5, <1>6 DEF ChartInv

LEMMA ChartInvInit == ASSUME ChartAssumption PROVE ChartInit => ChartInv
<1> SUFFICES ASSUME ChartInit PROVE ChartInv
  OBVIOUS
<1>1. ChartTypeOK
  BY DEF ChartInit, ChartTypeOK, Free, IdleRequest, PollerType, RequestType, Editions,
         ChartAssumption
<1>2. OnePoller
  BY DEF ChartInit, OnePoller, Polls, Free
<1>3. AsksLater
  BY DEF ChartInit, AsksLater, Free
<1> QED BY <1>1, <1>2, <1>3 DEF ChartInv

(* The requests, the listing and a later edition leave charts and pollers   *)
(* alone.                                                                   *)
LEMMA OthersKeep ==
  ASSUME ChartAssumption, ChartInv,
         UNCHANGED << product_to_chart, poller, newest >>,
         request' \in [Requests -> RequestType],
         \A r \in Requests : request'[r].at = "idle" <=> request'[r].product = NoProduct,
         listed' \subseteq Products,
         edition' \in [Products -> Editions],
         \A p \in Products : edition[p] <= edition'[p]
  PROVE  ChartInv'
<1>1. ChartTypeOK'
  BY DEF ChartInv, ChartTypeOK, Editions
<1>2. OnePoller'
  BY DEF ChartInv, OnePoller, Polls
<1>3. AsksLater'
  <2>1. \A p \in Products : newest[p] \in Nat /\ edition[p] \in Nat /\ edition'[p] \in Nat
    BY DEF ChartInv, ChartTypeOK, Editions, ChartAssumption
  <2>2. \A i \in Pollers : poller[i].asked \in Nat
    BY DEF ChartInv, ChartTypeOK, PollerType, Editions, ChartAssumption
  <2>3. \A i \in Pollers : poller[i].at = "fetching" => poller[i].product \in Products
    BY DEF ChartInv, ChartTypeOK, PollerType
  <2> QED BY <2>1, <2>2, <2>3 DEF ChartInv, AsksLater
<1> QED BY <1>1, <1>2, <1>3 DEF ChartInv

LEMMA ChartInvStep ==
  ASSUME ChartAssumption
  PROVE  ChartInv /\ [ChartNext]_chartVars => ChartInv'
<1> SUFFICES ASSUME ChartInv, [ChartNext]_chartVars PROVE ChartInv'
  OBVIOUS
<1>t. ChartTypeOK
  BY DEF ChartInv
<1>1. ASSUME NEW r \in Requests, NEW p \in Products, Begin(r, p) PROVE ChartInv'
  <2>1. request' \in [Requests -> RequestType]
        /\ \A q \in Requests : request'[q].at = "idle" <=> request'[q].product = NoProduct
    BY <1>1, <1>t DEF Begin, ChartTypeOK, RequestType, ChartAssumption
  <2> QED BY <1>1, <1>t, <2>1, OthersKeep DEF Begin, external, ChartTypeOK, Editions, ChartAssumption
<1>2. ASSUME NEW r \in Requests, LookUp(r) PROVE ChartInv'
  <2>1. request' \in [Requests -> RequestType]
        /\ \A q \in Requests : request'[q].at = "idle" <=> request'[q].product = NoProduct
    BY <1>2, <1>t DEF LookUp, IdleRequest, ChartTypeOK, RequestType, ChartAssumption
  <2> QED BY <1>2, <1>t, <2>1, OthersKeep DEF LookUp, external, ChartTypeOK, Editions, ChartAssumption
<1>3. ASSUME NEW r \in Requests, NEW i \in Pollers, Subscribe(r, i) PROVE ChartInv'
  <2>1. request[r].product \in Products
    BY <1>3, <1>t DEF Subscribe, ChartTypeOK, RequestType
  <2>2. CASE request[r].product \in DOMAIN product_to_chart
    <3>1. request' \in [Requests -> RequestType]
          /\ \A q \in Requests : request'[q].at = "idle" <=> request'[q].product = NoProduct
      BY <1>3, <1>t DEF Subscribe, ChartTypeOK, RequestType, ChartAssumption
    <3> QED BY <1>3, <1>t, <2>2, <3>1, OthersKeep
            DEF Subscribe, external, ChartTypeOK, Editions, ChartAssumption
  <2>3. CASE request[r].product \notin DOMAIN product_to_chart
    BY <1>3, <2>1, <2>3, StartPollerKeeps DEF Subscribe, external
  <2> QED BY <2>2, <2>3
<1>4. ASSUME NEW r \in Requests, Answer(r) PROVE ChartInv'
  <2>1. request' \in [Requests -> RequestType]
        /\ \A q \in Requests : request'[q].at = "idle" <=> request'[q].product = NoProduct
    BY <1>4, <1>t DEF Answer, IdleRequest, ChartTypeOK, RequestType, ChartAssumption
  <2> QED BY <1>4, <1>t, <2>1, OthersKeep DEF Answer, external, ChartTypeOK, Editions, ChartAssumption
<1>5. ASSUME NEW i \in Pollers, PollAsk(i) PROVE ChartInv'
  <2>0. poller[i].product \in Products /\ edition[poller[i].product] \in Editions
    BY <1>5, <1>t DEF PollAsk, ChartTypeOK, PollerType, ChartAssumption
  <2>1. /\ poller' \in [Pollers -> PollerType]
        /\ \A j \in Pollers : poller'[j].product = poller[j].product
        /\ \A j \in Pollers \ {i} : poller'[j] = poller[j]
        /\ poller'[i].at = "fetching" /\ poller'[i].asked = edition[poller[i].product]
    BY <1>5, <1>t, <2>0 DEF PollAsk, ChartTypeOK, PollerType
  <2>2. ChartTypeOK'
    BY <1>5, <1>t, <2>1 DEF PollAsk, external, ChartTypeOK, Editions
  <2>3. \A j \in Pollers, q \in Products : Polls(j, q)' <=> Polls(j, q)
    BY <1>5, <2>1 DEF PollAsk, Polls
  <2>4. OnePoller'
    <3>1. \A q \in Products : /\ q \in DOMAIN product_to_chart <=> \E j \in Pollers : Polls(j, q)
                              /\ \A j, k \in Pollers : Polls(j, q) /\ Polls(k, q) => j = k
      BY DEF ChartInv, OnePoller
    <3>2. product_to_chart' = product_to_chart
      BY <1>5 DEF PollAsk
    <3>3. \A q \in Products : /\ q \in DOMAIN product_to_chart' <=> \E j \in Pollers : Polls(j, q)'
                              /\ \A j, k \in Pollers : Polls(j, q)' /\ Polls(k, q)' => j = k
      BY <2>3, <3>1, <3>2
    <3> QED BY <3>3 DEF OnePoller, Polls
  <2>5. AsksLater'
    <3>1. /\ newest' = newest /\ edition' = edition
          /\ newest[poller[i].product] <= edition[poller[i].product]
          /\ edition[poller[i].product] \in Nat
      BY <1>5, <2>0, ChartAssumption DEF PollAsk, external, ChartInv, AsksLater, Editions
    <3>2. ASSUME NEW j \in Pollers, poller'[j].at = "fetching"
          PROVE  /\ newest[poller[j].product] <= poller'[j].asked
                 /\ poller'[j].asked <= edition[poller[j].product]
      BY <2>1, <3>1, <3>2 DEF ChartInv, AsksLater
    <3>3. \A p \in Products : newest'[p] <= edition'[p]
      BY <3>1 DEF ChartInv, AsksLater
    <3> QED BY <2>1, <3>1, <3>2, <3>3 DEF AsksLater
  <2> QED BY <2>2, <2>4, <2>5 DEF ChartInv
<1>6. ASSUME NEW i \in Pollers, NEW e \in Editions, PollChart(i, e) PROVE ChartInv'
  <2>1. e \in Editions \cup {NoChart, ErrorPage} /\ poller[i].product \in Products
        /\ poller[i].asked \in Editions
    BY <1>6, <1>t DEF PollChart, ChartTypeOK, PollerType, ChartAssumption
  <2>2. /\ newest' \in [Products -> Editions]
        /\ \A p \in Products : newest'[p] = newest[p]
             \/ (p = poller[i].product /\ newest'[p] <= edition[p])
    BY <1>6, <1>t, <2>1 DEF PollChart, ChartTypeOK, Editions, ChartAssumption
  <2> QED BY <1>6, <2>1, <2>2, PollKeeps DEF PollChart, Rest, external
<1>7. ASSUME NEW i \in Pollers, PollErrorPage(i) PROVE ChartInv'
  BY <1>7, <1>t, PollKeeps DEF PollErrorPage, Rest, external, ChartTypeOK
<1>8. ASSUME NEW i \in Pollers, PollFails(i) PROVE ChartInv'
  BY <1>8, <1>t, PollKeeps DEF PollFails, Rest, external, ChartTypeOK
<1>9. ASSUME NEW p \in Products, BringOut(p) PROVE ChartInv'
  <2>1. /\ edition' \in [Products -> Editions]
        /\ \A q \in Products : edition[q] <= edition'[q]
    BY <1>9, <1>t DEF BringOut, ChartTypeOK, Editions, ChartAssumption
  <2> QED BY <1>9, <1>t, <2>1, OthersKeep DEF BringOut, ChartTypeOK
<1>10. ASSUME NEW pairs \in SUBSET Products, List(pairs) PROVE ChartInv'
  BY <1>10, <1>t, OthersKeep DEF List, ChartTypeOK, Editions, ChartAssumption
<1>11. CASE UNCHANGED chartVars
  BY <1>11, <1>t, OthersKeep DEF chartVars, ChartTypeOK, Editions, ChartAssumption
<1> QED
  BY <1>1, <1>2, <1>3, <1>4, <1>5, <1>6, <1>7, <1>8, <1>9, <1>10, <1>11
     DEF ChartNext, RequestStep, PollStep

-----------------------------------------------------------------------------
THEOREM ChartInvariance == ChartSpec => []ChartInv
<1>1. ChartInit => ChartInv
  BY ChartInvInit, ChartAssumption
<1>2. ChartInv /\ [ChartNext]_chartVars => ChartInv'
  BY ChartInvStep, ChartAssumption
<1> QED BY <1>1, <1>2, PTL DEF ChartSpec

(* Charts, pollers and requests always have their types.                    *)
THEOREM ChartsTyped == ChartSpec => []ChartTypeOK
<1>1. ChartInv => ChartTypeOK
  BY DEF ChartInv
<1> QED BY <1>1, ChartInvariance, PTL

(* subscribe_ohlc_chart starts one poller for a product, however many       *)
(* requests race.                                                           *)
THEOREM SinglePoller == ChartSpec => []OnePoller
<1>1. ChartInv => OnePoller
  BY DEF ChartInv
<1> QED BY <1>1, ChartInvariance, PTL

(* An edition is only followed by a later one or by an error page, and an   *)
(* error page by no edition older than those before it.                     *)
THEOREM EditionsOnlyAdvance == ChartSpec => EditionsAdvance
<1> DEFINE Stays(p) == p \in DOMAIN product_to_chart' /\ product_to_chart'[p] = product_to_chart[p]
           Advance ==
             \A p \in DOMAIN product_to_chart :
               /\ p \in DOMAIN product_to_chart'
               /\ product_to_chart'[p] # product_to_chart[p] =>
                    product_to_chart'[p] \in {ErrorPage} \cup newest[p] .. MaxEdition
<1>1. ChartInv /\ [ChartNext]_chartVars => [Advance]_chartVars
  <2> SUFFICES ASSUME ChartInv, ChartNext, NEW p \in DOMAIN product_to_chart
               PROVE  \/ Stays(p)
                      \/ /\ p \in DOMAIN product_to_chart'
                         /\ product_to_chart'[p] \in {ErrorPage} \cup newest[p] .. MaxEdition
    OBVIOUS
  <2>1. CASE product_to_chart' = product_to_chart
    BY <2>1
  <2>2. ASSUME NEW r \in Requests, NEW i \in Pollers, Subscribe(r, i) PROVE Stays(p)
    BY <2>2 DEF Subscribe, StartPoller, WithChart
  <2>3. ASSUME NEW i \in Pollers, NEW e \in Editions, PollChart(i, e)
        PROVE  Stays(p) \/ (/\ p \in DOMAIN product_to_chart'
                           /\ product_to_chart'[p] \in newest[p] .. MaxEdition)
    <3>1. CASE p = poller[i].product
      <4>1. e \in newest[p] .. MaxEdition
        BY <2>3, <3>1, ChartAssumption
        DEF PollChart, ChartInv, AsksLater, ChartTypeOK, PollerType, Editions
      <4>2. p \in DOMAIN product_to_chart' /\ product_to_chart'[p] = e
        BY <2>3, <3>1 DEF PollChart, WithChart
      <4> QED BY <4>1, <4>2
    <3>2. CASE p # poller[i].product
      BY <2>3, <3>2 DEF PollChart, WithChart
    <3> QED BY <3>1, <3>2
  <2>4. ASSUME NEW i \in Pollers, PollErrorPage(i)
        PROVE  Stays(p) \/ (p \in DOMAIN product_to_chart' /\ product_to_chart'[p] = ErrorPage)
    BY <2>4 DEF PollErrorPage, WithChart
  <2>5. \/ product_to_chart' = product_to_chart
        \/ \E r \in Requests, i \in Pollers : Subscribe(r, i)
        \/ \E i \in Pollers, e \in Editions : PollChart(i, e)
        \/ \E i \in Pollers : PollErrorPage(i)
    BY DEF ChartNext, RequestStep, PollStep, Begin, LookUp, Answer, PollAsk, PollFails,
           BringOut, List
  <2> QED BY <2>1, <2>2, <2>3, <2>4, <2>5
<1>2. ChartSpec => [][Advance]_chartVars
  BY <1>1, ChartInvariance, PTL DEF ChartSpec
<1> QED BY <1>2 DEF EditionsAdvance, Advance
=============================================================================
