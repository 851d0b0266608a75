-------------------------- MODULE SymbolCache_proofs --------------------------
(***************************************************************************)
(* Proofs about SymbolCache, for every listing, number of pages and set of *)
(* endpoints.                                                              *)
(***************************************************************************)
EXTENDS SymbolCache, SequenceTheorems, WellFoundedInduction, TLAPS

(* A bounded set of naturals has a greatest element.                        *)
LEMMA Greatest ==
  ASSUME NEW n \in Nat, NEW S \in SUBSET (0 .. n), S # {}
  PROVE  \E m \in S : \A k \in S : k <= m
<1> DEFINE T == {n - k : k \in S}
<1>1. T \subseteq Nat /\ T # {}
  <2>1. \A k \in S : k \in 0 .. n
    OBVIOUS
  <2>2. \A k \in S : n - k \in Nat
    BY <2>1
  <2> QED BY <2>2
<1>2. \A x, y \in Nat : <<y, x>> \in OpToRel(<, Nat) <=> y < x
  BY DEF OpToRel
<1>3. \E d \in T : \A y \in T : d <= y
  <2> DEFINE R == OpToRel(<, Nat)
  <2>1. IsWellFoundedOn(R, Nat)
    BY NatLessThanWellFounded
  <2>2. \A x, y \in Nat : <<y, x>> \in R <=> y < x
    BY <1>2
  <2> HIDE DEF R, T
  <2>3. PICK d \in T : \A y \in T : ~(<<y, d>> \in R)
    BY <1>1, <2>1, WFMin
  <2>4. ASSUME NEW y \in T PROVE d <= y
    <3>1. y \in Nat /\ d \in Nat
      BY <1>1
    <3>2. ~(y < d)
      BY <2>2, <2>3, <3>1
    <3> QED BY <3>1, <3>2
  <2> QED BY <2>4
<1>4. PICK m \in S : \A k \in S : n - m <= n - k
  BY <1>3
<1>5. \A k \in S : k <= m
  BY <1>4
<1> QED BY <1>5

(* The entry that counts for a pair is one of the pair's.                   *)
LEMMA LastOfIsOf ==
  ASSUME NEW l \in Seq(Entries), NEW p \in TradedPairs(l)
  PROVE  /\ LastOf(l, p) \in DOMAIN l
         /\ l[LastOf(l, p)] \in Traded
         /\ PairOf[l[LastOf(l, p)]] = p
<1> DEFINE S == {i \in DOMAIN l : l[i] \in Traded /\ PairOf[l[i]] = p}
<1>1. S # {}
  BY DEF TradedPairs, Listed
<1>2. DOMAIN l = 1 .. Len(l) /\ Len(l) \in Nat
  BY LenProperties
<1>3. S \in SUBSET (0 .. Len(l))
  BY <1>2
<1>4. \E i \in S : \A j \in S : j <= i
  <2> HIDE DEF S
  <2> QED BY <1>1, <1>2, <1>3, Greatest
<1>5. \E i \in DOMAIN l :
        /\ l[i] \in Traded /\ PairOf[l[i]] = p
        /\ \A j \in DOMAIN l : l[j] \in Traded /\ PairOf[l[j]] = p => j <= i
  BY <1>4
<1> QED BY <1>5 DEF LastOf

(* The table made of a listing has its traded pairs, each with an entry of  *)
(* the listing.                                                             *)
LEMMA ParsedSizesOf ==
  ASSUME NEW l \in Seq(Entries)
  PROVE  /\ DOMAIN ParsedSizes(l) = TradedPairs(l)
         /\ TradedPairs(l) \subseteq Pairs
         /\ \A p \in TradedPairs(l) :
              ParsedSizes(l)[p] \in Listed(l) \cap Traded /\ PairOf[ParsedSizes(l)[p]] = p
         /\ Listed(l) \subseteq Entries
<1>1. Listed(l) \subseteq Entries
  BY LenProperties DEF Listed
<1>2. TradedPairs(l) \subseteq Pairs
  BY <1>1, SymbolAssumption DEF TradedPairs
<1>3. \A p \in TradedPairs(l) :
        ParsedSizes(l)[p] \in Listed(l) \cap Traded /\ PairOf[ParsedSizes(l)[p]] = p
  BY LastOfIsOf DEF ParsedSizes, Listed
<1> QED BY <1>1, <1>2, <1>3 DEF ParsedSizes

-----------------------------------------------------------------------------
(* The records of the pull task that the steps make.                        *)
LEMMA PullTypes ==
  ASSUME pull \in PullType, NEW place \in Places
  PROVE  /\ [pull EXCEPT !.at = place] \in PullType
         /\ [pull EXCEPT !.at = place, !.page = 1, !.pairs = << >>] \in PullType
<1>1. 1 \in 0 .. MaxPage
  BY SymbolAssumption
<1>2. << >> \in Seq(Entries)
  BY EmptySeq
<1>3. [pull EXCEPT !.at = place] \in PullType
  BY DEF PullType
<1>4. \A none \in Seq(Entries) :
        [pull EXCEPT !.at = place, !.page = 1, !.pairs = none] \in PullType
  BY <1>1 DEF PullType
<1> QED BY <1>2, <1>3, <1>4

(* While it starts up the task has attempts left.                           *)
AttemptsLeft == pull.at = "starting" => pull.attempts < StartUpAttempts

TypeInv == SymbolTypeOK /\ AttemptsLeft

(* Every step keeps the types.                                              *)
LEMMA TypeStep == TypeInv /\ [SymbolNext]_vars => TypeInv'
<1> SUFFICES ASSUME SymbolTypeOK, AttemptsLeft, [SymbolNext]_vars
             PROVE  SymbolTypeOK' /\ AttemptsLeft'
  BY DEF TypeInv
<1>0. /\ pull \in PullType
      /\ {"starting", "resting", "paging", "listed", "endpoints", "dead"} \subseteq Places
      /\ StartUpAttempts \in Nat \ {0} /\ MaxPage \in Nat \ {0}
  BY SymbolAssumption DEF SymbolTypeOK, Places
<1>1. ASSUME NEW place \in Places, place # "starting", EndPull(place)
      PROVE  /\ pull' \in PullType /\ AttemptsLeft'
             /\ seen' \subseteq Entries /\ moved' \in BOOLEAN
  <2>1. pull' = [pull EXCEPT !.at = place, !.page = 1, !.pairs = << >>]
    BY <1>1 DEF EndPull
  <2>2. pull' \in PullType
    BY <1>0, <2>1, PullTypes
  <2>3. pull'.at = place
    BY <1>0, <2>1 DEF PullType
  <2> QED BY <1>1, <2>2, <2>3 DEF EndPull, AttemptsLeft
<1>2. CASE StartUpPull
  <2> DEFINE n == pull.attempts + 1
             place == IF n = StartUpAttempts THEN "resting" ELSE "starting"
  <2>1. pull' = [pull EXCEPT !.attempts = n, !.at = place]
    BY <1>0, <1>2 DEF StartUpPull, PullType
  <2>2. pull.at = "starting"
    BY <1>2 DEF StartUpPull
  <2>3. n \in 0 .. StartUpAttempts /\ (place = "starting" => n < StartUpAttempts)
    BY <1>0, <2>2 DEF PullType, AttemptsLeft
  <2>4. place \in Places
    BY <1>0
  <2> HIDE DEF n, place
  <2>5. pull' \in PullType /\ pull'.at = place /\ pull'.attempts = n
    BY <1>0, <2>1, <2>3, <2>4 DEF PullType
  <2> QED BY <1>2, <2>3, <2>5 DEF StartUpPull, served, portal, history, SymbolTypeOK, AttemptsLeft
<1>3. CASE BeginPull
  <2>1. pull' = [pull EXCEPT !.at = "paging"]
    BY <1>3 DEF BeginPull
  <2>2. pull' \in PullType /\ pull'.at = "paging"
    BY <1>0, <2>1, PullTypes DEF PullType
  <2>3. Listed(listing) \subseteq Entries
    BY SymbolAssumption, ParsedSizesOf DEF SymbolTypeOK
  <2> QED BY <1>3, <2>2, <2>3 DEF BeginPull, served, portal, SymbolTypeOK, AttemptsLeft
<1>4. ASSUME NEW k \in 1 .. MaxPage, PageOk(k)
      PROVE  SymbolTypeOK' /\ AttemptsLeft'
  <2> DEFINE pairs == Append(pull.pairs, listing[k])
  <2>1. pairs \in Seq(Entries)
    <3>1. listing \in Seq(Entries) /\ k \in 1 .. Len(listing)
      BY <1>4, SymbolAssumption DEF PageOk, SymbolTypeOK
    <3>2. listing[k] \in Entries
      BY <3>1, ElementOfSeq
    <3>3. pull.pairs \in Seq(Entries)
      BY <1>0 DEF PullType
    <3> QED BY <3>2, <3>3, AppendProperties
  <2>2. NextPage(k) \in 0 .. MaxPage
    BY <1>0 DEF NextPage
  <2>3. \/ pull' = [pull EXCEPT !.pairs = pairs, !.page = NextPage(k)]
        \/ pull' = [pull EXCEPT !.pairs = pairs, !.at = "listed"]
    BY <1>4 DEF PageOk, TurnPage, LastPage
  <2> HIDE DEF pairs
  <2>4. pull' \in PullType /\ pull'.at \in {"paging", "listed"}
    BY <1>0, <1>4, <2>1, <2>2, <2>3 DEF PullType, PageOk
  <2> QED BY <1>4, <2>4 DEF PageOk, served, portal, history, SymbolTypeOK, AttemptsLeft
<1>5. CASE EmptyPage
  <2>1. pull' = [pull EXCEPT !.at = "listed"]
    BY <1>5 DEF EmptyPage
  <2>2. pull' \in PullType /\ pull'.at = "listed"
    BY <1>0, <2>1, PullTypes DEF PullType
  <2> QED BY <1>5, <2>2 DEF EmptyPage, served, portal, history, SymbolTypeOK, AttemptsLeft
<1>6. CASE PageFails \/ PageOverflows \/ ParseFails
  <2>1. EndPull("resting") \/ EndPull("dead")
    BY <1>6 DEF PageFails, PageOverflows, ParseFails
  <2>2. /\ pull' \in PullType /\ AttemptsLeft'
        /\ seen' \subseteq Entries /\ moved' \in BOOLEAN
    BY <1>0, <1>1, <2>1
  <2> QED BY <1>6, <2>2 DEF PageFails, PageOverflows, ParseFails, served, portal, SymbolTypeOK
<1>7. CASE Publish
  <2>1. /\ pull' \in PullType /\ AttemptsLeft'
        /\ seen' \subseteq Entries /\ moved' \in BOOLEAN
    BY <1>0, <1>1, <1>7 DEF Publish
  <2>2. pull.pairs \in Seq(Entries)
    BY <1>0 DEF PullType
  <2>3. /\ DOMAIN cbbo_sizes' \subseteq Pairs
        /\ \A p \in DOMAIN cbbo_sizes' : cbbo_sizes'[p] \in Entries
        /\ pairs_response' \in Seq(Entries)
    BY <1>7, <2>2, ParsedSizesOf DEF Publish
  <2> QED BY <1>7, <2>1, <2>3 DEF Publish, portal, SymbolTypeOK
<1>8. ASSUME Asked, pull.at = "endpoints"
      PROVE  pull' \in PullType /\ AttemptsLeft'
  <2>1. Len(EndpointOrder) \in Nat \ {0}
    BY SymbolAssumption, EmptySeq
  <2>2. CASE pull.endpoint < Len(EndpointOrder)
    <3> DEFINE n == pull.endpoint + 1
    <3>1. n \in 1 .. Len(EndpointOrder)
      BY <1>0, <2>1, <2>2 DEF PullType
    <3>2. pull' = [pull EXCEPT !.endpoint = n]
      BY <1>0, <1>8, <2>2 DEF Asked, PullType
    <3> HIDE DEF n
    <3> QED BY <1>0, <1>8, <3>1, <3>2 DEF PullType, AttemptsLeft
  <2>3. CASE ~(pull.endpoint < Len(EndpointOrder))
    <3>1. pull' = [pull EXCEPT !.endpoint = 1, !.at = "resting"]
      BY <1>8, <2>3 DEF Asked
    <3>2. 1 \in 1 .. Len(EndpointOrder)
      BY <2>1
    <3> QED BY <1>0, <3>1, <3>2 DEF PullType, AttemptsLeft
  <2> QED BY <2>2, <2>3
<1>9. ASSUME NEW e \in Endpoints, EndpointOk(e)
      PROVE  SymbolTypeOK' /\ AttemptsLeft'
  <2>1. pull' \in PullType /\ AttemptsLeft'
    BY <1>8, <1>9 DEF EndpointOk
  <2>2. cached_responses' \in [Endpoints -> Bodies \cup {NoResponse}]
    BY <1>9 DEF EndpointOk, SymbolTypeOK
  <2> QED BY <1>9, <2>1, <2>2 DEF EndpointOk, portal, history, SymbolTypeOK
<1>10. CASE EndpointFails
  <2>1. pull' \in PullType /\ AttemptsLeft'
    BY <1>8, <1>10 DEF EndpointFails
  <2> QED BY <1>10, <2>1 DEF EndpointFails, served, portal, history, SymbolTypeOK
<1>11. ASSUME NEW l \in Listings, Relist(l)
       PROVE  SymbolTypeOK' /\ AttemptsLeft'
  <2>1. Listed(l) \subseteq Entries
    BY SymbolAssumption, ParsedSizesOf
  <2> QED BY <1>11, <2>1 DEF Relist, served, history, SymbolTypeOK, AttemptsLeft
<1>12. ASSUME NEW e \in Endpoints, NEW b \in Bodies, Edit(e, b)
       PROVE  SymbolTypeOK' /\ AttemptsLeft'
  BY <1>12 DEF Edit, served, history, SymbolTypeOK, AttemptsLeft
<1>13. CASE UNCHANGED vars
  BY <1>13 DEF vars, served, portal, history, SymbolTypeOK, AttemptsLeft
<1> QED
  BY <1>2, <1>3, <1>4, <1>5, <1>6, <1>7, <1>9, <1>10, <1>11, <1>12, <1>13
  DEF SymbolNext, PullStep

-----------------------------------------------------------------------------
(* What the task has collected, and what it has to do with the listing.     *)

Pulling == pull.at \in {"paging", "listed"}

(* Between pulls nothing is left of the last one.                           *)
CleanStart == ~Pulling => pull.pairs = << >> /\ pull.page = 1

(* What was collected was listed since the pull began.                      *)
AllSeen == Pulling => Listed(pull.pairs) \subseteq seen /\ Listed(listing) \subseteq seen

(* While the portal leaves its listing alone, the pages before the next one *)
(* were collected, in order.  Page 0 comes after a page_number that wrapped,*)
(* and never with an answer.                                                *)
PagesBefore ==
  pull.at = "paging" /\ ~moved /\ pull.page # 0
    => /\ Len(pull.pairs) = pull.page - 1
       /\ pull.page - 1 <= Len(listing)
       /\ \A i \in 1 .. pull.page - 1 : pull.pairs[i] = listing[i]

AllPages == pull.at = "listed" /\ ~moved => pull.pairs = listing

PullInv == CleanStart /\ AllSeen /\ PagesBefore /\ AllPages

(* One more pair is listed once it is appended.                             *)
LEMMA ListedAppend ==
  ASSUME NEW l \in Seq(Entries), NEW e \in Entries
  PROVE  Listed(Append(l, e)) = Listed(l) \cup {e}
<1>1. /\ Append(l, e) \in Seq(Entries)
      /\ Len(Append(l, e)) = Len(l) + 1
      /\ \A i \in 1 .. Len(l) : Append(l, e)[i] = l[i]
      /\ Append(l, e)[Len(l) + 1] = e
  BY AppendProperties
<1>2. /\ DOMAIN Append(l, e) = 1 .. Len(l) + 1
      /\ DOMAIN l = 1 .. Len(l) /\ Len(l) \in Nat
  BY <1>1, LenProperties
<1>3. DOMAIN Append(l, e) = DOMAIN l \cup {Len(l) + 1}
  BY <1>2
<1> QED BY <1>1, <1>2, <1>3 DEF Listed

(* A step that ends a pull leaves nothing to keep.                          *)
LEMMA EndPullKeeps ==
  ASSUME pull \in PullType, NEW place \in Places \ {"paging", "listed"}, EndPull(place)
  PROVE  PullInv'
<1>1. pull'.at = place /\ pull'.pairs = << >> /\ pull'.page = 1
  BY DEF EndPull, PullType
<1> QED BY <1>1 DEF PullInv, CleanStart, AllSeen, PagesBefore, AllPages, Pulling

(* Every step keeps them.                                                   *)
LEMMA PullInvStep == TypeInv /\ PullInv /\ [SymbolNext]_vars => PullInv'
<1> SUFFICES ASSUME SymbolTypeOK, PullInv, [SymbolNext]_vars PROVE PullInv'
  BY DEF TypeInv
<1>0. /\ pull \in PullType /\ listing \in Seq(Entries)
      /\ pull.pairs \in Seq(Entries) /\ pull.page \in 0 .. MaxPage
      /\ MaxPage \in Nat
  BY SymbolAssumption DEF SymbolTypeOK, PullType
<1>1. ASSUME UNCHANGED << listing, history >>, ~Pulling, ~Pulling',
             pull'.pairs = pull.pairs, pull'.page = pull.page
      PROVE  PullInv'
  BY <1>1 DEF PullInv, CleanStart, AllSeen, PagesBefore, AllPages, Pulling
<1>2. CASE StartUpPull
  <2>1. /\ pull'.at \in {"resting", "starting"}
        /\ pull'.pairs = pull.pairs /\ pull'.page = pull.page
    BY <1>0, <1>2 DEF StartUpPull, PullType
  <2> QED BY <1>1, <1>2, <2>1 DEF StartUpPull, portal, Pulling
<1>3. CASE BeginPull
  <2>1. pull'.at = "paging" /\ pull'.pairs = << >> /\ pull'.page = 1
    BY <1>0, <1>3 DEF BeginPull, PullType, PullInv, CleanStart, Pulling
  <2>2. listing' = listing /\ seen' = Listed(listing)
    BY <1>3 DEF BeginPull, portal
  <2>3. Listed(<< >>) = {} /\ Len(<< >>) = 0 /\ Len(listing) \in Nat
    BY <1>0, EmptySeq, LenProperties DEF Listed
  <2> QED BY <2>1, <2>2, <2>3
          DEF PullInv, CleanStart, AllSeen, PagesBefore, AllPages, Pulling
<1>4. ASSUME NEW k \in 1 .. MaxPage, PageOk(k)
      PROVE  PullInv'
  <2> DEFINE pairs == Append(pull.pairs, listing[k])
  <2>1. /\ pull.at = "paging" /\ pull.page = k /\ k \in 1 .. Len(listing)
        /\ listing' = listing /\ seen' = seen /\ moved' = moved
    BY <1>4 DEF PageOk, portal, history
  <2>2. listing[k] \in Entries /\ listing[k] \in Listed(listing)
    <3>1. listing[k] \in Entries
      BY <1>0, <2>1, ElementOfSeq
    <3>2. DOMAIN listing = 1 .. Len(listing)
      BY <1>0, LenProperties
    <3> QED BY <2>1, <3>1, <3>2 DEF Listed
  <2>3. /\ Len(pairs) = Len(pull.pairs) + 1 /\ pairs \in Seq(Entries)
        /\ \A i \in 1 .. Len(pull.pairs) : pairs[i] = pull.pairs[i]
        /\ pairs[Len(pull.pairs) + 1] = listing[k]
    BY <1>0, <2>2, AppendProperties
  <2>4. Listed(pairs) \subseteq seen /\ Listed(listing) \subseteq seen
    BY <1>0, <2>1, <2>2, ListedAppend DEF PullInv, AllSeen, Pulling
  <2>5. ~moved => /\ Len(pairs) = k /\ \A i \in 1 .. k : pairs[i] = listing[i]
    <3> SUFFICES ASSUME ~moved PROVE Len(pairs) = k /\ \A i \in 1 .. k : pairs[i] = listing[i]
      OBVIOUS
    <3>1. Len(pull.pairs) = k - 1 /\ \A i \in 1 .. k - 1 : pull.pairs[i] = listing[i]
      BY <2>1 DEF PullInv, PagesBefore
    <3>2. k \in Nat /\ Len(pull.pairs) + 1 = k
      BY <3>1
    <3> HIDE DEF pairs
    <3> QED BY <2>3, <3>1, <3>2
  <2> HIDE DEF pairs
  <2>6. CASE k < Len(listing)
    <3>1. pull' = [pull EXCEPT !.pairs = pairs, !.page = NextPage(k)]
      BY <1>4, <2>6 DEF PageOk, TurnPage, pairs
    <3>2. pull'.at = "paging" /\ pull'.pairs = pairs /\ pull'.page = NextPage(k)
      BY <1>0, <2>1, <3>1 DEF PullType
    <3>3. NextPage(k) = 0 \/ NextPage(k) = k + 1
      BY <1>0 DEF NextPage
    <3>4. PagesBefore'
      BY <1>0, <2>1, <2>5, <2>6, <3>2, <3>3 DEF PagesBefore
    <3> QED BY <2>1, <2>4, <3>2, <3>4 DEF PullInv, CleanStart, AllSeen, AllPages, Pulling
  <2>7. CASE ~(k < Len(listing))
    <3>1. pull' = [pull EXCEPT !.pairs = pairs, !.at = "listed"]
      BY <1>4, <2>7 DEF PageOk, LastPage, pairs
    <3>2. pull'.at = "listed" /\ pull'.pairs = pairs
      BY <1>0, <3>1 DEF PullType
    <3>3. Len(listing) = k
      BY <1>0, <2>1, <2>7, LenProperties
    <3>4. ~moved => pairs = listing
      BY <1>0, <2>3, <2>5, <3>3, SeqEqual
    <3> QED BY <2>1, <2>4, <3>2, <3>4 DEF PullInv, CleanStart, AllSeen, PagesBefore, AllPages, Pulling
  <2> QED BY <2>6, <2>7
<1>5. CASE EmptyPage
  <2>1. pull'.at = "listed" /\ pull'.pairs = pull.pairs /\ pull'.page = 1
    BY <1>0, <1>5 DEF EmptyPage, PullType
  <2>2. pull.at = "paging" /\ pull.page = 1 /\ listing = << >>
        /\ listing' = listing /\ seen' = seen /\ moved' = moved
    BY <1>5 DEF EmptyPage, portal, history
  <2>3. ~moved => pull.pairs = << >>
    <3>1. ~moved => Len(pull.pairs) = 0
      BY <2>2 DEF PullInv, PagesBefore
    <3> QED BY <1>0, <3>1, EmptySeq
  <2> QED BY <2>1, <2>2, <2>3 DEF PullInv, CleanStart, AllSeen, PagesBefore, AllPages, Pulling
<1>6. CASE PageFails \/ PageOverflows \/ ParseFails \/ Publish
  <2>1. EndPull("resting") \/ EndPull("dead") \/ EndPull("endpoints")
    BY <1>6 DEF PageFails, PageOverflows, ParseFails, Publish
  <2>2. {"resting", "dead", "endpoints"} \subseteq Places \ {"paging", "listed"}
    BY DEF Places
  <2> QED BY <1>0, <2>1, <2>2, EndPullKeeps
<1>7. CASE EndpointFails \/ \E e \in Endpoints : EndpointOk(e)
  <2>1. pull.at = "endpoints" /\ Asked /\ UNCHANGED << listing, history >>
    BY <1>7 DEF EndpointFails, EndpointOk, portal
  <2>2. /\ pull'.at \in {"endpoints", "resting"}
        /\ pull'.pairs = pull.pairs /\ pull'.page = pull.page
    BY <1>0, <2>1 DEF Asked, PullType
  <2> QED BY <1>1, <2>1, <2>2 DEF Pulling
<1>8. ASSUME NEW l \in Listings, Relist(l)
      PROVE  PullInv'
  <2>1. pull' = pull /\ listing' = l
    BY <1>8 DEF Relist
  <2>2. CASE Pulling
    <3>1. seen' = seen \cup Listed(l) /\ moved' = TRUE
      BY <1>8, <2>2 DEF Relist, Pulling
    <3> QED BY <2>1, <2>2, <3>1
            DEF PullInv, CleanStart, AllSeen, PagesBefore, AllPages, Pulling
  <2>3. CASE ~Pulling
    BY <2>1, <2>3 DEF PullInv, CleanStart, AllSeen, PagesBefore, AllPages, Pulling
  <2> QED BY <2>2, <2>3
<1>9. ASSUME UNCHANGED << pull, listing, history >>
      PROVE  PullInv'
  BY <1>9 DEF history, PullInv, CleanStart, AllSeen, PagesBefore, AllPages, Pulling
<1> QED
  BY <1>2, <1>3, <1>4, <1>5, <1>6, <1>7, <1>8, <1>9
  DEF SymbolNext, PullStep, Edit, vars, history

(* The task starts with nothing collected.                                  *)
LEMMA PullInvInit == SymbolInit => TypeInv /\ PullInv
<1> SUFFICES ASSUME SymbolInit PROVE TypeInv /\ PullInv
  OBVIOUS
<1>1. pull \in PullType /\ AttemptsLeft
  BY SymbolAssumption, EmptySeq DEF SymbolInit, PullType, Places, AttemptsLeft
<1>2. TypeInv
  BY <1>1 DEF SymbolInit, SymbolTypeOK, TypeInv, NoSymbols
<1>3. PullInv
  BY DEF SymbolInit, PullInv, CleanStart, AllSeen, PagesBefore, AllPages, Pulling
<1> QED BY <1>2, <1>3

(* Type correctness: page_number stays in its byte, the task never asks for *)
(* an endpoint that is not there, and only pairs and entries are served.    *)
THEOREM SymbolsTyped == SymbolSpec => []SymbolTypeOK
<1>1. TypeInv => SymbolTypeOK
  BY DEF TypeInv
<1> QED BY <1>1, PullInvInit, TypeStep, PTL DEF SymbolSpec

(* Only Publish changes what is served of the pairs.                        *)
LEMMA OnlyPublish ==
  ASSUME [SymbolNext]_vars, ~Publish
  PROVE  UNCHANGED << cbbo_sizes, pairs_response >>
BY DEF SymbolNext, PullStep, StartUpPull, BeginPull, PageOk, EmptyPage, PageFails,
       PageOverflows, ParseFails, EndpointOk, EndpointFails, Relist, Edit, served, vars

(* Nothing outdated is published: what a pull serves was listed by the      *)
(* portal while that pull ran, whatever pulls failed before it.             *)
THEOREM FreshlyListed == SymbolSpec => FreshListing
<1> DEFINE Fresh == /\ Listed(pairs_response') \subseteq seen
                    /\ \A p \in DOMAIN cbbo_sizes' : cbbo_sizes'[p] \in seen
<1>1. ASSUME TypeInv, PullInv, Publish PROVE Fresh
  <2>1. pull.pairs \in Seq(Entries)
    BY <1>1 DEF TypeInv, SymbolTypeOK, PullType
  <2>2. Listed(pull.pairs) \subseteq seen
    BY <1>1 DEF PullInv, AllSeen, Pulling, Publish
  <2> QED BY <1>1, <2>1, <2>2, ParsedSizesOf DEF Publish
<1>2. TypeInv /\ PullInv /\ [SymbolNext]_vars
        => [UNCHANGED << cbbo_sizes, pairs_response >> \/ Fresh]_vars
  BY <1>1, OnlyPublish
<1> QED BY <1>2, PullInvInit, TypeStep, PullInvStep, PTL DEF SymbolSpec, FreshListing

(* Nothing is missed: a pull during which the portal leaves its listing     *)
(* alone serves all of it, page after page, once, and every pair that is on *)
(* an exchange with its own entry.                                          *)
THEOREM NothingIsMissed == SymbolSpec => NothingMissed
<1> DEFINE Whole == /\ pairs_response' = listing
                    /\ DOMAIN cbbo_sizes' = {PairOf[e] : e \in Listed(listing) \cap Traded}
                    /\ \A e \in Listed(listing) \cap Traded : cbbo_sizes'[PairOf[e]] = e
<1>1. ASSUME TypeInv, PullInv, Publish, ~moved PROVE Whole
  <2>1. listing \in Seq(Entries) /\ listing \in Listings
    BY <1>1, SymbolAssumption DEF TypeInv, SymbolTypeOK
  <2>2. pull.pairs = listing
    BY <1>1 DEF PullInv, AllPages, Publish
  <2>3. pairs_response' = listing /\ cbbo_sizes' = ParsedSizes(listing)
    BY <1>1, <2>2 DEF Publish
  <2>4. ASSUME NEW e \in Listed(listing) \cap Traded
        PROVE  cbbo_sizes'[PairOf[e]] = e
    <3>1. PairOf[e] \in TradedPairs(listing)
      BY DEF TradedPairs
    <3>2. /\ ParsedSizes(listing)[PairOf[e]] \in Listed(listing)
          /\ PairOf[ParsedSizes(listing)[PairOf[e]]] = PairOf[e]
      BY <2>1, <3>1, ParsedSizesOf
    <3>3. \A d \in Listed(listing) : PairOf[d] = PairOf[e] => d = e
      BY <2>1, SymbolAssumption DEF Listed
    <3> QED BY <2>3, <3>2, <3>3
  <2>5. DOMAIN cbbo_sizes' = TradedPairs(listing)
    BY <2>1, <2>3, ParsedSizesOf
  <2> QED BY <2>3, <2>4, <2>5 DEF TradedPairs
<1>2. TypeInv /\ PullInv /\ [SymbolNext]_vars
        => [UNCHANGED << cbbo_sizes, pairs_response >> \/ moved \/ Whole]_vars
  BY <1>1, OnlyPublish
<1> QED BY <1>2, PullInvInit, TypeStep, PullInvStep, PTL DEF SymbolSpec, NothingMissed
=============================================================================
