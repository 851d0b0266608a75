------------------------------ MODULE SymbolCache ------------------------------
(***************************************************************************)
(* What merx keeps of the portal's currency pairs and of six more of its   *)
(* endpoints (symbols.rs), and the background task that pulls them         *)
(* (tasks.rs, auth.rs): the pairs page after page while the portal may     *)
(* change its listing, then the other endpoints one by one, for ever.      *)
(*                                                                         *)
(* The portal serves one pair per page; what a pair comes with is an       *)
(* entry, of which it matters whether the pair is on an exchange and       *)
(* whether its sizes parse.                                                *)
(***************************************************************************)
EXTENDS Integers, Sequences, FiniteSets

CONSTANTS
  Pairs,
  Entries,           \* a pair with its sizes and exchanges
  PairOf,            \* entry -> pair
  Traded,            \* entries whose pair is on an exchange
  Garbled,           \* entries with a size that does not parse
  Listings,          \* what the portal may list
  Endpoints,         \* CACHED_ENDPOINTS
  EndpointOrder,     \* ... in the order in which the set is walked
  Bodies,            \* what an endpoint may answer
  NoResponse,        \* in the place of a response not cached yet
  StartUpAttempts,   \* 5: pulls from merx itself before the portal is asked
  MaxPage            \* 255: the highest page_number

ASSUME SymbolAssumption ==
  /\ PairOf \in [Entries -> Pairs]
  /\ Traded \subseteq Entries
  /\ Garbled \subseteq Entries
  /\ Listings \subseteq Seq(Entries)
  /\ \A l \in Listings : \A i, j \in DOMAIN l : PairOf[l[i]] = PairOf[l[j]] => i = j
  /\ EndpointOrder \in Seq(Endpoints) /\ EndpointOrder # << >>
  /\ StartUpAttempts \in Nat \ {0}
  /\ MaxPage \in Nat \ {0}

VARIABLES
  cbbo_sizes,        \* pair -> the entry whose sizes are valid for it
  pairs_response,    \* the cached response of /api/currency_pairs_v2
  cached_responses,  \* endpoint -> its cached response
  pull,              \* the pull task
  listing,           \* what the portal lists (external)
  body,              \* endpoint -> what the portal answers (external)
  seen,              \* entries listed since the pull under way began
  moved              \* has the listing changed since then

vars == << cbbo_sizes, pairs_response, cached_responses, pull, listing, body, seen, moved >>

served == << cbbo_sizes, pairs_response, cached_responses >>
portal == << listing, body >>
history == << seen, moved >>

-----------------------------------------------------------------------------
Listed(l) == {l[i] : i \in DOMAIN l}

Places == {"starting", "resting", "paging", "listed", "endpoints", "dead"}

PullType ==
  [at : Places,
   attempts : 0 .. StartUpAttempts,
   page : 0 .. MaxPage,            \* page_number
   pairs : Seq(Entries),           \* currency_pairs_vec
   endpoint : 1 .. Len(EndpointOrder)]   \* the endpoint to ask next

SymbolTypeOK ==
  /\ DOMAIN cbbo_sizes \subseteq Pairs
  /\ \A p \in DOMAIN cbbo_sizes : cbbo_sizes[p] \in Entries
  /\ pairs_response \in Seq(Entries) \cup {NoResponse}
  /\ cached_responses \in [Endpoints -> Bodies \cup {NoResponse}]
  /\ pull \in PullType
  /\ listing \in Listings
  /\ body \in [Endpoints -> Bodies]
  /\ seen \subseteq Entries
  /\ moved \in BOOLEAN

NoSymbols == [p \in {} |-> NoResponse]

SymbolInit ==
  /\ cbbo_sizes = NoSymbols
  /\ pairs_response = NoResponse
  /\ cached_responses = [e \in Endpoints |-> NoResponse]
  /\ pull = [at |-> "starting", attempts |-> 0, page |-> 1, pairs |-> << >>, endpoint |-> 1]
  /\ listing \in Listings
  /\ body \in [Endpoints -> Bodies]
  /\ seen = {}
  /\ moved = FALSE

-----------------------------------------------------------------------------
(* The sizes of the pairs that are on an exchange, by pair; of a pair found *)
(* twice, the later ones.                                                   *)
TradedPairs(l) == {PairOf[e] : e \in Listed(l) \cap Traded}

LastOf(l, p) ==
  CHOOSE i \in DOMAIN l :
    /\ l[i] \in Traded /\ PairOf[l[i]] = p
    /\ \A j \in DOMAIN l : l[j] \in Traded /\ PairOf[l[j]] = p => j <= i

ParsedSizes(l) == [p \in TradedPairs(l) |-> l[LastOf(l, p)]]

Parses(l) == Listed(l) \cap Traded \cap Garbled = {}

-----------------------------------------------------------------------------
(* The pull task.                                                           *)

(* A pull is over, and its local variables with it.                         *)
EndPull(next) ==
  /\ pull' = [pull EXCEPT !.at = next, !.page = 1, !.pairs = << >>]
  /\ seen' = {}
  /\ moved' = FALSE

(* At first it asks merx.coinroutes.com, without a scheme: no such URL      *)
(* parses, and after five attempts it goes on to the portal.                *)
StartUpPull ==
  /\ pull.at = "starting"
  /\ pull' = [pull EXCEPT !.attempts = @ + 1,
                          !.at = IF pull.attempts + 1 = StartUpAttempts
                                 THEN "resting" ELSE "starting"]
  /\ UNCHANGED << served, portal, history >>

BeginPull ==
  /\ pull.at = "resting"
  /\ pull' = [pull EXCEPT !.at = "paging"]
  /\ seen' = Listed(listing)
  /\ moved' = FALSE
  /\ UNCHANGED << served, portal >>

(* Mutant: page_number does not wrap.                                       *)
NextPage_Wide(k) == k + 1

(* page_number += 1 on a u8, in a release build.                            *)
NextPage(k) == (k + 1) % (MaxPage + 1)

TurnPage(k) == pull' = [pull EXCEPT !.pairs = Append(@, listing[k]), !.page = NextPage(k)]

LastPage(k) == pull' = [pull EXCEPT !.pairs = Append(@, listing[k]), !.at = "listed"]

(* Mutant: the last page but one is taken for the last.                     *)
PageOk_LosesLast(k) ==
  /\ pull.at = "paging" /\ pull.page = k
  /\ k \in 1 .. Len(listing)
  /\ IF k + 1 < Len(listing) THEN TurnPage(k) ELSE LastPage(k)
  /\ UNCHANGED << served, portal, history >>

(* A page that the portal has, and that names a next one unless it is the   *)
(* last.                                                                    *)
PageOk(k) ==
  /\ pull.at = "paging" /\ pull.page = k
  /\ k \in 1 .. Len(listing)
  /\ IF k < Len(listing) THEN TurnPage(k) ELSE LastPage(k)
  /\ UNCHANGED << served, portal, history >>

(* In a debug build the page after MaxPage panics, and the task is gone.    *)
PageOverflows ==
  /\ pull.at = "paging" /\ pull.page = MaxPage
  /\ MaxPage < Len(listing)
  /\ EndPull("dead")
  /\ UNCHANGED << served, portal >>

(* The first page of an empty listing.                                      *)
EmptyPage ==
  /\ pull.at = "paging" /\ pull.page = 1
  /\ listing = << >>
  /\ pull' = [pull EXCEPT !.at = "listed"]
  /\ UNCHANGED << served, portal, history >>

(* Mutant: a page that fails ends the task.                                 *)
PageFails_Ends ==
  /\ pull.at = "paging"
  /\ EndPull("dead")
  /\ UNCHANGED << served, portal >>

(* Mutant: the next pull goes on with what a failed one has collected.      *)
PageFails_KeepsPairs ==
  /\ pull.at = "paging"
  /\ pull' = [pull EXCEPT !.at = "resting", !.page = 1]
  /\ seen' = {}
  /\ moved' = FALSE
  /\ UNCHANGED << served, portal >>

(* The portal has no such page, cannot be reached, or answers something     *)
(* else: the whole pull fails.                                              *)
PageFails ==
  /\ pull.at = "paging"
  /\ EndPull("resting")
  /\ UNCHANGED << served, portal >>

(* All sizes parse: the pairs and the response are replaced under one lock. *)
Publish ==
  /\ pull.at = "listed"
  /\ Parses(pull.pairs)
  /\ cbbo_sizes' = ParsedSizes(pull.pairs)
  /\ pairs_response' = pull.pairs
  /\ EndPull("endpoints")
  /\ UNCHANGED << cached_responses, portal >>

ParseFails ==
  /\ pull.at = "listed"
  /\ ~Parses(pull.pairs)
  /\ EndPull("resting")
  /\ UNCHANGED << served, portal >>

(* Mutant: one endpoint is asked in a round.                                *)
Asked_Once == pull' = [pull EXCEPT !.at = "resting"]

Asked ==
  IF pull.endpoint < Len(EndpointOrder)
  THEN pull' = [pull EXCEPT !.endpoint = @ + 1]
  ELSE pull' = [pull EXCEPT !.endpoint = 1, !.at = "resting"]

(* The other endpoints are asked one by one; a failure is passed over.      *)
EndpointOk(e) ==
  /\ pull.at = "endpoints" /\ EndpointOrder[pull.endpoint] = e
  /\ cached_responses' = [cached_responses EXCEPT ![e] = body[e]]
  /\ Asked
  /\ UNCHANGED << cbbo_sizes, pairs_response, portal, history >>

EndpointFails ==
  /\ pull.at = "endpoints"
  /\ Asked
  /\ UNCHANGED << served, portal, history >>

-----------------------------------------------------------------------------
(* The portal (external).                                                   *)
Relist(l) ==
  /\ l # listing
  /\ listing' = l
  /\ IF pull.at \in {"paging", "listed"}
     THEN seen' = seen \cup Listed(l) /\ moved' = TRUE
     ELSE UNCHANGED history
  /\ UNCHANGED << served, pull, body >>

Edit(e, b) ==
  /\ body' = [body EXCEPT ![e] = b]
  /\ UNCHANGED << served, pull, listing, history >>

PullStep ==
  \/ StartUpPull
  \/ BeginPull
  \/ \E k \in 1 .. MaxPage : PageOk(k)
  \/ EmptyPage \/ PageFails \/ PageOverflows
  \/ Publish \/ ParseFails
  \/ \E e \in Endpoints : EndpointOk(e)
  \/ EndpointFails

SymbolNext ==
  \/ PullStep
  \/ \E l \in Listings : Relist(l)
  \/ \E e \in Endpoints, b \in Bodies : Edit(e, b)

SymbolSpec == SymbolInit /\ [][SymbolNext]_vars

(* The task runs on: its questions are answered or fail, and none is        *)
(* answered with a failure for ever.                                        *)
FairSymbolSpec ==
  /\ SymbolSpec
  /\ WF_vars(PullStep)
  /\ \A k \in 1 .. MaxPage : SF_vars(PageOk(k))
  /\ SF_vars(EmptyPage)
  /\ \A e \in Endpoints : SF_vars(EndpointOk(e))

-----------------------------------------------------------------------------
(* Nothing outdated is published: what is served from a pull was listed     *)
(* while that pull ran, whatever failed before it.                          *)
FreshListing ==
  [][UNCHANGED << cbbo_sizes, pairs_response >>
       \/ /\ Listed(pairs_response') \subseteq seen
          /\ \A p \in DOMAIN cbbo_sizes' : cbbo_sizes'[p] \in seen]_vars

(* Nothing is missed: unless the portal changes its listing during a pull,  *)
(* the pull serves every page of it once, in order, and exactly the pairs   *)
(* that are on an exchange.                                                 *)
NothingMissed ==
  [][\/ UNCHANGED << cbbo_sizes, pairs_response >>
     \/ moved
     \/ /\ pairs_response' = listing
        /\ DOMAIN cbbo_sizes' = {PairOf[e] : e \in Listed(listing) \cap Traded}
        /\ \A e \in Listed(listing) \cap Traded : cbbo_sizes'[PairOf[e]] = e]_vars

(* The portal never lists more pages than can be counted, and from some     *)
(* time on leaves its listing alone, with sizes that parse.                 *)
Settles ==
  [](Len(listing) <= MaxPage) /\ <>[]Parses(listing) /\ <>[][UNCHANGED listing]_vars

(* "Merx has a background task that will pull currency pairs from portal":  *)
(* once the listing settles it is served, whatever failed before.           *)
PairsRefreshed ==
  Settles => <>[](cbbo_sizes = ParsedSizes(listing) /\ pairs_response = listing)

(* So is what every other endpoint answers, which is asked for only after   *)
(* the pairs were pulled.                                                   *)
EndpointsRefreshed ==
  \A e \in Endpoints :
    Settles /\ <>[][UNCHANGED body]_vars => <>[](cached_responses[e] = body[e])
=============================================================================
