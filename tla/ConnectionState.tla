--------------------------- MODULE ConnectionState ---------------------------
(***************************************************************************)
(* The tables that every connection and every market-data task of merx     *)
(* shares (ConnectionStateStruct in state.rs), and the effect on them of   *)
(* each critical section of the code.  The modules that extend this one    *)
(* decide who runs which critical section, and when.                       *)
(*                                                                         *)
(* Each table is a RwLock<HashMap> of the code.  A section takes the locks *)
(* it needs in the one order state, count, ip count, then limit or bad,    *)
(* and holds none of them over an await, so a section is one atomic step.  *)
(***************************************************************************)
EXTENDS Integers, FiniteSets, Functions

CONSTANTS
  Clients,       \* socket addresses of websocket connections
  IPs,           \* the IP address part of a socket address
  Users,         \* user names (the "PUBLIC" of public routes included)
  Routes,        \* websocket endpoints of merx
  Subs,          \* upstream subscriptions: the urls of cbag
  IpOf, UserOf, RouteOf,    \* what each connection was opened with
  SubsOf,        \* the subscriptions a message on a route can ask for
  LimitRoutes,   \* the routes listed in WS_LIMIT_ROUTES
  LimitType,     \* ... limited by "IP" or by "Token" (that is, by user)
  LimitNumber    \* ... to so many subscriptions

ASSUME FiniteAssumption == IsFiniteSet(Clients) /\ IsFiniteSet(Subs)

ASSUME ConnectionAssumption ==
  /\ IpOf \in [Clients -> IPs]
  /\ UserOf \in [Clients -> Users]
  /\ RouteOf \in [Clients -> Routes]
  /\ SubsOf \in [Routes -> SUBSET Subs]

ASSUME LimitAssumption ==
  /\ LimitRoutes \subseteq Routes
  /\ LimitType \in [LimitRoutes -> {"IP", "Token"}]
  /\ LimitNumber \in [LimitRoutes -> Nat \ {0}]

VARIABLES
  subscription_state,     \* subscription -> connected clients (partial)
  subscription_count,     \* client -> its subscriptions; 0 is "no entry"
  subscription_ip_count,  \* IP -> subscriptions; 0 is "no entry"
  websocket_limit_state,  \* limited route -> key -> count; 0 is "no entry"
  subscription_bad        \* subscription -> how its last failure has aged

stateVars == << subscription_state, subscription_count, subscription_ip_count,
                websocket_limit_state, subscription_bad >>

-----------------------------------------------------------------------------
(* The record of a failed subscription, TimeLog, as far as the code tells   *)
(* times apart: no record; failed less than 5 minutes ago; failed longer    *)
(* ago; locked; locked 30 minutes ago or longer.                            *)
BadAges == {"clean", "noted", "stale", "locked", "expired"}

LimitKeys == IPs \cup Users

StateTypeOK ==
  /\ DOMAIN subscription_state \subseteq Subs
  /\ \A s \in DOMAIN subscription_state : subscription_state[s] \subseteq Clients
  /\ subscription_count \in [Clients -> Nat]
  /\ subscription_ip_count \in [IPs -> Nat]
  /\ websocket_limit_state \in [LimitRoutes -> [LimitKeys -> Nat]]
  /\ subscription_bad \in [Subs -> BadAges]

StateInit ==
  /\ subscription_state = [s \in {} |-> {}]
  /\ subscription_count = [c \in Clients |-> 0]
  /\ subscription_ip_count = [i \in IPs |-> 0]
  /\ websocket_limit_state = [r \in LimitRoutes |-> [k \in LimitKeys |-> 0]]
  /\ subscription_bad = [s \in Subs |-> "clean"]

-----------------------------------------------------------------------------
(* Reading the tables.                                                      *)

Members(s) ==
  IF s \in DOMAIN subscription_state THEN subscription_state[s] ELSE {}

Held(c) == {s \in Subs : c \in Members(s)}

Limited(c) == RouteOf[c] \in LimitRoutes

LimitKey(c) == IF LimitType[RouteOf[c]] = "IP" THEN IpOf[c] ELSE UserOf[c]

LimitCount(c) == websocket_limit_state[RouteOf[c]][LimitKey(c)]

AtLimit(c) == Limited(c) /\ LimitCount(c) >= LimitNumber[RouteOf[c]]

(* What is_client_still_active answers.                                     *)
IsClientStillActive(c) == subscription_count[c] > 0

-----------------------------------------------------------------------------
(* Writing the tables.                                                      *)

(* Subtraction on the unsigned counters of IPs and limits, which the code   *)
(* only takes down after a comparison, to 0 at the least.                   *)
Monus(a, b) == IF a > b THEN a - b ELSE 0

WithLimitCount(c, n) ==
  [websocket_limit_state EXCEPT ![RouteOf[c]] =
     [k \in LimitKeys |-> IF k = LimitKey(c) THEN n ELSE @[k]]]

(* Mutant: the first client of an entry is forgotten when a second joins.   *)
JoinEntry_Replaces(c, s) ==
  subscription_state' =
    [x \in DOMAIN subscription_state \cup {s} |->
       IF x = s THEN {c} ELSE Members(x)]

JoinEntry(c, s) ==
  subscription_state' =
    [x \in DOMAIN subscription_state \cup {s} |->
       IF x = s THEN Members(s) \cup {c} ELSE Members(x)]

TakenLimit(c) ==
  IF Limited(c) THEN WithLimitCount(c, LimitCount(c) + 1)
  ELSE websocket_limit_state

(* add_client_to_subscription, once the client is accepted: it joins the    *)
(* subscription's clients, and every counter goes up by one.                *)
Insert(c, s) ==
  /\ JoinEntry(c, s)
  /\ subscription_count' = [subscription_count EXCEPT ![c] = @ + 1]
  /\ subscription_ip_count' = [subscription_ip_count EXCEPT ![IpOf[c]] = @ + 1]
  /\ websocket_limit_state' = TakenLimit(c)

(* Mutant: whoever leaves gives a limit count back, even without having     *)
(* held a subscription.                                                     *)
ReleasedLimit_Always(c) ==
  IF Limited(c) THEN WithLimitCount(c, Monus(LimitCount(c), 1))
  ELSE websocket_limit_state

(* A client that held one subscription gives its limit count back; one that *)
(* held none, or several, does not.                                         *)
ReleasedLimit(c) ==
  IF Limited(c) /\ \E s \in Subs : Held(c) = {s}
  THEN WithLimitCount(c, Monus(LimitCount(c), 1))
  ELSE websocket_limit_state

(* Mutant: an entry goes with its last client, behind its task's back.      *)
LeaveEntries_DropsEmpty(c) ==
  subscription_state' =
    [s \in {x \in DOMAIN subscription_state : Members(x) # {c}} |->
       Members(s) \ {c}]

(* An entry left without clients stays: the subscription's task removes it. *)
LeaveEntries(c) ==
  subscription_state' = [s \in DOMAIN subscription_state |-> Members(s) \ {c}]

(* Mutant: a connection is one subscription to its IP.                      *)
RemoveClientFromState_One(c) ==
  /\ LeaveEntries(c)
  /\ subscription_count' = [subscription_count EXCEPT ![c] = 0]
  /\ subscription_ip_count' = [subscription_ip_count EXCEPT ![IpOf[c]] = Monus(@, 1)]
  /\ websocket_limit_state' = ReleasedLimit(c)

(* remove_client_from_state: the connection of c has ended.                 *)
RemoveClientFromState(c) ==
  /\ LeaveEntries(c)
  /\ subscription_count' = [subscription_count EXCEPT ![c] = 0]
  /\ subscription_ip_count' =
       [subscription_ip_count EXCEPT ![IpOf[c]] = Monus(@, subscription_count[c])]
  /\ websocket_limit_state' = ReleasedLimit(c)

(* The entry of s is removed from the map.                                  *)
RemoveEntry(s) ==
  subscription_state' = Restrict(subscription_state,
                                 DOMAIN subscription_state \ {s})

(* Mutant: the counts of the dropped clients are not taken down.            *)
Uncounted_Kept(s) == subscription_count

(* The count of each of its clients that has one goes down by one.  The code*)
(* does not compare first: a count that there is is at least 1, for it is   *)
(* removed when it gets to 0.                                               *)
Uncounted(s) ==
  [c \in Clients |-> IF c \in Members(s) /\ subscription_count[c] > 0
                     THEN subscription_count[c] - 1 ELSE subscription_count[c]]

(* What a failed subscription takes off the count of an IP: for each of its *)
(* clients, the number of subscriptions that client has left.               *)
IpCharge(s, i) ==
  SumFunctionOnSet(Uncounted(s), {c \in Members(s) : IpOf[c] = i})

(* The clean-up of subscribe_to_market_data when it gives up: every client  *)
(* is dropped and the entry goes.  The limit counts are not touched.        *)
DropSubscription(s) ==
  /\ subscription_count' = Uncounted(s)
  /\ subscription_ip_count' =
       [i \in IPs |-> Monus(subscription_ip_count[i], IpCharge(s, i))]
  /\ RemoveEntry(s)
  /\ UNCHANGED websocket_limit_state

(* The same clean-up notes the failure: the first starts a record, one      *)
(* within 5 minutes of the first changes nothing, a later one locks.        *)
NoteFailure(s) ==
  subscription_bad' =
    [subscription_bad EXCEPT ![s] =
       IF @ \in {"clean", "noted"} THEN "noted" ELSE "locked"]

(* The 5 minutes since the first failure, or the 30 since the lock, pass.   *)
AgeFailure(s) ==
  /\ subscription_bad[s] \in {"noted", "locked"}
  /\ subscription_bad' =
       [subscription_bad EXCEPT ![s] = IF @ = "noted" THEN "stale" ELSE "expired"]
=============================================================================
