------------------------------ MODULE MarketData ------------------------------
(***************************************************************************)
(* The subscriptions of merx at work: connections that subscribe and end   *)
(* (add_client_to_subscription, remove_client_from_state) and, for each    *)
(* subscription, the task that holds the websocket to cbag and forwards    *)
(* its messages (subscribe_to_market_data).                                *)
(*                                                                         *)
(* A connection runs one call at a time.  A call that subscribes passes    *)
(* two critical sections and then spawns a task, and everybody else may    *)
(* run in between; so may they between any two steps of a task.            *)
(***************************************************************************)
EXTENDS ConnectionState

CONSTANTS
  NoSub,       \* what a task or call without a subscription has in its place
  TaskIds,     \* tasks: an id is reused once its task has ended
  MaxErrors,   \* consecutive failures to connect before a task gives up
  MaxIpCount   \* bound of the model: no new call of an IP counted this high

ASSUME TaskAssumption ==
  /\ NoSub \notin Subs
  /\ MaxErrors \in Nat \ {0}
  /\ MaxIpCount \in Nat

VARIABLES
  call,        \* client -> where its call of add_client_to_subscription is
  task         \* task id -> the local variables of the task

vars == << stateVars, call, task >>

-----------------------------------------------------------------------------
(* "insert": past the check of locked subscriptions, before the section     *)
(* that inserts; "spawn": after it, with the task still to be spawned.      *)
CallType == [at : {"idle", "insert", "spawn"}, sub : Subs \cup {NoSub}]

Idle == [at |-> "idle", sub |-> NoSub]

(* "connect": at the top of the outer loop; "stream": reading; "close": it  *)
(* saw no listeners and is about to look again under the write lock.        *)
TaskType ==
  [at : {"free", "connect", "stream", "close"},
   sub : Subs \cup {NoSub},
   errors : 0 .. MaxErrors,      \* consecutive_errors
   rejected : BOOLEAN,           \* bad_request
   listeners : SUBSET Clients,   \* active_listeners, copied from the map
   due : BOOLEAN]                \* the copy is over 2 seconds old

Free == [at |-> "free", sub |-> NoSub, errors |-> 0, rejected |-> FALSE,
         listeners |-> {}, due |-> TRUE]

(* A task starts as if its listeners had been looked up a minute ago.       *)
Fresh(s) == [at |-> "connect", sub |-> s, errors |-> 0, rejected |-> FALSE,
             listeners |-> {}, due |-> TRUE]

Init ==
  /\ StateInit
  /\ call = [c \in Clients |-> Idle]
  /\ task = [t \in TaskIds |-> Free]

-----------------------------------------------------------------------------
(* Connections.                                                             *)

(* add_client_to_subscription, first section: a locked subscription is      *)
(* refused, which changes nothing; a lock that has run out is forgotten.    *)
CheckLocked(c, s) ==
  /\ call[c] = Idle
  /\ s \in SubsOf[RouteOf[c]]
  /\ subscription_ip_count[IpOf[c]] < MaxIpCount
  /\ subscription_bad[s] # "locked"
  /\ subscription_bad' =
       [subscription_bad EXCEPT ![s] = IF @ = "expired" THEN "clean" ELSE @]
  /\ call' = [call EXCEPT ![c] = [at |-> "insert", sub |-> s]]
  /\ UNCHANGED << subscription_state, subscription_count,
                  subscription_ip_count, websocket_limit_state, task >>

(* Second section, at the limit of the route or subscribed already.         *)
Refuse(c) ==
  /\ call[c].at = "insert"
  /\ AtLimit(c) \/ c \in Members(call[c].sub)
  /\ call' = [call EXCEPT ![c] = Idle]
  /\ UNCHANGED << stateVars, task >>

(* Mutant: whether there is an entry is taken from whether it has clients.  *)
Accept_SpawnsForEmpty(c) ==
  LET s == call[c].sub IN
  /\ call[c].at = "insert"
  /\ ~AtLimit(c)
  /\ c \notin Members(s)
  /\ Insert(c, s)
  /\ call' = [call EXCEPT ![c] = IF Members(s) # {}
                                 THEN Idle ELSE [at |-> "spawn", sub |-> s]]
  /\ UNCHANGED << subscription_bad, task >>

(* Second section, otherwise: only who creates the entry goes on to spawn.  *)
Accept(c) ==
  LET s == call[c].sub IN
  /\ call[c].at = "insert"
  /\ ~AtLimit(c)
  /\ c \notin Members(s)
  /\ Insert(c, s)
  /\ call' = [call EXCEPT ![c] = IF s \in DOMAIN subscription_state
                                 THEN Idle ELSE [at |-> "spawn", sub |-> s]]
  /\ UNCHANGED << subscription_bad, task >>

(* The call ends by spawning the task of the subscription.                  *)
Spawn(c, t) ==
  /\ call[c].at = "spawn"
  /\ task[t] = Free
  /\ task' = [task EXCEPT ![t] = Fresh(call[c].sub)]
  /\ call' = [call EXCEPT ![c] = Idle]
  /\ UNCHANGED stateVars

(* The connection of a client ends, between two calls.                      *)
RemoveClient(c) ==
  /\ call[c] = Idle
  /\ RemoveClientFromState(c)
  /\ UNCHANGED << subscription_bad, call, task >>

-----------------------------------------------------------------------------
(* Tasks.                                                                   *)

Live(t) == task[t].at # "free"

(* Mutant: one attempt more than MaxErrors.                                 *)
GivesUp_Late(t) == task[t].rejected \/ task[t].errors > MaxErrors

GivesUp(t) == task[t].rejected \/ task[t].errors >= MaxErrors

Connecting(t) == task[t].at = "connect" /\ ~GivesUp(t)

ConnectOk(t) ==
  /\ Connecting(t)
  /\ task' = [task EXCEPT ![t].at = "stream", ![t].errors = 0]
  /\ UNCHANGED << stateVars, call >>

(* The 3 seconds run out, or cbag cannot be reached, or it answers with an  *)
(* HTTP error other than 400.                                               *)
ConnectFails(t) ==
  /\ Connecting(t)
  /\ task' = [task EXCEPT ![t].errors = @ + 1]
  /\ UNCHANGED << stateVars, call >>

(* cbag answers 400.                                                        *)
ConnectRejected(t) ==
  /\ Connecting(t)
  /\ task' = [task EXCEPT ![t].rejected = TRUE]
  /\ UNCHANGED << stateVars, call >>

(* The task gives up: in one section it notes the failure, drops the        *)
(* clients and removes the entry.                                           *)
ShutDown(t) ==
  /\ task[t].at = "connect" /\ GivesUp(t)
  /\ NoteFailure(task[t].sub)
  /\ DropSubscription(task[t].sub)
  /\ task' = [task EXCEPT ![t] = Free]
  /\ UNCHANGED call

(* The stream ends, or is silent for longer than its timeout.               *)
ReadFails(t) ==
  /\ task[t].at = "stream"
  /\ task' = [task EXCEPT ![t].at = "connect"]
  /\ UNCHANGED << stateVars, call >>

(* Mutant: the listeners are looked up once and never again.                *)
Receive_NeverRefreshes(t) ==
  LET listeners == IF task[t].listeners = {} THEN Members(task[t].sub)
                                             ELSE task[t].listeners IN
  /\ task[t].at = "stream"
  /\ task' = [task EXCEPT ![t].listeners = listeners,
                          ![t].due = FALSE,
                          ![t].at = IF listeners = {} THEN "close" ELSE "stream"]
  /\ UNCHANGED << stateVars, call >>

(* A message that can be transformed arrives: the listeners are looked up   *)
(* again if that is due, and the message is sent to them.  (A message that  *)
(* cannot be transformed, or an error of the stream, changes nothing.)      *)
Receive(t) ==
  LET listeners == IF task[t].due THEN Members(task[t].sub)
                                  ELSE task[t].listeners IN
  /\ task[t].at = "stream"
  /\ task' = [task EXCEPT ![t].listeners = listeners,
                          ![t].due = FALSE,
                          ![t].at = IF listeners = {} THEN "close" ELSE "stream"]
  /\ UNCHANGED << stateVars, call >>

(* Mutant: the task trusts the listeners it has looked up.                  *)
CloseIfEmpty_Trusting(t) ==
  /\ task[t].at = "close"
  /\ RemoveEntry(task[t].sub)
  /\ task' = [task EXCEPT ![t] = Free]
  /\ UNCHANGED << subscription_count, subscription_ip_count,
                  websocket_limit_state, subscription_bad, call >>

(* Having seen no listeners, the task looks at the entry again and ends     *)
(* only if it is still empty.                                               *)
CloseIfEmpty(t) ==
  /\ task[t].at = "close"
  /\ IF Members(task[t].sub) = {}
     THEN /\ RemoveEntry(task[t].sub)
          /\ task' = [task EXCEPT ![t] = Free]
     ELSE /\ task' = [task EXCEPT ![t].at = "stream"]
          /\ UNCHANGED subscription_state
  /\ UNCHANGED << subscription_count, subscription_ip_count,
                  websocket_limit_state, subscription_bad, call >>

(* 2 seconds pass since a task looked its listeners up.                     *)
AgeListeners(t) ==
  /\ Live(t) /\ ~task[t].due
  /\ task' = [task EXCEPT ![t].due = TRUE]
  /\ UNCHANGED << stateVars, call >>

(* Minutes pass since a failure was noted or locked.                        *)
PassTime(s) ==
  /\ AgeFailure(s)
  /\ UNCHANGED << subscription_state, subscription_count,
                  subscription_ip_count, websocket_limit_state, call, task >>

-----------------------------------------------------------------------------
CallStep(c) ==
  \/ \E s \in Subs : CheckLocked(c, s)
  \/ Refuse(c)
  \/ Accept(c)
  \/ \E t \in TaskIds : Spawn(c, t)

TaskStep(t) ==
  \/ ConnectOk(t)
  \/ ConnectFails(t)
  \/ ConnectRejected(t)
  \/ ShutDown(t)
  \/ ReadFails(t)
  \/ Receive(t)
  \/ CloseIfEmpty(t)
  \/ AgeListeners(t)

Next ==
  \/ \E c \in Clients : CallStep(c) \/ RemoveClient(c)
  \/ \E t \in TaskIds : TaskStep(t)
  \/ \E s \in Subs : PassTime(s)

Spec == Init /\ [][Next]_vars

(* The scheduler of tokio runs every task that can go on, and the clock     *)
(* advances.                                                                *)
Scheduling ==
  /\ \A c \in Clients :
       WF_vars(Refuse(c) \/ Accept(c) \/ \E t \in TaskIds : Spawn(c, t))
  /\ \A t \in TaskIds :
       /\ WF_vars(ConnectOk(t) \/ ConnectFails(t) \/ ConnectRejected(t))
       /\ WF_vars(ShutDown(t))
       /\ WF_vars(CloseIfEmpty(t))
       /\ WF_vars(Receive(t) \/ ReadFails(t))
       /\ WF_vars(AgeListeners(t))

(* cbag does not accept connections for ever without once sending a message *)
(* that can be transformed before the read times out.                       *)
CbagSends == \A t \in TaskIds : SF_vars(Receive(t))

FairSpec == Spec /\ Scheduling /\ CbagSends

-----------------------------------------------------------------------------
(* The tables, calls and tasks have the types of the code.                  *)
TypeOK ==
  /\ StateTypeOK
  /\ call \in [Clients -> CallType]
  /\ task \in [TaskIds -> TaskType]

Spawning(c, s) == call[c].at = "spawn" /\ call[c].sub = s

Runs(t, s) == Live(t) /\ task[t].sub = s

(* No two tasks hold an upstream of the same subscription, nor is a second  *)
(* one about to be spawned: this is what sharing a feed rests on.  It would *)
(* break if a task ended after its entry was gone or the other way round.   *)
OneUpstream ==
  \A s \in Subs :
    /\ \A t, u \in TaskIds : Runs(t, s) /\ Runs(u, s) => t = u
    /\ \A c, d \in Clients : Spawning(c, s) /\ Spawning(d, s) => c = d
    /\ \A c \in Clients, t \in TaskIds : ~(Spawning(c, s) /\ Runs(t, s))

(* A subscription has an entry in the map exactly while a task runs for it  *)
(* or is about to: no client waits in an entry nobody serves, and no task   *)
(* finds its entry gone (the code unwraps the lookup in two places).        *)
EntryOwned ==
  \A s \in Subs :
    s \in DOMAIN subscription_state
      <=> (\E t \in TaskIds : Runs(t, s)) \/ (\E c \in Clients : Spawning(c, s))

(* The count of a client is the number of subscriptions it is in, so that   *)
(* is_client_still_active tells the check task of the connection the truth, *)
(* and the count of who is dropped with a subscription is at least 1 when   *)
(* the code takes 1 off it.                                                 *)
CountsAgree ==
  \A c \in Clients : subscription_count[c] = Cardinality(Held(c))

(* The clients of a limited route under one key, by subscription.           *)
Charged(r, k) ==
  {m \in Clients \X Subs :
     /\ m[1] \in Members(m[2])
     /\ RouteOf[m[1]] = r
     /\ LimitKey(m[1]) = k}

(* The limit count of a key is never below the subscriptions it stands for, *)
(* nor above the limit of the route: nobody gets more than the limit.       *)
LimitCovers ==
  \A r \in LimitRoutes, k \in LimitKeys :
    /\ Cardinality(Charged(r, k)) <= websocket_limit_state[r][k]
    /\ websocket_limit_state[r][k] <= LimitNumber[r]

(* The subscriptions of the clients of an IP.                               *)
IpCharged(i) == {m \in Clients \X Subs : m[1] \in Members(m[2]) /\ IpOf[m[1]] = i}

LimitExact(r, k) == websocket_limit_state[r][k] = Cardinality(Charged(r, k))

IpExact(i) == subscription_ip_count[i] = Cardinality(IpCharged(i))

(* A client with several subscriptions under a key goes.                    *)
LeavesSeveral(r, k) ==
  \E c \in Clients :
    /\ Cardinality(Held(c)) > 1 /\ RouteOf[c] = r /\ LimitKey(c) = k
    /\ RemoveClient(c)

(* The limit and IP counts are kept beside the data: one that is exact      *)
(* stays so, whoever comes and goes and in whatever order, unless a         *)
(* subscription is given up, or, for the count of a limit, a client leaves  *)
(* several at once.  There is no third way for a count to leak.             *)
ExactStays ==
  [][/\ \A r \in LimitRoutes, k \in LimitKeys :
          LimitExact(r, k) /\ ~LimitExact(r, k)'
            => (\E t \in TaskIds : ShutDown(t)) \/ LeavesSeveral(r, k)
     /\ \A i \in IPs :
          IpExact(i) /\ ~IpExact(i)' => \E t \in TaskIds : ShutDown(t)]_vars

(* An entry that has clients is only ever removed by a task that has given  *)
(* up on cbag, never by the closing of an idle subscription, even when a    *)
(* client joins between the task's two looks at the listeners.              *)
ClosesOnlyIdle ==
  [][\A s \in Subs :
       Members(s) # {} /\ s \notin DOMAIN subscription_state'
         => \E t \in TaskIds : Runs(t, s) /\ GivesUp(t)]_vars

(* What the subscriptions promise: the feeds of SharedFeeds are the tasks   *)
(* that run or are about to, their listeners the clients of the entries.    *)
Feeds == INSTANCE SharedFeeds WITH
  listening <- [s \in Subs |-> Members(s)],
  feeds <- {s \in Subs : \/ \E t \in TaskIds : Runs(t, s)
                         \/ \E c \in Clients : Spawning(c, s)},
  broken <- {s \in Subs : \E t \in TaskIds : Runs(t, s) /\ GivesUp(t)}

(* Every step of the subscriptions is a step of SharedFeeds, or none.       *)
SharesFeeds == Feeds!FeedSpec

(* ... and idle and broken feeds are closed, as SharedFeeds asks.           *)
RetiresFeeds == Feeds!FairFeedSpec

(* A client that has joined is sent the messages of its subscription before *)
(* long, unless it goes or is dropped: the copy of the listeners that a     *)
(* task forwards to does not stay stale.  (The copy of a client that left   *)
(* and is back at once has the channel it had before; that updates reach the*)
(* new one is DataArrives in Delivery.)                                     *)
ClientServed ==
  \A c \in Clients, s \in Subs :
    c \in Members(s)
      ~> \/ c \notin Members(s)
         \/ \E t \in TaskIds : Runs(t, s) /\ c \in task[t].listeners

-----------------------------------------------------------------------------
(* What comments and messages of the code say and the code does not do.     *)

(* The limit count of a key is its "current connection number": it goes     *)
(* down when a connection is gone, whatever ended its subscription.         *)
LimitCountsConnections ==
  \A r \in LimitRoutes, k \in LimitKeys :
    (\A c \in Clients : RouteOf[c] = r => Held(c) = {})
      => websocket_limit_state[r][k] = 0

(* The count of an IP is cleaned up when a subscription is: an IP without   *)
(* subscriptions has none.                                                  *)
IpCountsAgree ==
  \A i \in IPs :
    (\A c \in Clients : IpOf[c] = i => Held(c) = {})
      => subscription_ip_count[i] = 0

(* "Merx Locked that request for some time": nobody joins a locked          *)
(* subscription.                                                            *)
LockedMeansRefused ==
  [][\A s \in Subs :
       subscription_bad[s] = "locked" => Members(s)' \subseteq Members(s)]_vars

(* No subscription is given up.                                             *)
SteadySpec == Init /\ [][Next /\ \A t \in TaskIds : ~ShutDown(t)]_vars

(* No subscription fails while a call has passed the check of its lock and  *)
(* not yet joined it.                                                       *)
Undisturbed ==
  \A t \in TaskIds :
    ShutDown(t) => \A c \in Clients : ~(call[c].at = "insert" /\ call[c].sub = task[t].sub)

OrderlySpec == Init /\ [][Next /\ Undisturbed]_vars
=============================================================================
