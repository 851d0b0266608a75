----------------------------- MODULE SharedFeeds -----------------------------
(***************************************************************************)
(* What merx promises about upstream feeds, without saying how: clients    *)
(* that ask for one subscription share one feed; a feed is opened for its  *)
(* first listener, is closed when nobody listens, and takes its listeners  *)
(* with it only after its upstream has broken.  MarketData implements it.  *)
(***************************************************************************)
CONSTANTS Clients, Subs

VARIABLES
  listening,   \* subscription -> the clients it is forwarded to
  feeds,       \* the subscriptions with an upstream feed
  broken       \* the feeds whose upstream is given up

feedVars == << listening, feeds, broken >>

FeedTypeOK ==
  /\ listening \in [Subs -> SUBSET Clients]
  /\ feeds \subseteq Subs
  /\ broken \subseteq feeds

FeedInit ==
  /\ listening = [s \in Subs |-> {}]
  /\ feeds = {}
  /\ broken = {}

(* A client starts to listen, which opens the feed if there is none.        *)
Join(c, s) ==
  /\ c \notin listening[s]
  /\ listening' = [listening EXCEPT ![s] = @ \cup {c}]
  /\ feeds' = feeds \cup {s}
  /\ UNCHANGED broken

(* A client goes; the feeds it listened to stay for a while.                *)
Leave(c) ==
  /\ listening' = [s \in Subs |-> listening[s] \ {c}]
  /\ UNCHANGED << feeds, broken >>

Break(s) ==
  /\ s \in feeds
  /\ broken' = broken \cup {s}
  /\ UNCHANGED << listening, feeds >>

(* A broken feed closes and drops its listeners.                            *)
Fail(s) ==
  /\ s \in broken
  /\ listening' = [listening EXCEPT ![s] = {}]
  /\ feeds' = feeds \ {s}
  /\ broken' = broken \ {s}

(* A feed that nobody listens to closes.                                    *)
Retire(s) ==
  /\ s \in feeds
  /\ listening[s] = {}
  /\ feeds' = feeds \ {s}
  /\ broken' = broken \ {s}
  /\ UNCHANGED listening

FeedNext ==
  \/ \E c \in Clients : Leave(c)
  \/ \E c \in Clients, s \in Subs : Join(c, s)
  \/ \E s \in Subs : Break(s) \/ Fail(s) \/ Retire(s)

FeedSpec == FeedInit /\ [][FeedNext]_feedVars

(* A feed that stays idle, or broken, does not stay open.                   *)
FairFeedSpec ==
  FeedSpec /\ \A s \in Subs : WF_feedVars(Retire(s)) /\ WF_feedVars(Fail(s))
=============================================================================
