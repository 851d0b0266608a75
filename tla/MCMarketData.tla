----------------------------- MODULE MCMarketData -----------------------------
(***************************************************************************)
(* MarketData on small instances.  Constants that are functions of other   *)
(* constants are given here; the .cfg files choose among them.             *)
(***************************************************************************)
EXTENDS MarketData, TLC

CONSTANTS c1, c2, i1, u1, open, limited, s1, s2

(* The connections come from one address and belong to one user.            *)
OneIp == [c \in Clients |-> i1]
OneUser == [c \in Clients |-> u1]

(* All connections on a route without, or with, a limit.                   *)
AllOpen == [c \in Clients |-> open]
AllLimited == [c \in Clients |-> limited]

AnySub == [r \in Routes |-> Subs]

(* The limited routes of routes_config.rs: by token, one subscription.      *)
TokenType == [r \in LimitRoutes |-> "Token"]
LimitOne == [r \in LimitRoutes |-> 1]
LimitTwo == [r \in LimitRoutes |-> 2]

Symmetries == Permutations(TaskIds) \cup Permutations(Clients)
=============================================================================
