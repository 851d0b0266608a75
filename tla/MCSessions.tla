------------------------------ MODULE MCSessions ------------------------------
(***************************************************************************)
(* Sessions on a small instance: a connection on a public route and one on *)
(* a private route, with users of their own.  Each run of the system has   *)
(* one of them, chosen at the start: what two connections share is the     *)
(* tables, whose invariants MCMarketData checks and Sessions_proofs        *)
(* carries over to any number of connections.                              *)
(***************************************************************************)
EXTENDS Sessions, TLC

CONSTANTS c1, c2, i1, u1, u2, private, public

MCIpOf == [c \in Clients |-> i1]
MCUserOf == [c \in Clients |-> IF c = c1 THEN u1 ELSE u2]
MCRouteOf == [c \in Clients |-> IF c = c1 THEN public ELSE private]
MCSubsOf == [r \in Routes |-> Subs]
MCLimitType == [r \in LimitRoutes |-> "Token"]
MCLimitNumber == [r \in LimitRoutes |-> 1]

VARIABLE solo   \* the client that connects

Alone == UNCHANGED solo /\ \A c \in Clients \ {solo} : handler'[c] = "ended"

SoloSpec ==
  /\ solo \in Clients /\ SessionInit
  /\ [][SessionNext /\ Alone]_<<allVars, solo>>
  /\ SessionScheduling /\ PeersRead
=============================================================================
