------------------------------ MODULE MCDelivery -------------------------------
(* Delivery with connections of one user, on a route without a limit.       *)
EXTENDS Delivery

CONSTANTS i1, u1, open

OneIp == [c \in Clients |-> i1]
OneUser == [c \in Clients |-> u1]
AllOpen == [c \in Clients |-> open]
AnySub == [r \in Routes |-> Subs]
NoLimit == [r \in {} |-> 0]
=============================================================================
