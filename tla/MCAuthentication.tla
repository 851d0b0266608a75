--------------------------- MODULE MCAuthentication ---------------------------
(***************************************************************************)
(* Authentication on small instances.  The five durations keep their order *)
(* as the ticks 0 to 4.                                                    *)
(***************************************************************************)
EXTENDS Authentication

CONSTANTS t1, t2, u1, u2

OwnUser == [t \in Tokens |-> IF t = t1 THEN u1 ELSE u2]
SharedUser == [t \in Tokens |-> u1]
=============================================================================
