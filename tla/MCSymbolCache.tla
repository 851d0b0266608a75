----------------------------- MODULE MCSymbolCache -----------------------------
(***************************************************************************)
(* SymbolCache on a small instance: three pairs, of which one is on no     *)
(* exchange (r1), one may change its sizes (p1, p2) and one may have sizes *)
(* that do not parse (qx).  The listings differ in order and length, so    *)
(* that pages move while they are pulled, and one has more than MaxPage.   *)
(***************************************************************************)
EXTENDS SymbolCache

CONSTANTS p, q, r, p1, p2, q1, qx, r1, e1, e2

MCPairOf == [e \in Entries |-> IF e \in {p1, p2} THEN p ELSE IF e = r1 THEN r ELSE q]

InOrder == <<e1, e2>>

MCListings ==
  {<< >>, <<p1, q1>>, <<q1, p2>>, <<r1, p1>>, <<p1, qx>>, <<p1, q1, r1>>}
=============================================================================
