------------------------- MODULE MCTrafficAccounting -------------------------
(* TrafficAccounting on small instances: names and connections are         *)
(* interchangeable; client ids are ordered.                                *)
EXTENDS TrafficAccounting, TLC

CONSTANTS k1, k2, n1, n2, n3

TwoConns   == {k1, k2}
ThreeNames == {n1, n2, n3}
Symmetry   == Permutations(Conns) \union Permutations(Names)
=============================================================================
