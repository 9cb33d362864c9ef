--------------------------- MODULE MCNotifications ---------------------------
(* Notifications on small instances: the goroutines and the causes are     *)
(* interchangeable.                                                        *)
EXTENDS Notifications, TLC

CONSTANTS r1, r2, e1, e2

TwoReporters == {r1, r2}
TwoCauses    == {e1, e2}
Symmetry     == Permutations(TwoReporters) \union Permutations(TwoCauses)
=============================================================================
