----------------------------- MODULE MCNodeSync -----------------------------
(* NodeSync on small instances.                                            *)
EXTENDS NodeSync, TLC

CONSTANTS n1, n2, r1, r2, loop, import

TwoNames    == {n1, n2}
OneRequest  == {r1}
TwoRequests == {r1, r2}
SyncLoop    == {loop}
TwoSyncs    == {loop, import}
=============================================================================
