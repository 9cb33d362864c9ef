------------------------- MODULE MCClientEnforcement -------------------------
(* ClientEnforcement on a small instance.                                  *)
EXTENDS ClientEnforcement

CONSTANTS c1, c2, a1

TwoClients == {c1, c2}
OneAdmin   == {a1}
NoneOrOne  == {0, 1}

(* CutOff of one of the clients, which are interchangeable: nothing in     *)
(* enforce (worker.go:111-155) tells one from the other.                   *)
OneIsCutOff == CutOff(c1)
=============================================================================
