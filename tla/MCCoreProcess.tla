--------------------------- MODULE MCCoreProcess ---------------------------
(* CoreProcess on a small instance.                                        *)
EXTENDS CoreProcess

CONSTANTS r1, x1, x2

OneRequest == {r1}
TwoPids    == {x1, x2}
=============================================================================
