----------------------------- MODULE MCWebPanel -----------------------------
(***************************************************************************)
(* Two clients, two inbounds of the panel, a node without any, two requests.*)
(***************************************************************************)
EXTENDS WebPanel

CONSTANTS i1, i2, local, node

MCNodeOf == [i \in {i1, i2} |-> local]
=============================================================================
