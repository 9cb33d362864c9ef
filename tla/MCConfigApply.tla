--------------------------- MODULE MCConfigApply ---------------------------
(***************************************************************************)
(* Instances of ConfigApply for TLC.                                       *)
(***************************************************************************)
EXTENDS ConfigApply, TLC

\* The first version of the inbounds needs the first change of the clients:
\* until that one is rendered too, the checker refuses the configuration.
MCRejected == {c \in Content : c["inbounds"] = 1 /\ c["clients"] = 0}
=============================================================================
