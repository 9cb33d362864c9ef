--------------------------- MODULE MCInboundRules ---------------------------
(* InboundRules with the inputs of the panel's form and of other clients   *)
(* of the API, on small instances.                                         *)
EXTENDS InboundForm, TLC

CONSTANTS p1, p2, r1, r2

TwoPorts    == {p1, p2}
TwoRequests == {r1, r2}
TCPOrWS     == {"tcp", "ws"}

\* The form sends its presets unless they are cleared; a certificate by ACME
\* goes the way of one in files.
PanelInputs == {in \in FormInputs : /\ in.preset <=> in.tls = "tls"
                                    /\ in.cert # "acme"}

\* Other clients send what is needed, or everything, also where it is not used.
BareInputs  == {in \in Input : /\ ~ in.path /\ ~ in.obfs
                               /\ ~ in.preset /\ ~ in.extras
                               /\ in.cert = "panel"
                               /\ in.dest <=> in.tls = "reality"
                               /\ in.transmission \in TCPOrWS}
FullInputs  == {in \in Input : /\ in.path /\ in.dest /\ in.preset
                               /\ in.extras /\ in.cert = "files"
                               /\ in.obfs <=> in.tls # "none"
                               /\ in.transmission = "ws"}
AllInputs   == PanelInputs \union BareInputs \union FullInputs
Symmetry    == Permutations(Ports) \union Permutations(Requests)
=============================================================================
