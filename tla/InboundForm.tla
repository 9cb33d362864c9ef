---------------------------- MODULE InboundForm ----------------------------
(***************************************************************************)
(* The panel's form for an inbound (frontend/src/hooks/useInboundForm.ts   *)
(* and components/inbounds/inbound-form-modal.tsx), between the row that   *)
(* the API shows (transport/handler/inbound_handler.go) and the input that *)
(* it saves, which InboundRules takes.                                     *)
(*                                                                         *)
(* The form is opened on a copy of the row and keeps one value for every   *)
(* control, also for those it hides at the moment; buildPayload sends the  *)
(* ones that belong to the protocol, security and transport chosen last.   *)
(* What is not sent is empty in the input, and Update stores it empty.     *)
(* It can stay open for any time, so a save is an Update or a Create with  *)
(* any draft, at any moment.                                               *)
(***************************************************************************)
EXTENDS InboundRules

CONSTANT Offered   \* bound: the transports that are chosen

ASSUME OfferedAssumption == Offered \subseteq Transports

\* `paths`: the transports whose path or service name is filled in.
Draft == [protocol : Protocols, port : Ports, transmission : Offered,
          tls : TLSModes, dest : BOOLEAN, cert : Certs,
          paths : SUBSET (Offered \ {"tcp"}), obfs : BOOLEAN,
          preset : BOOLEAN]

\* tlsForProtocol: only VLESS can do without TLS.
TLSFor(protocol, tls) == IF protocol = "vless" THEN tls ELSE "tls"

\* What the controls can be set to: setProtocol and the effect that opens
\* the form correct the security, the other controls are independent.
Drafts == {d \in Draft : d.tls = TLSFor(d.protocol, d.tls)}

\* toInboundDTO leaves the secrets out: the private key, of which the public
\* key is shown, and the password of the obfuscation.
Shown(row) == [row EXCEPT !.obfs = FALSE]

\* Mutant of Opened: the source of the certificate starts from its default.
OpenedCertReset(row) ==
  [protocol |-> row.protocol, port |-> row.port,
   transmission |-> row.transmission, tls |-> TLSFor(row.protocol, row.tls),
   dest |-> TRUE, cert |-> "panel",
   paths |-> {t \in {row.transmission} \ {"tcp"} : row.path},
   obfs |-> row.obfs, preset |-> TRUE]

\* The form opened to edit a row as shown; what has a preset is never empty.
Opened(row) ==
  [protocol |-> row.protocol, port |-> row.port,
   transmission |-> row.transmission, tls |-> TLSFor(row.protocol, row.tls),
   dest |-> TRUE, cert |-> row.cert,
   paths |-> {t \in {row.transmission} \ {"tcp"} : row.path},
   obfs |-> row.obfs, preset |-> TRUE]

\* tlsCertFields, sent with TLS only.
CertFields(d, tls) == IF tls = "tls" THEN d.cert ELSE "panel"

\* buildPayload.
Payload(d) ==
  LET vless == d.protocol = "vless"
      tls   == IF vless THEN d.tls ELSE "tls"
  IN  [protocol     |-> d.protocol,
       port         |-> d.port,
       transmission |-> IF vless THEN d.transmission ELSE "tcp",
       tls          |-> tls,
       dest         |-> tls = "reality" /\ d.dest,
       cert         |-> CertFields(d, tls),
       path         |-> vless /\ d.transmission \in d.paths,
       obfs         |-> d.protocol = "hysteria2" /\ d.obfs,
       preset       |-> tls = "tls" /\ d.preset,
       extras       |-> FALSE]

FormInputs == {Payload(d) : d \in Drafts}

\* The row after the form was opened on it and saved without a change.
Resaved(row) == Generated(Edited(row, Payload(Opened(Shown(row)))), 0)

-----------------------------------------------------------------------------
(* Properties.                                                             *)

\* What a save keeps of a row, value by value.
Stripped(row) ==
  LET tls == TLSFor(row.protocol, row.tls)
  IN  [row EXCEPT !.tls = tls,
                  !.dest = (tls = "reality"),
                  !.cert = IF tls = "tls" THEN row.cert ELSE "panel",
                  !.path = (row.transmission # "tcp"),
                  !.obfs = FALSE,
                  !.preset = (tls = "tls"),
                  !.extras = FALSE]

(* Opening an inbound and saving it changes exactly this, whatever was     *)
(* changed, cloned or toggled before (useInboundForm.ts:110-262,           *)
(* inbound_handler.go:91-142, service.go:104-351): the password of the     *)
(* obfuscation, which the API never shows, and the settings the form has   *)
(* no control for are erased; presets take the place of what was left      *)
(* out; naive and Hysteria2 run over TLS from now on; and what belongs to  *)
(* another security or transport goes.  Port, transport, keys, flow and    *)
(* certificate survive, and the service accepts what is sent.              *)
SaveErasesOnly ==
  \A i \in Inbounds :
    LET row == inbounds[i]
    IN  Local(i) => /\ Valid(Payload(Opened(Shown(row))))
                    /\ Resaved(row) = Stripped(row)
=============================================================================
