---------------------------- MODULE InboundRules ----------------------------
(***************************************************************************)
(* The inbounds of the panel: what the service accepts, fills in and       *)
(* writes (internal/services/inbound/service.go over                       *)
(* repo/sqlite/inbound_repo.go), and the entry that the generator builds   *)
(* from a row (internal/services/singbox/generator.go).  One entry that    *)
(* `sing-box check` refuses makes every Apply fail, whatever it was for.   *)
(*                                                                         *)
(* Create is one INSERT; Update, Toggle, Clone and Delete read the row     *)
(* first and write later, and other requests come in between.  Only inputs *)
(* that pass validation change anything, so the others do not appear.      *)
(*                                                                         *)
(* A port is a model value; `cert` says where the certificate comes from,  *)
(* `dest` whether server name and destination are given, `path` whether    *)
(* the path or service name of the row's own transport is, `obfs` whether  *)
(* a password for obfuscation is, `preset` whether the optional values are *)
(* for which the panel's form has a preset (server name and verification   *)
(* under TLS, bandwidth, congestion control), `extras` whether settings    *)
(* are for which it has no control (multiplex, masquerade, the network and *)
(* the tuning of Hysteria2), and `keys` which Reality key pair and short   *)
(* id the row holds, 0 for none: they are named by the request that        *)
(* generated them.                                                         *)
(***************************************************************************)
EXTENDS Naturals

CONSTANTS
  NInbounds,    \* bound: inbound ids
  Ports,        \* the ports that occur
  Requests,     \* request goroutines
  Inputs,       \* the inputs that occur
  DefaultCert,  \* the panel's own certificate was made at boot
  MaxEdits,     \* bound: requests
  None,         \* a row that was never created; no request
  Gone          \* a row that was deleted; ids are not used again

Protocols  == {"vless", "naive", "hysteria2"}
Transports == {"tcp", "ws", "grpc", "httpupgrade"}
TLSModes   == {"none", "tls", "reality"}
Certs      == {"panel", "acme", "files"}
Inbounds   == 1 .. NInbounds
Serials    == 0 .. MaxEdits

Input == [protocol : Protocols, port : Ports, transmission : Transports,
          tls : TLSModes, dest : BOOLEAN, cert : Certs, path : BOOLEAN,
          obfs : BOOLEAN, preset : BOOLEAN, extras : BOOLEAN]

ASSUME ConstantsAssumption ==
  /\ NInbounds \in Nat /\ MaxEdits \in Nat
  /\ Inputs \subseteq Input
  /\ DefaultCert \in BOOLEAN
  /\ None # Gone

\* `remote` rows are cached from a node.
Row == [protocol : Protocols, port : Ports, transmission : Transports,
        tls : TLSModes, dest : BOOLEAN, cert : Certs, path : BOOLEAN,
        obfs : BOOLEAN, preset : BOOLEAN, extras : BOOLEAN,
        enabled : BOOLEAN, flow : BOOLEAN, keys : Serials, remote : BOOLEAN]

VARIABLES
  inbounds,  \* the inbounds table
  pending,   \* what each request has prepared and not yet written, or None
  edits      \* number of requests so far

vars == <<inbounds, pending, edits>>

\* `seen`: the keys of the row as the request has read it.
Pending == [kind : {"update", "toggle", "clone", "delete"}, id : Inbounds,
            row : Row, seen : Serials]

TypeOK ==
  /\ inbounds \in [Inbounds -> Row \union {None, Gone}]
  /\ pending \in [Requests -> Pending \union {None}]
  /\ edits \in Serials

Init ==
  /\ inbounds = [i \in Inbounds |-> None]
  /\ pending = [r \in Requests |-> None]
  /\ edits = 0

Exists(i) == inbounds[i] \notin {None, Gone}
Local(i)  == Exists(i) /\ ~ inbounds[i].remote
Edit      == edits < MaxEdits /\ edits' = edits + 1

-----------------------------------------------------------------------------
(* The rules of the service.                                               *)

\* Mutant of Valid: nothing is asked of naive.
ValidNaivePlain(in) ==
  in.tls = "reality" => in.protocol = "vless" /\ in.dest

\* validate, as far as protocol and security go.
Valid(in) ==
  /\ in.tls = "reality" => in.protocol = "vless" /\ in.dest
  /\ in.protocol = "naive" => in.tls # "none"
  /\ in.protocol = "hysteria2" /\ in.obfs => in.tls # "none"

\* normalizeTransmission: only VLESS has a transport.
Transport(in) ==
  IF in.protocol = "vless" THEN in.transmission ELSE "tcp"

\* realityFlow: vision is for raw TCP with Reality only.
Flow(row) ==
  row.protocol = "vless" /\ row.tls = "reality" /\ row.transmission = "tcp"

NeedsKeys(row) == row.tls = "reality" /\ row.keys = 0

\* applyGeneratedSettings: missing keys and paths are made, keys that are
\* there stay.
Generated(row, serial) ==
  [row EXCEPT !.keys = IF NeedsKeys(row) THEN serial ELSE @,
              !.flow = Flow(row),
              !.path = row.path \/ row.transmission # "tcp"]

\* What Update takes from the request; the rest is the row it has read.
Edited(old, in) ==
  [old EXCEPT !.protocol = in.protocol, !.port = in.port,
              !.transmission = Transport(in), !.tls = in.tls,
              !.dest = in.dest, !.cert = in.cert, !.path = in.path,
              !.obfs = in.obfs, !.preset = in.preset, !.extras = in.extras]

NewRow(in) ==
  [protocol |-> in.protocol, port |-> in.port,
   transmission |-> Transport(in), tls |-> in.tls, dest |-> in.dest,
   cert |-> in.cert, path |-> in.path, obfs |-> in.obfs,
   preset |-> in.preset, extras |-> in.extras, enabled |-> TRUE,
   flow |-> FALSE, keys |-> 0, remote |-> FALSE]

\* Mutant of Copied: the settings are copied with the secrets in them.
CopiedWithKeys(src, port) == [src EXCEPT !.port = port, !.enabled = FALSE]

\* Clone takes another port and none of the settings.
Copied(src, port) ==
  [src EXCEPT !.port = port, !.enabled = FALSE, !.cert = "panel",
              !.path = FALSE, !.obfs = FALSE, !.preset = FALSE,
              !.extras = FALSE, !.flow = FALSE, !.keys = 0]

-----------------------------------------------------------------------------
(* Requests.                                                               *)

NextId(i) == inbounds[i] = None /\ \A j \in 1 .. i - 1 : inbounds[j] # None

\* The unique index on the ports of local rows.
PortFree(i, port) ==
  \A j \in Inbounds \ {i} : Local(j) => inbounds[j].port # port

Insert(i, row) ==
  /\ NextId(i)
  /\ PortFree(i, row.port)
  /\ inbounds' = [inbounds EXCEPT ![i] = row]

Create(i, in) ==
  /\ Edit
  /\ Valid(in)
  /\ Insert(i, Generated(NewRow(in), edits'))
  /\ UNCHANGED pending

\* UpsertRemote of an inbound of a node: its keys stay there.
CacheRemote(i, in) ==
  /\ Edit
  /\ Valid(in)
  /\ NextId(i) \/ (Exists(i) /\ inbounds[i].remote)
  /\ inbounds' = [inbounds EXCEPT ![i] = [NewRow(in) EXCEPT !.remote = TRUE]]
  /\ UNCHANGED pending

\* GetByID; requests for a remote row end here.
Prepare(r, kind, i, row) ==
  /\ Edit
  /\ pending[r] = None
  /\ Local(i)
  /\ pending' = [pending EXCEPT ![r] =
                   [kind |-> kind, id |-> i, row |-> row,
                    seen |-> inbounds[i].keys]]
  /\ UNCHANGED inbounds

\* Mutant of Update: the settings start from nothing.
UpdateAfresh(r, i, in) ==
  LET row == [Edited(inbounds[i], in) EXCEPT !.keys = 0]
  IN  Valid(in) /\ Prepare(r, "update", i, Generated(row, edits'))

Update(r, i, in) ==
  LET row == Edited(inbounds[i], in)
  IN  Valid(in) /\ Prepare(r, "update", i, Generated(row, edits'))

Toggle(r, i) ==
  Prepare(r, "toggle", i, [inbounds[i] EXCEPT !.enabled = ~ @])

Clone(r, i, port) ==
  LET row == Copied(inbounds[i], port)
  IN  Prepare(r, "clone", i, Generated(row, edits'))

Delete(r, i) == Prepare(r, "delete", i, inbounds[i])

Writes(r, kind) == pending[r] # None /\ pending[r].kind = kind
Ends(r) == pending' = [pending EXCEPT ![r] = None] /\ UNCHANGED edits

\* UPDATE of every column: no row is changed when it is not there any more.
WriteRow(r) ==
  LET i == pending[r].id
  IN  /\ Writes(r, "update")
      /\ ~ Exists(i) \/ PortFree(i, pending[r].row.port)
      /\ inbounds' = IF Exists(i)
                       THEN [inbounds EXCEPT ![i] = pending[r].row]
                       ELSE inbounds
      /\ Ends(r)

\* SetEnabled writes what the row it has read says.
WriteEnabled(r) ==
  LET i == pending[r].id
  IN  /\ Writes(r, "toggle")
      /\ inbounds' =
           IF Exists(i)
             THEN [inbounds EXCEPT ![i].enabled = pending[r].row.enabled]
             ELSE inbounds
      /\ Ends(r)

WriteClone(r) ==
  /\ Writes(r, "clone")
  /\ \E i \in Inbounds : Insert(i, pending[r].row)
  /\ Ends(r)

\* The port was taken in the meantime.
WriteRefused(r) ==
  LET i == pending[r].id
  IN  /\ \/ Writes(r, "clone") /\ ~ PortFree(0, pending[r].row.port)
         \/ /\ Writes(r, "update") /\ Exists(i)
            /\ ~ PortFree(i, pending[r].row.port)
      /\ UNCHANGED inbounds
      /\ Ends(r)

DeleteRow(r) ==
  /\ Writes(r, "delete")
  /\ inbounds' = [inbounds EXCEPT ![pending[r].id] = Gone]
  /\ Ends(r)

Request(r) ==
  \/ \E i \in Inbounds :
       \/ \E in \in Inputs : Update(r, i, in)
       \/ \E port \in Ports : Clone(r, i, port)
       \/ Toggle(r, i) \/ Delete(r, i)
  \/ WriteRow(r) \/ WriteEnabled(r) \/ WriteClone(r) \/ DeleteRow(r)
  \/ WriteRefused(r)

Next ==
  \/ \E i \in Inbounds, in \in Inputs : Create(i, in) \/ CacheRemote(i, in)
  \/ \E r \in Requests : Request(r)

Spec == Init /\ [][Next]_vars

-----------------------------------------------------------------------------
(* The generator.                                                          *)

\* ListEnabled.
Listed == {i \in Inbounds : Local(i) /\ inbounds[i].enabled}

\* buildTLS: the secret is the private key or a certificate, the panel's
\* own one when no other is configured.
BuiltTLS(row) ==
  [on      |-> row.tls # "none",
   reality |-> row.tls = "reality",
   server  |-> row.dest,
   secret  |-> IF row.tls = "reality" THEN row.keys # 0
                                      ELSE row.cert # "panel" \/ DefaultCert]

\* buildInbound and buildTransport.
Entry(row) ==
  [type      |-> row.protocol,
   tls       |-> BuiltTLS(row),
   transport |-> IF row.protocol = "vless" THEN row.transmission ELSE "tcp",
   path      |-> row.path,
   flow      |-> row.protocol = "vless" /\ row.flow]

\* What `sing-box check` asks of an entry.
Accepted(e) ==
  /\ e.type \in {"naive", "hysteria2"} => e.tls.on
  /\ e.tls.on => e.tls.secret
  /\ e.tls.reality => e.type = "vless" /\ e.tls.server
  /\ e.flow => e.tls.on /\ e.transport = "tcp"
  /\ e.transport # "tcp" => e.path

-----------------------------------------------------------------------------
(* Properties.                                                             *)

\* Hysteria2 without TLS, which validate lets pass (service.go:396-401).
Unencrypted(row) == row.protocol = "hysteria2" /\ row.tls = "none"

\* The panel goes on when it cannot make its own certificate (main.go:162-171).
Uncertified(row) == row.tls = "tls" /\ row.cert = "panel" /\ ~ DefaultCert

(* Which inbounds stop the others, exactly: whatever changes of protocol,  *)
(* security and transport follow or overtake each other, and whatever a    *)
(* clone leaves out, the entry built from an enabled row is one the core   *)
(* accepts (service.go:167-353, generator.go:189-318), except for two      *)
(* kinds of row that it refuses: Hysteria2 that another client of the API  *)
(* has saved without TLS, and one that needs the panel's own certificate   *)
(* when that could not be made.  The rows keep their types.                *)
Renders ==
  /\ TypeOK
  /\ \A i \in Listed :
       LET row == inbounds[i]
       IN  Accepted(Entry(row)) <=> ~ Unencrypted(row) /\ ~ Uncertified(row)

(* A key pair belongs to one inbound: a clone, or a row written after it   *)
(* was deleted, does not share the secret of another (service.go:248-277). *)
KeysNotShared ==
  \A i, j \in Inbounds :
    i # j /\ Exists(i) /\ Exists(j) /\ inbounds[i].keys # 0
      => inbounds[i].keys # inbounds[j].keys

(* "Existing generated values remain stable" (service.go:219-220): the     *)
(* Reality keys, which the links of all clients contain, survive every     *)
(* change of the inbound, also one to another protocol and back; only an   *)
(* Update that overlaps another one, and has read other keys than those it *)
(* overwrites, replaces them.                                              *)
KeysStay ==
  [][\A i \in Inbounds :
       Exists(i) /\ inbounds'[i] \notin {None, Gone}
         /\ inbounds[i].keys # 0 /\ inbounds'[i].keys # inbounds[i].keys
       => \E r \in Requests : /\ Writes(r, "update") /\ pending'[r] = None
                              /\ pending[r].id = i
                              /\ pending[r].seen # inbounds[i].keys]_vars
=============================================================================
