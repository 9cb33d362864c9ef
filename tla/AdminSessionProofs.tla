------------------------- MODULE AdminSessionProofs -------------------------
(***************************************************************************)
(* The administrator is never locked out, and what the settings page shows *)
(* of the second factor is true, for any number of requests at a time and  *)
(* any bounds.  Below, the same of the page of clients (WebPanel).         *)
(***************************************************************************)
EXTENDS AdminSession, WebPanel, TLAPS

\* What a request under way carries: a code of a scanned secret, and a copy
\* of the row that is on only with a scanned secret.
Carried(r) ==
    /\ r.secret # NoSecret => r.secret \in scanned
    /\ r.copy.enabled => r.copy.secret \in scanned
    /\ r.copy.secret <= made.secrets

\* Only a tab that is signed in waits for an answer.
Waited == ~ui.signedIn => \A s \in Slots : net[s] # None =>
                                             net[s].from = "nobody"

KnownInv ==
    /\ TypeOK
    /\ Waited
    /\ SecretScanned
    /\ row.secret <= made.secrets /\ ui.secret <= made.secrets
    /\ \A s \in Slots : net[s] # None => Carried(net[s])

USE ConstantsAssumption DEF ConstantsAssumption

-----------------------------------------------------------------------------
(* What the operators return. *)

\* A new request carries its code and nothing else.
LEMMA RequestType ==
  ASSUME NEW op \in Ops, NEW c \in Secrets \cup {NoSecret},
         NEW b \in Batches \cup {NoBatch},
         NEW w \in {"modal", "page", "nobody"}
  PROVE  /\ Request(op, c, b, w) \in Requests
         /\ Request(op, c, b, w) # None
         /\ Request(op, c, b, w).secret = c
         /\ Request(op, c, b, w).from = w
         /\ ~Request(op, c, b, w).copy.enabled
         /\ Request(op, c, b, w).copy.secret = 0
  <1> DEFINE q == Request(op, c, b, w)
  <1>1. [secret |-> NoSecret, enabled |-> FALSE] \in Rows
    BY DEF Rows
  <1>2. q \in Requests
    BY <1>1 DEF Request, Requests
  <1>3. /\ q.secret = c /\ q.from = w /\ ~q.copy.enabled
        /\ q.copy.secret = 0
    BY DEF Request, NoSecret
  <1>4. QED BY <1>2, <1>3

\* Leaving changes who waits and nothing else.
LEMMA LeaveType ==
  ASSUME NEW n \in [Slots -> Requests \cup {None}],
         NEW w \in {"page", "nobody"}
  PROVE  /\ Leave(n, w) \in [Slots -> Requests \cup {None}]
         /\ \A s \in Slots : Leave(n, w)[s] # None =>
              /\ n[s] # None
              /\ Leave(n, w)[s].secret = n[s].secret
              /\ Leave(n, w)[s].copy = n[s].copy
              /\ Leave(n, w)[s].from \in {w, "nobody"}
  <1>1. ASSUME NEW s \in Slots, n[s] \in Requests
        PROVE  /\ [n[s] EXCEPT !.from = w] \in Requests
               /\ [n[s] EXCEPT !.from = w].secret = n[s].secret
               /\ [n[s] EXCEPT !.from = w].copy = n[s].copy
               /\ [n[s] EXCEPT !.from = w].from = w
    BY <1>1 DEF Requests
  <1>2. QED BY <1>1 DEF Leave

\* The fields of the tab, one by one.
LEMMA FieldType ==
  ASSUME NEW u \in UIs
  PROVE  /\ \A b \in BOOLEAN :
              /\ [u EXCEPT !.shown = b] \in UIs
              /\ [u EXCEPT !.shown = b].signedIn = u.signedIn
              /\ [u EXCEPT !.shown = b].secret = u.secret
              /\ [u EXCEPT !.submitting = b] \in UIs
              /\ [u EXCEPT !.submitting = b].signedIn = u.signedIn
              /\ [u EXCEPT !.submitting = b].secret = u.secret
         /\ \A c \in Secrets \cup {NoSecret} :
              /\ [u EXCEPT !.secret = c] \in UIs
              /\ [u EXCEPT !.secret = c].signedIn = u.signedIn
              /\ [u EXCEPT !.secret = c].secret = c
  BY DEF UIs

\* A closed dialogue leaves a tab of the right type, signed in as it was.
LEMMA ClosedType ==
  ASSUME NEW u \in UIs
  PROVE  /\ Closed(u) \in UIs
         /\ Closed(u).signedIn = u.signedIn
         /\ Closed(u).secret \in {u.secret, NoSecret}
  <1>1. CASE u.open = "setup"
    BY <1>1 DEF Closed, UIs, Modals
  <1>2. CASE u.open # "setup"
    BY <1>2 DEF Closed, UIs, Modals
  <1>3. QED BY <1>1, <1>2

LEMMA SignedOutType ==
  /\ SignedOut \in UIs /\ ~SignedOut.signedIn
  /\ [SignedOut EXCEPT !.signedIn = TRUE] \in UIs
  /\ [SignedOut EXCEPT !.signedIn = TRUE].signedIn
  BY DEF SignedOut, UIs, Modals, NoSecret, NoBatch

-----------------------------------------------------------------------------
(* The first state. *)

\* In the first state nothing is on and nothing is under way.
THEOREM InitKnown == Init => KnownInv
  <1> SUFFICES ASSUME Init PROVE KnownInv
    OBVIOUS
  <1>1. row \in Rows /\ ~row.enabled /\ row.secret = 0
    BY DEF Init, Rows, NoSecret
  <1>2. made \in [secrets : 0..MaxSecrets, batches : 0..MaxBatches]
        /\ made.secrets = 0
    BY DEF Init
  <1>3. other \in 0..MaxOther /\ losses \in 0..MaxLosses
    BY DEF Init
  <1>4. net \in [Slots -> Requests \cup {None}]
        /\ \A s \in Slots : net[s] = None
    BY DEF Init
  <1>5. codes = {} /\ scanned = {} /\ astray = FALSE /\ ui = SignedOut
    BY DEF Init
  <1>6. ui.secret = 0
    BY <1>5 DEF SignedOut, NoSecret
  <1>7. TypeOK
    BY <1>1, <1>2, <1>3, <1>4, <1>5, SignedOutType DEF TypeOK
  <1>8. QED
    BY <1>1, <1>2, <1>4, <1>6, <1>7 DEF KnownInv, Waited, SecretScanned

-----------------------------------------------------------------------------
(* What the steps have in common. *)

\* What is known of every state, part by part.
LEMMA Known ==
  ASSUME KnownInv
  PROVE  /\ row \in Rows /\ row.secret <= made.secrets
         /\ codes \subseteq 1..made.batches
         /\ made \in [secrets : 0..MaxSecrets, batches : 0..MaxBatches]
         /\ scanned \subseteq 1..made.secrets
         /\ net \in [Slots -> Requests \cup {None}]
         /\ ui \in UIs /\ ui.secret <= made.secrets
         /\ (~ui.signedIn => ui = SignedOut)
         /\ astray \in BOOLEAN
         /\ other \in 0..MaxOther /\ losses \in 0..MaxLosses
         /\ SecretScanned
         /\ \A s \in Slots : net[s] # None =>
              /\ net[s] \in Requests
              /\ Carried(net[s])
              /\ (~ui.signedIn => net[s].from = "nobody")
  BY DEF KnownInv, TypeOK, Waited

\* A step of the tab: the server's state is left alone, and every request has
\* what one had before the step, or a code that was scanned.
LEMMA TabFrame ==
  ASSUME KnownInv,
         UNCHANGED <<row, codes, made, scanned>>,
         ui' \in UIs, ui'.secret <= made.secrets,
         ~ui'.signedIn => ui' = SignedOut,
         astray' \in BOOLEAN,
         other' \in 0..MaxOther, losses' \in 0..MaxLosses,
         net' \in [Slots -> Requests \cup {None}],
         \A s \in Slots : net'[s] # None =>
           /\ net'[s].secret # NoSecret => net'[s].secret \in scanned
           /\ net'[s].copy.enabled => net'[s].copy.secret \in scanned
           /\ net'[s].copy.secret <= made.secrets
           /\ ~ui'.signedIn => net'[s].from = "nobody"
  PROVE  KnownInv'
  <1>1. TypeOK'
    BY Known DEF TypeOK
  <1>2. Waited' /\ SecretScanned'
    BY Known DEF Waited, SecretScanned
  <1>3. \A s \in Slots : net'[s] # None => Carried(net[s])'
    BY DEF Carried
  <1>4. QED BY <1>1, <1>2, <1>3, Known DEF KnownInv

\* A step of the server: it works on one request, and the tab sees nothing.
LEMMA ServerFrame ==
  ASSUME KnownInv, NEW s \in Slots, net[s] # None,
         NEW q \in Requests,
         q.from = net[s].from, q.secret = net[s].secret,
         q.copy.enabled => q.copy.secret \in scanned,
         q.copy.secret <= made'.secrets,
         net' = [net EXCEPT ![s] = q],
         UNCHANGED <<scanned, ui, other>>,
         made' \in [secrets : 0..MaxSecrets, batches : 0..MaxBatches],
         made.secrets <= made'.secrets,
         row' \in Rows, row'.secret <= made'.secrets,
         row'.enabled => row'.secret \in scanned,
         codes' \subseteq 1..made'.batches,
         astray' \in BOOLEAN, losses' \in 0..MaxLosses
  PROVE  KnownInv'
  <1>1. /\ made.secrets \in Nat /\ made'.secrets \in Nat
        /\ \A n \in Nat : n <= made.secrets => n <= made'.secrets
    BY Known
  <1>2. scanned' \subseteq 1..made'.secrets /\ ui'.secret <= made'.secrets
    BY <1>1, Known DEF UIs, Secrets, NoSecret
  <1>3. net' \in [Slots -> Requests \cup {None}]
    BY Known
  <1>4. TypeOK'
    BY <1>2, <1>3, Known DEF TypeOK
  <1>5. Waited'
    BY Known DEF Waited
  <1>6. ASSUME NEW x \in Slots, net'[x] # None
        PROVE  Carried(net[x])'
    <2>1. CASE x = s
      BY <2>1, Known DEF Carried
    <2>2. CASE x # s
      <3>1. net'[x] = net[x]
        BY <2>2, Known
      <3>2. net[x].copy.secret \in Nat
        BY <3>1, <1>6, Known DEF Requests, Rows, Secrets, NoSecret
      <3>3. QED
        BY <3>1, <3>2, <1>1, <1>6, Known DEF Carried
    <2>3. QED BY <2>1, <2>2
  <1>7. QED BY <1>2, <1>4, <1>5, <1>6 DEF KnownInv, SecretScanned

-----------------------------------------------------------------------------
(* The steps of the administrator. *)

LEMMA HydrateStep ==
  ASSUME KnownInv, NEW s \in Slots, Hydrate(s)
  PROVE  KnownInv'
  <1> DEFINE q == Request("me", NoSecret, NoBatch, "page")
             n == Leave(net, "nobody")
  <1>1. /\ net' = [n EXCEPT ![s] = q]
        /\ ui' = [SignedOut EXCEPT !.signedIn = TRUE]
        /\ other' \in 0..MaxOther
        /\ UNCHANGED <<row, codes, made, scanned, astray, losses>>
    BY Known DEF Hydrate
  <1>2. q \in Requests /\ q.secret = NoSecret /\ ~q.copy.enabled
        /\ q.copy.secret = 0
    BY RequestType DEF Ops
  <1>3. /\ n \in [Slots -> Requests \cup {None}]
        /\ \A x \in Slots : n[x] # None =>
             /\ net[x] # None
             /\ n[x].secret = net[x].secret /\ n[x].copy = net[x].copy
    BY LeaveType, Known
  <1>4. ui'.secret = 0 /\ ui'.signedIn /\ ui' \in UIs
    BY <1>1, SignedOutType DEF SignedOut, NoSecret
  <1>5. 0 <= made.secrets
    BY Known
  <1>6. net' \in [Slots -> Requests \cup {None}]
    BY <1>1, <1>2, <1>3
  <1>7. ASSUME NEW x \in Slots, net'[x] # None
        PROVE  /\ net'[x].secret # NoSecret => net'[x].secret \in scanned
               /\ net'[x].copy.enabled => net'[x].copy.secret \in scanned
               /\ net'[x].copy.secret <= made.secrets
    <2>1. CASE x = s
      BY <2>1, <1>1, <1>2, <1>3, <1>5
    <2>2. CASE x # s
      BY <2>2, <1>1, <1>3, <1>7, Known DEF Carried
    <2>3. QED BY <2>1, <2>2
  <1>8. QED
    BY <1>1, <1>4, <1>5, <1>6, <1>7, TabFrame, Known

LEMMA LogoutStep == KnownInv /\ Logout => KnownInv'
  <1> SUFFICES ASSUME KnownInv, Logout PROVE KnownInv'
    OBVIOUS
  <1>1. ui' = SignedOut /\ net' = Leave(net, "nobody")
        /\ UNCHANGED <<row, codes, made, scanned, astray, other, losses>>
    BY DEF Logout
  <1>2. ui' \in UIs /\ ui'.secret = 0 /\ 0 <= made.secrets
    BY <1>1, SignedOutType, Known DEF SignedOut, NoSecret
  <1>3. /\ net' \in [Slots -> Requests \cup {None}]
        /\ \A x \in Slots : net'[x] # None =>
             /\ net[x] # None /\ net'[x].from = "nobody"
             /\ net'[x].secret = net[x].secret /\ net'[x].copy = net[x].copy
    BY <1>1, LeaveType, Known
  <1>4. QED
    BY <1>1, <1>2, <1>3, TabFrame, Known DEF Carried

LEMMA SubmitStep ==
  ASSUME KnownInv, NEW s \in Slots, OpenSetup(s) \/ Submit(s)
  PROVE  KnownInv'
  <1>1. PICK op \in Ops, c \in scanned \cup {NoSecret},
             b \in 1..made.batches \cup {NoBatch} :
          Send(s, Request(op, c, b, "modal"))
    BY DEF OpenSetup, Submit, Ops
  <1> DEFINE q == Request(op, c, b, "modal")
  <1>2. c \in Secrets \cup {NoSecret} /\ b \in Batches \cup {NoBatch}
    BY Known DEF Secrets, Batches
  <1>3. /\ q \in Requests /\ q.secret = c /\ ~q.copy.enabled
        /\ q.copy.secret = 0
    BY <1>2, RequestType
  <1>4. net' = [net EXCEPT ![s] = q]
    BY <1>1 DEF Send
  <1>5. /\ ui.signedIn
        /\ ui' \in UIs /\ ui'.signedIn /\ ui'.secret = ui.secret
    <2>1. CASE OpenSetup(s)
      BY <2>1, Known DEF OpenSetup, UIs, Modals
    <2>2. CASE Submit(s)
      <3>1. ui.signedIn
        BY <2>2, Known DEF Submit, SignedOut
      <3>2. QED BY <2>2, <3>1, Known DEF Submit, UIs
    <2>3. QED BY <2>1, <2>2
  <1>6. /\ other' \in 0..MaxOther /\ astray' \in BOOLEAN
        /\ UNCHANGED <<row, codes, made, scanned, losses>>
    <2>1. CASE OpenSetup(s)
      BY <2>1, Known DEF OpenSetup
    <2>2. CASE Submit(s)
      <3>1. other' \in 0..MaxOther
        BY <2>2, Known DEF Submit
      <3>2. QED BY <2>2, <3>1 DEF Submit
    <2>3. QED BY <2>1, <2>2
  <1>7. net' \in [Slots -> Requests \cup {None}]
    BY <1>3, <1>4, Known
  <1>8. ASSUME NEW x \in Slots, net'[x] # None
        PROVE  /\ net'[x].secret # NoSecret => net'[x].secret \in scanned
               /\ net'[x].copy.enabled => net'[x].copy.secret \in scanned
               /\ net'[x].copy.secret <= made.secrets
    <2>1. CASE x = s
      BY <2>1, <1>3, <1>4, Known
    <2>2. CASE x # s
      BY <2>2, <1>4, <1>8, Known DEF Carried
    <2>3. QED BY <2>1, <2>2
  <1>9. QED
    BY <1>5, <1>6, <1>7, <1>8, TabFrame, Known

LEMMA OpenOtherStep == KnownInv /\ OpenOther => KnownInv'
  <1> SUFFICES ASSUME KnownInv, OpenOther PROVE KnownInv'
    OBVIOUS
  <1>1. PICK m \in {"disable", "password"} : ui' = [ui EXCEPT !.open = m]
    BY DEF OpenOther
  <1>2. UNCHANGED <<row, codes, made, scanned, net, astray, other, losses>>
        /\ ui.signedIn /\ ui \in UIs
    BY Known DEF OpenOther
  <1>3. ui' \in UIs /\ ui'.signedIn /\ ui'.secret = ui.secret
    BY <1>1, <1>2 DEF UIs, Modals
  <1>4. QED
    BY <1>2, <1>3, TabFrame, Known DEF Carried

LEMMA ScanStep == KnownInv /\ Scan => KnownInv'
  <1> SUFFICES ASSUME KnownInv, Scan PROVE KnownInv'
    OBVIOUS
  <1>1. scanned' = scanned \cup {ui.secret} /\ ui.secret # NoSecret
        /\ UNCHANGED <<row, codes, made, net, ui, astray, other, losses>>
    BY DEF Scan
  <1>2. ui.secret \in 1..made.secrets
    BY <1>1, Known DEF UIs, Secrets, NoSecret
  <1>3. scanned' \subseteq 1..made.secrets
    BY <1>1, <1>2, Known
  <1>4. TypeOK' /\ Waited' /\ SecretScanned'
    BY <1>1, <1>3, Known DEF TypeOK, Waited, SecretScanned
  <1>5. \A s \in Slots : net'[s] # None => Carried(net[s])'
    BY <1>1, Known DEF Carried
  <1>6. QED BY <1>1, <1>4, <1>5, Known DEF KnownInv

LEMMA FinishStep == KnownInv /\ FinishSetup => KnownInv'
  <1> SUFFICES ASSUME KnownInv, FinishSetup PROVE KnownInv'
    OBVIOUS
  <1>1. ui' = [Closed(ui) EXCEPT !.shown = TRUE] /\ ui \in UIs
        /\ UNCHANGED <<row, codes, made, scanned, net, astray, other, losses>>
    BY Known DEF FinishSetup
  <1>2. ui.signedIn
    BY Known DEF FinishSetup, SignedOut
  <1>3. /\ Closed(ui) \in UIs /\ Closed(ui).signedIn
        /\ Closed(ui).secret <= made.secrets
    BY <1>1, <1>2, ClosedType, Known DEF NoSecret
  <1>4. ui' \in UIs /\ ui'.signedIn /\ ui'.secret <= made.secrets
    BY <1>1, <1>3, FieldType
  <1>5. QED
    BY <1>1, <1>2, <1>4, TabFrame, Known DEF Carried

LEMMA CloseStep == KnownInv /\ CloseModal => KnownInv'
  <1> SUFFICES ASSUME KnownInv, CloseModal PROVE KnownInv'
    OBVIOUS
  <1>1. ui' = Closed(ui) /\ net' = Leave(net, "page") /\ astray' \in BOOLEAN
        /\ UNCHANGED <<row, codes, made, scanned, other, losses>>
    BY Known DEF CloseModal
  <1>2. ui.signedIn
    BY Known DEF CloseModal, SignedOut
  <1>3. ui' \in UIs /\ ui'.signedIn /\ ui'.secret <= made.secrets
    BY <1>1, <1>2, ClosedType, Known DEF NoSecret
  <1>4. /\ net' \in [Slots -> Requests \cup {None}]
        /\ \A x \in Slots : net'[x] # None =>
             /\ net[x] # None
             /\ net'[x].secret = net[x].secret /\ net'[x].copy = net[x].copy
    BY <1>1, LeaveType, Known
  <1>5. QED
    BY <1>1, <1>2, <1>3, <1>4, TabFrame, Known DEF Carried

-----------------------------------------------------------------------------
(* The steps of the server. *)

LEMMA ReadStep ==
  ASSUME KnownInv, NEW s \in Slots, Read(s)
  PROVE  KnownInv'
  <1> DEFINE r == net[s]
             q == [r EXCEPT !.copy = row, !.ok = (r.op = "me"),
                     !.stage = IF r.op = "me" THEN "served" ELSE "read"]
  <1>1. /\ net[s] # None /\ net' = [net EXCEPT ![s] = q]
        /\ UNCHANGED <<row, codes, made, scanned, ui, astray, other, losses>>
    BY DEF Read, Step
  <1>2. r \in Requests /\ row \in Rows
    BY <1>1, Known
  <1>3. /\ q \in Requests /\ q.from = r.from /\ q.secret = r.secret
        /\ q.copy = row
    BY <1>2 DEF Requests
  <1>4. /\ row.enabled => row.secret \in scanned
        /\ row.secret <= made.secrets /\ made.secrets <= made.secrets
    BY Known DEF SecretScanned
  <1>5. /\ made' = made /\ codes' \subseteq 1..made'.batches
        /\ made' \in [secrets : 0..MaxSecrets, batches : 0..MaxBatches]
        /\ astray' \in BOOLEAN /\ losses' \in 0..MaxLosses
    BY <1>1, Known
  <1> HIDE DEF q
  <1>6. QED
    BY <1>1, <1>2, <1>3, <1>4, <1>5, ServerFrame

\* Ending, or going on, with the copy as it is.
LEMMA SameCopyStep ==
  ASSUME KnownInv, NEW s \in Slots, net[s] # None,
         NEW st \in {"cleared", "served"}, NEW ok \in BOOLEAN,
         NEW b \in Batches \cup {NoBatch},
         net' = [net EXCEPT ![s] = [net[s] EXCEPT !.stage = st, !.ok = ok,
                                                  !.batch = b]],
         UNCHANGED <<row, scanned, ui, other>>,
         made' \in [secrets : 0..MaxSecrets, batches : 0..MaxBatches],
         made'.secrets = made.secrets,
         codes' \subseteq 1..made'.batches,
         astray' \in BOOLEAN, losses' \in 0..MaxLosses
  PROVE  KnownInv'
  <1> DEFINE r == net[s]
             q == [r EXCEPT !.stage = st, !.ok = ok, !.batch = b]
  <1>1. r \in Requests /\ Carried(r)
    BY Known
  <1>2. /\ q \in Requests /\ q.from = r.from /\ q.secret = r.secret
        /\ q.copy = r.copy
    BY <1>1 DEF Requests
  <1>3. net' = [net EXCEPT ![s] = q]
    OBVIOUS
  <1>4. made.secrets <= made'.secrets
    BY Known
  <1> HIDE DEF q
  <1>5. QED
    BY <1>1, <1>2, <1>3, <1>4, ServerFrame, Known DEF Carried, SecretScanned

\* The request as it is, with its own batch and outcome.
LEMMA RequestFields ==
  ASSUME NEW r \in Requests, NEW st \in {"cleared", "served"}
  PROVE  /\ r.ok \in BOOLEAN /\ r.batch \in Batches \cup {NoBatch}
         /\ [r EXCEPT !.stage = st]
              = [r EXCEPT !.stage = st, !.ok = r.ok, !.batch = r.batch]
         /\ [r EXCEPT !.stage = st, !.ok = TRUE]
              = [r EXCEPT !.stage = st, !.ok = TRUE, !.batch = r.batch]
  BY DEF Requests

LEMMA RefuseStep ==
  ASSUME KnownInv, NEW s \in Slots, Refuse(s) \/ FailServer(s)
  PROVE  KnownInv'
  <1>1. /\ net[s] # None
        /\ net' = [net EXCEPT ![s] = [net[s] EXCEPT !.stage = "served"]]
        /\ UNCHANGED <<row, codes, made, scanned, ui, other>>
        /\ astray' \in BOOLEAN
        /\ losses' \in 0..MaxLosses
    <2>1. CASE Refuse(s)
      BY <2>1, Known DEF Refuse, Step
    <2>2. CASE FailServer(s)
      <3>1. astray' \in BOOLEAN /\ losses' \in 0..MaxLosses
        BY <2>2, Known DEF FailServer
      <3>2. QED BY <2>2, <3>1 DEF FailServer, Working
    <2>3. QED BY <2>1, <2>2
  <1>2. net[s] \in Requests
    BY <1>1, Known
  <1>3. net' = [net EXCEPT ![s] = [net[s] EXCEPT !.stage = "served",
                                   !.ok = net[s].ok, !.batch = net[s].batch]]
        /\ net[s].ok \in BOOLEAN /\ net[s].batch \in Batches \cup {NoBatch}
    BY <1>1, <1>2, RequestFields
  <1>4. /\ made' \in [secrets : 0..MaxSecrets, batches : 0..MaxBatches]
        /\ made'.secrets = made.secrets
        /\ codes' \subseteq 1..made'.batches
    BY <1>1, Known
  <1> HIDE DEF KnownInv
  <1>5. QED
    BY <1>1, <1>3, <1>4, SameCopyStep

LEMMA WriteStep ==
  ASSUME KnownInv, NEW s \in Slots, Write(s)
  PROVE  KnownInv'
  <1> DEFINE r == net[s]
             new == Changed(r)
             q == IF r.op \in {"setup", "password"}
                  THEN [r EXCEPT !.stage = "served", !.ok = TRUE,
                                 !.copy = new]
                  ELSE [r EXCEPT !.stage = "written", !.copy = new]
  <1>1. /\ net[s] # None /\ Accepted(r)
        /\ r.op = "setup" => made.secrets < MaxSecrets
        /\ row' = new
        /\ made' = IF r.op = "setup"
                   THEN [made EXCEPT !.secrets = made.secrets + 1] ELSE made
        /\ net' = [net EXCEPT ![s] = q]
        /\ UNCHANGED <<scanned, ui, other, losses, codes, astray>>
    BY DEF Write, Step
  <1>2. r \in Requests /\ Carried(r)
    BY <1>1, Known
  <1>3. /\ made' \in [secrets : 0..MaxSecrets, batches : 0..MaxBatches]
        /\ made.secrets <= made'.secrets
        /\ made'.batches = made.batches
        /\ r.op = "setup" => made'.secrets = made.secrets + 1
    BY <1>1, Known
  <1>4. /\ new \in Rows /\ new.secret <= made'.secrets
        /\ new.enabled => new.secret \in scanned
    <2>1. CASE r.op = "setup"
      <3>1. new = [secret |-> made.secrets + 1, enabled |-> FALSE]
        BY <2>1 DEF Changed
      <3>2. made.secrets + 1 \in Secrets
        BY <1>1, <2>1, Known DEF Secrets
      <3>3. QED BY <3>1, <3>2, <1>3, <2>1, Known DEF Rows
    <2>2. CASE r.op = "confirm"
      <3>1. new = [r.copy EXCEPT !.enabled = TRUE]
        BY <2>2 DEF Changed
      <3>2. r.copy.secret # NoSecret /\ r.secret = r.copy.secret
        BY <1>1, <2>2 DEF Accepted
      <3>3. r.copy \in Rows
        BY <1>2 DEF Requests
      <3>4. new \in Rows /\ new.secret = r.copy.secret
        BY <3>1, <3>3 DEF Rows
      <3>5. made' = made
        BY <1>1, <2>2
      <3>6. QED BY <3>2, <3>4, <3>5, <1>2 DEF Carried
    <2>3. CASE r.op = "disable"
      <3>1. new = [secret |-> NoSecret, enabled |-> FALSE]
        BY <2>3 DEF Changed
      <3>2. QED BY <3>1, <1>3 DEF Rows, NoSecret
    <2>4. CASE r.op \notin {"setup", "confirm", "disable"}
      <3>1. new = r.copy
        BY <2>4 DEF Changed
      <3>2. made' = made
        BY <1>1, <2>4
      <3>3. r.copy \in Rows
        BY <1>2 DEF Requests
      <3>4. QED BY <3>1, <3>2, <3>3, <1>2 DEF Carried
    <2>5. QED BY <2>1, <2>2, <2>3, <2>4
  <1> HIDE DEF new
  <1>5. /\ q \in Requests /\ q.from = r.from /\ q.secret = r.secret
        /\ q.copy = new
    BY <1>2, <1>4 DEF Requests
  <1> HIDE DEF q
  <1>6. QED
    BY <1>1, <1>3, <1>4, <1>5, ServerFrame, Known

LEMMA ClearStep ==
  ASSUME KnownInv, NEW s \in Slots, Clear(s)
  PROVE  KnownInv'
  <1> DEFINE r == net[s]
  <1>1. /\ net[s] # None /\ codes' = {}
        /\ UNCHANGED <<row, made, scanned, ui, astray, other, losses>>
        /\ \/ net' = [net EXCEPT ![s] = [r EXCEPT !.stage = "cleared"]]
           \/ net' = [net EXCEPT ![s] = [r EXCEPT !.stage = "served",
                                                  !.ok = TRUE]]
    BY DEF Clear, Step
  <1>2. r \in Requests
    BY <1>1, Known
  <1>3. PICK st \in {"cleared", "served"}, ok \in BOOLEAN :
          net' = [net EXCEPT ![s] = [r EXCEPT !.stage = st, !.ok = ok,
                                              !.batch = r.batch]]
    BY <1>1, <1>2, RequestFields
  <1>4. r.batch \in Batches \cup {NoBatch}
    BY <1>2, RequestFields
  <1>5. QED
    BY <1>1, <1>3, <1>4, SameCopyStep, Known

LEMMA GenerateStep ==
  ASSUME KnownInv, NEW s \in Slots, Generate(s)
  PROVE  KnownInv'
  <1> DEFINE b == made.batches + 1
  <1>1. /\ net[s] # None /\ made.batches < MaxBatches
        /\ made' = [made EXCEPT !.batches = b]
        /\ UNCHANGED <<row, scanned, ui, astray, other, losses>>
    BY DEF Generate, Step
  <1>2. /\ made' \in [secrets : 0..MaxSecrets, batches : 0..MaxBatches]
        /\ made'.secrets = made.secrets /\ made'.batches = b
        /\ b \in Batches
    BY <1>1, Known DEF Batches
  <1>3. codes' \subseteq 1..made'.batches
    BY <1>1, <1>2, Known DEF Generate
  <1>4. net' = [net EXCEPT ![s] = [net[s] EXCEPT !.stage = "served",
                                     !.ok = TRUE, !.batch = b]]
    BY <1>2 DEF Generate, Step
  <1> HIDE DEF b
  <1>5. QED
    BY <1>1, <1>2, <1>3, <1>4, SameCopyStep, Known

-----------------------------------------------------------------------------
(* The answers. *)

\* An answer ends a request, and the tab stays signed in or out.
LEMMA AnswerFrame ==
  ASSUME KnownInv, NEW s \in Slots, net[s] # None,
         NEW n, n = net \/ n = Leave(net, "page"),
         n = net \/ ui.signedIn,
         net' = [n EXCEPT ![s] = None],
         UNCHANGED <<row, codes, made, scanned, other>>,
         ui' \in UIs, ui'.signedIn = ui.signedIn,
         ui'.secret <= made.secrets,
         ~ui.signedIn => ui' = ui,
         astray' \in BOOLEAN, losses' \in 0..MaxLosses
  PROVE  KnownInv'
  <1>1. /\ n \in [Slots -> Requests \cup {None}]
        /\ \A x \in Slots : n[x] # None =>
             /\ net[x] # None
             /\ n[x].secret = net[x].secret /\ n[x].copy = net[x].copy
             /\ ~ui.signedIn => n[x].from = net[x].from
    BY LeaveType, Known
  <1>2. /\ net' \in [Slots -> Requests \cup {None}]
        /\ \A x \in Slots : net'[x] # None => net'[x] = n[x]
    BY <1>1
  <1>3. \A x \in Slots : net'[x] # None =>
           /\ net'[x].secret # NoSecret => net'[x].secret \in scanned
           /\ net'[x].copy.enabled => net'[x].copy.secret \in scanned
           /\ net'[x].copy.secret <= made.secrets
           /\ ~ui'.signedIn => net'[x].from = "nobody"
    BY <1>1, <1>2, Known DEF Carried
  <1>4. ~ui'.signedIn => ui' = SignedOut
    BY Known
  <1>5. other' \in 0..MaxOther
    BY Known
  <1>6. QED
    BY <1>2, <1>3, <1>4, <1>5, TabFrame

\* What an answer may make of the tab.
LEMMA TabAfter ==
  ASSUME KnownInv, NEW s \in Slots, net[s] # None, NEW c \in {ui, Closed(ui)}
  PROVE  /\ c \in UIs /\ c.signedIn = ui.signedIn
         /\ c.secret <= made.secrets
         /\ net[s].from # "nobody" => ui.signedIn
         /\ net[s] \in Requests /\ net[s].copy.secret <= made.secrets
         /\ net[s].copy.secret \in Secrets \cup {NoSecret}
         /\ net[s].copy.enabled \in BOOLEAN
         /\ net[s].batch \in Batches \cup {NoBatch}
  <1>1. 0 <= made.secrets
    BY Known
  <1>2. net[s] \in Requests /\ Carried(net[s])
    BY Known
  <1>3. /\ net[s].copy.secret \in Secrets \cup {NoSecret}
        /\ net[s].copy.enabled \in BOOLEAN
        /\ net[s].batch \in Batches \cup {NoBatch}
    BY <1>2 DEF Requests, Rows
  <1>4. c \in UIs /\ c.signedIn = ui.signedIn /\ c.secret <= made.secrets
    BY <1>1, ClosedType, Known DEF NoSecret
  <1>5. QED
    BY <1>2, <1>3, <1>4, Known DEF Carried

\* The tab after an answer, whichever it is.
LEMMA TabChanged ==
  ASSUME KnownInv, NEW s \in Slots, net[s] # None,
         \/ ui' = ui
         \/ /\ net[s].from # "nobody"
            /\ \E c \in {ui, Closed(ui)} :
                 \/ ui' = c
                 \/ \E b \in BOOLEAN : \/ ui' = [c EXCEPT !.shown = b]
                                       \/ ui' = [c EXCEPT !.submitting = b]
                 \/ ui' = [c EXCEPT !.secret = net[s].copy.secret]
  PROVE  /\ ui' \in UIs /\ ui'.signedIn = ui.signedIn
         /\ ui'.secret <= made.secrets
         /\ ~ui.signedIn => ui' = ui
  <1>1. CASE ui' = ui
    BY <1>1, Known
  <1>2. ASSUME net[s].from # "nobody", NEW c \in {ui, Closed(ui)},
               \/ ui' = c
               \/ \E b \in BOOLEAN : \/ ui' = [c EXCEPT !.shown = b]
                                     \/ ui' = [c EXCEPT !.submitting = b]
               \/ ui' = [c EXCEPT !.secret = net[s].copy.secret]
        PROVE  /\ ui' \in UIs /\ ui'.signedIn = ui.signedIn
               /\ ui'.secret <= made.secrets /\ ui.signedIn
    <2>1. /\ c \in UIs /\ c.signedIn = ui.signedIn
          /\ c.secret <= made.secrets /\ ui.signedIn
          /\ net[s].copy.secret <= made.secrets
          /\ net[s].copy.secret \in Secrets \cup {NoSecret}
      BY <1>2, TabAfter
    <2>2. CASE ui' = c
      BY <2>1, <2>2
    <2>3. ASSUME NEW b \in BOOLEAN, \/ ui' = [c EXCEPT !.shown = b]
                                    \/ ui' = [c EXCEPT !.submitting = b]
          PROVE  /\ ui' \in UIs /\ ui'.signedIn = ui.signedIn
                 /\ ui'.secret <= made.secrets
      <3>1. CASE ui' = [c EXCEPT !.shown = b]
        BY <2>1, <3>1, FieldType
      <3>2. CASE ui' = [c EXCEPT !.submitting = b]
        BY <2>1, <3>2, FieldType
      <3>3. QED BY <2>3, <3>1, <3>2
    <2>4. CASE ui' = [c EXCEPT !.secret = net[s].copy.secret]
      BY <2>1, <2>4, FieldType
    <2>5. QED BY <1>2, <2>1, <2>2, <2>3, <2>4
  <1>3. QED BY <1>1, <1>2

LEMMA AnswerMeStep ==
  ASSUME KnownInv, NEW s \in Slots, AnswerMe(s)
  PROVE  KnownInv'
  <1>1. /\ net[s] # None /\ net' = [net EXCEPT ![s] = None]
        /\ UNCHANGED <<row, codes, made, scanned, other, losses>>
        /\ astray' \in BOOLEAN
        /\ \/ ui' = ui
           \/ /\ net[s].from # "nobody"
              /\ ui' = [ui EXCEPT !.shown = net[s].copy.enabled]
    BY Known DEF AnswerMe, Answered, Taken
  <1>2. /\ ui' \in UIs /\ ui'.signedIn = ui.signedIn
        /\ ui'.secret <= made.secrets
        /\ ~ui.signedIn => ui' = ui
    <2>1. net[s].copy.enabled \in BOOLEAN
      BY <1>1, TabAfter
    <2>2. QED BY <1>1, <2>1, TabChanged
  <1>3. QED BY <1>1, <1>2, AnswerFrame, Known

LEMMA AnswerSetupStep ==
  ASSUME KnownInv, NEW s \in Slots, AnswerSetup(s)
  PROVE  KnownInv'
  <1>1. /\ net[s] # None
        /\ UNCHANGED <<row, codes, made, scanned, other, astray, losses>>
    BY DEF AnswerSetup, Answered
  <1>2. CASE net[s].from = "modal" /\ ~net[s].ok
    <2>1. ui' = Closed(ui) /\ net' = [Leave(net, "page") EXCEPT ![s] = None]
      BY <1>2 DEF AnswerSetup
    <2>2. ui.signedIn
      BY <1>1, <1>2, TabAfter
    <2>3. /\ ui' \in UIs /\ ui'.signedIn = ui.signedIn
          /\ ui'.secret <= made.secrets
      BY <1>1, <2>1, TabAfter
    <2>4. QED BY <1>1, <2>1, <2>2, <2>3, AnswerFrame, Known
  <1>3. CASE ~(net[s].from = "modal" /\ ~net[s].ok)
    <2>1. /\ net' = [net EXCEPT ![s] = None]
          /\ \/ ui' = ui
             \/ /\ net[s].from # "nobody"
                /\ ui' = [ui EXCEPT !.secret = net[s].copy.secret]
      BY <1>3 DEF AnswerSetup, Taken
    <2>2. /\ ui' \in UIs /\ ui'.signedIn = ui.signedIn
          /\ ui'.secret <= made.secrets
          /\ ~ui.signedIn => ui' = ui
      BY <1>1, <2>1, TabChanged
    <2>3. QED BY <1>1, <2>1, <2>2, AnswerFrame, Known
  <1>4. QED BY <1>2, <1>3

LEMMA AnswerConfirmStep ==
  ASSUME KnownInv, NEW s \in Slots, AnswerConfirm(s)
  PROVE  KnownInv'
  <1>1. /\ net[s] # None /\ net' = [net EXCEPT ![s] = None]
        /\ UNCHANGED <<row, codes, made, scanned, other, losses>>
        /\ astray' \in BOOLEAN
    BY Known DEF AnswerConfirm, Answered, Taken
  <1>2. \/ ui' = ui
        \/ /\ net[s].from # "nobody"
           /\ ui' = [ui EXCEPT
                !.submitting = IF ui.open = "setup" THEN FALSE ELSE @,
                !.step = IF net[s].ok THEN "recovery" ELSE @,
                !.batch = IF net[s].ok THEN net[s].batch ELSE @]
    BY DEF AnswerConfirm
  <1>3. net[s].batch \in Batches \cup {NoBatch} /\ ui \in UIs
    BY <1>1, TabAfter, Known
  <1>4. ui' \in UIs /\ ui'.signedIn = ui.signedIn /\ ui'.secret = ui.secret
    BY <1>2, <1>3 DEF UIs
  <1>5. ~ui.signedIn => ui' = ui
    BY <1>1, <1>2, TabAfter
  <1>6. QED BY <1>1, <1>4, <1>5, AnswerFrame, Known

LEMMA AnswerDisableStep ==
  ASSUME KnownInv, NEW s \in Slots, AnswerDisable(s)
  PROVE  KnownInv'
  <1>1. /\ net[s] # None /\ net' = [net EXCEPT ![s] = None]
        /\ UNCHANGED <<row, codes, made, scanned, other, astray, losses>>
    BY DEF AnswerDisable, Answered, Taken
  <1>2. \/ ui' = ui
        \/ /\ net[s].from # "nobody"
           /\ \/ \E b \in BOOLEAN : ui' = [ui EXCEPT !.submitting = b]
              \/ \E c \in {ui, Closed(ui)} : ui' = [c EXCEPT !.shown = FALSE]
    <2>1. ui.submitting \in BOOLEAN
      BY Known DEF UIs
    <2>2. QED BY <2>1 DEF AnswerDisable
  <1>3. /\ ui' \in UIs /\ ui'.signedIn = ui.signedIn
        /\ ui'.secret <= made.secrets
        /\ ~ui.signedIn => ui' = ui
    BY <1>1, <1>2, TabChanged
  <1>4. QED BY <1>1, <1>3, AnswerFrame, Known

LEMMA AnswerPasswordStep ==
  ASSUME KnownInv, NEW s \in Slots, AnswerPassword(s)
  PROVE  KnownInv'
  <1>1. /\ net[s] # None /\ net' = [net EXCEPT ![s] = None]
        /\ UNCHANGED <<row, codes, made, scanned, other, astray, losses>>
    BY DEF AnswerPassword, Answered, Taken
  <1>2. \/ ui' = ui
        \/ /\ net[s].from # "nobody"
           /\ ui' = Closed(ui) \/ ui' = [ui EXCEPT !.submitting = FALSE]
    BY DEF AnswerPassword
  <1>3. /\ ui' \in UIs /\ ui'.signedIn = ui.signedIn
        /\ ui'.secret <= made.secrets
        /\ ~ui.signedIn => ui' = ui
    BY <1>1, <1>2, TabChanged
  <1>4. QED BY <1>1, <1>3, AnswerFrame, Known

LEMMA LoseAnswerStep ==
  ASSUME KnownInv, NEW s \in Slots, LoseAnswer(s)
  PROVE  KnownInv'
  <1>1. /\ net[s] # None
        /\ UNCHANGED <<row, codes, made, scanned, other>>
        /\ astray' \in BOOLEAN /\ losses' \in 0..MaxLosses
    BY Known DEF LoseAnswer
  <1>2. \/ ui' = ui
        \/ /\ net[s].from # "nobody"
           /\ ui' = Closed(ui) \/ ui' = [ui EXCEPT !.submitting = FALSE]
    BY DEF LoseAnswer
  <1>3. PICK n : /\ net' = [n EXCEPT ![s] = None]
                 /\ n = net \/ n = Leave(net, "page")
                 /\ n = net \/ net[s].from # "nobody"
    BY DEF LoseAnswer
  <1>4. /\ ui' \in UIs /\ ui'.signedIn = ui.signedIn
        /\ ui'.secret <= made.secrets
        /\ ~ui.signedIn => ui' = ui
    BY <1>1, <1>2, TabChanged
  <1>5. n = net \/ ui.signedIn
    BY <1>1, <1>3, TabAfter
  <1>6. QED BY <1>1, <1>3, <1>4, <1>5, AnswerFrame

-----------------------------------------------------------------------------
(* All of them. *)

\* Every step of the tab, of the server and of the answers keeps KnownInv.
THEOREM NextKnown == KnownInv /\ [Next]_vars => KnownInv'
  <1> SUFFICES ASSUME KnownInv, [Next]_vars PROVE KnownInv'
    OBVIOUS
  <1>1. CASE Admin
    <2>1. ASSUME NEW s \in Slots,
                 Login(s) \/ ReloadPage(s) \/ OpenSetup(s) \/ Submit(s)
          PROVE  KnownInv'
      BY <2>1, HydrateStep, SubmitStep DEF Login, ReloadPage
    <2>2. QED
      BY <1>1, <2>1, LogoutStep, OpenOtherStep, ScanStep, CloseStep,
         FinishStep DEF Admin
  <1>2. CASE Server
    BY <1>2, ReadStep, RefuseStep, WriteStep, ClearStep, GenerateStep
       DEF Server
  <1>3. CASE Answer
    BY <1>3, AnswerMeStep, AnswerSetupStep, AnswerConfirmStep,
       AnswerDisableStep, AnswerPasswordStep, LoseAnswerStep DEF Answer
  <1>4. CASE UNCHANGED vars
    <2>1. UNCHANGED <<row, codes, made, scanned, net, ui, astray, other,
                      losses>>
      BY <1>4 DEF vars
    <2>2. QED BY <2>1, TabFrame, Known DEF Carried
  <1>5. QED BY <1>1, <1>2, <1>3, <1>4 DEF Next

\* What requests carry, what is on and what the tab has are known secrets.
THEOREM AlwaysKnown == Spec => []KnownInv
  BY InitKnown, NextKnown, PTL DEF Spec

\* The administrator always has the secret that is on in his authenticator,
\* and rows, requests and dialogues keep their types: NoLockout, for any
\* number of requests under way.
THEOREM NeverLockedOut == Spec => []NoLockout
  <1>1. KnownInv => NoLockout
    BY DEF KnownInv, NoLockout
  <1>2. QED BY <1>1, AlwaysKnown, PTL

-----------------------------------------------------------------------------
(* What the toggle and the list of recovery codes show.                    *)

Submitted == {"confirm", "disable", "password"}
DialogueOf(op) == IF op = "confirm" THEN "setup" ELSE op

\* A confirmation, a disable that has changed the row.
Wrote(r) == /\ r.op = "confirm"
            /\ \/ r.stage \in {"written", "cleared"}
               \/ r.stage = "served" /\ r.ok
Off(r) == /\ r.op = "disable"
          /\ \/ r.stage = "written"
             \/ r.stage = "served" /\ r.ok

\* How far a request can be.
Staged(r) ==
    /\ r.op = "me" => r.stage \in {"sent", "served"} /\ r.from # "modal"
    /\ r.ok => r.stage = "served"
    /\ r.stage = "written" => r.op \in {"confirm", "disable"}
    /\ r.stage = "cleared" => r.op = "confirm"
AllStaged == \A s \in Slots : net[s] # None => Staged(net[s])

\* Beside what a dialogue has sent nothing else is under way; beside what it
\* has left under way only set-ups are.
Alone ==
    \A s, t \in Slots :
      /\ s # t /\ net[s] # None /\ net[t] # None
      /\ net[s].op \in Submitted /\ net[s].from # "nobody"
      /\ net[t].op # "me"
      => net[t].op = "setup" /\ net[s].from = "page"

\* A dialogue that waits for an answer is open and submits nothing else.
Linked ==
    \A s \in Slots :
      /\ net[s] # None /\ net[s].op \in Submitted
      /\ net[s].from = "modal"
      => ui.submitting /\ ui.open = DialogueOf(net[s].op)

\* The codes on the screen, and those on their way to it, are stored.
Recovery ==
    ui.step = "recovery" =>
      /\ ui.open = "setup" /\ ui.batch \in codes
      /\ \A s \in Slots : net[s] # None => net[s].op = "me"
Stored ==
    \A s \in Slots :
      /\ net[s] # None /\ net[s].op = "confirm"
      /\ net[s].from = "modal" /\ net[s].ok
      => net[s].batch \in codes

\* The tab has asked for the state of the second factor, or was told it: then
\* the toggle shows the row, up to what is under way.
Asking == \E s \in Slots :
            /\ net[s] # None /\ net[s].op = "me"
            /\ net[s].from # "nobody"
ToldOf(r) ==
    /\ r.op # "me" /\ r.from # "nobody"
    /\ r.op = "setup" => ~ui.shown
    /\ r.op = "password" /\ r.stage = "read" => (r.copy.enabled <=> ui.shown)
    /\ Off(r) => ~row.enabled
    /\ Wrote(r) /\ r.from = "modal" => row.enabled
Told ==
    /\ \A s \in Slots : net[s] # None => ToldOf(net[s])
    /\ ui.step = "recovery" => row.enabled
    /\ /\ ui.step # "recovery"
       /\ \A s \in Slots : net[s] # None => ~Wrote(net[s]) /\ ~Off(net[s])
       => (row.enabled <=> ui.shown)

Honest == Alone /\ Linked /\ Recovery /\ Stored
          /\ (ui.signedIn => Asking \/ Told)

\* The inductive invariant of what is shown.
Truth == AllStaged /\ (~astray => Honest)

\* A request that is left, or not: only who waits has changed.
Aged(r, q) ==
    /\ q.op = r.op /\ q.stage = r.stage /\ q.ok = r.ok
    /\ q.batch = r.batch /\ q.copy = r.copy
    /\ q.from = r.from \/ (q.from = "page" /\ r.from # "nobody")

LEMMA AgedSame ==
  ASSUME NEW r, NEW q, Aged(r, q)
  PROVE  /\ Wrote(q) <=> Wrote(r)
         /\ Off(q) <=> Off(r)
         /\ Staged(r) => Staged(q)
  BY DEF Aged, Wrote, Off, Staged

LEMMA AgedTold ==
  ASSUME NEW r, NEW q, Aged(r, q), ToldOf(r), row' = row, ui'.shown = ui.shown
  PROVE  ToldOf(q)'
  BY AgedSame DEF ToldOf, Aged, Wrote, Off

LEMMA LeaveAges ==
  ASSUME NEW n \in [Slots -> Requests \cup {None}], NEW s \in Slots,
         n[s] # None
  PROVE  /\ Leave(n, "page")[s] # None
         /\ Aged(n[s], Leave(n, "page")[s])
         /\ Leave(n, "page")[s].from # "modal"
  <1>1. n[s] \in Requests
    OBVIOUS
  <1> DEFINE r == n[s]
             q == [n[s] EXCEPT !.from = "page"]
  <1>2. /\ q.op = r.op /\ q.stage = r.stage /\ q.ok = r.ok
        /\ q.batch = r.batch /\ q.copy = r.copy /\ q.from = "page"
        /\ q \in Requests
    BY <1>1 DEF Requests
  <1>3. Leave(n, "page")[s] = IF n[s].from = "nobody" THEN r ELSE q
    BY DEF Leave
  <1> HIDE DEF q
  <1>4. q # None
    BY <1>2
  <1>5. CASE r.from = "nobody"
    <2>1. Leave(n, "page")[s] = r
      BY <1>3, <1>5
    <2>2. QED
      BY <1>5, <2>1 DEF Aged
  <1>6. CASE r.from # "nobody"
    <2>1. Leave(n, "page")[s] = q
      BY <1>3, <1>6
    <2>2. Aged(r, q)
      BY <1>2, <1>6 DEF Aged
    <2>3. QED
      BY <1>2, <1>4, <2>1, <2>2
  <1>7. QED
    BY <1>5, <1>6

LEMMA LeaveNone ==
  ASSUME NEW n \in [Slots -> Requests \cup {None}], NEW s \in Slots, NEW w,
         n[s] = None
  PROVE  Leave(n, w)[s] = None
  BY DEF Leave

\* With nothing under way it is enough that the toggle shows the row.
LEMMA QuietTruth ==
  ASSUME \A s \in Slots : net'[s] = None, ui'.step # "recovery",
         row'.enabled <=> ui'.shown
  PROVE  Truth'
  BY DEF Truth, AllStaged, Honest, Alone, Linked, Recovery, Stored, Told

\* A step that only ages what is under way, or that ends a request which has
\* not changed the row.
LEMMA GoneTruth ==
  ASSUME KnownInv, Truth, row' = row, codes' = codes, ~astray' => ~astray,
         ui'.shown = ui.shown, ui'.signedIn = ui.signedIn,
         ui'.step # "recovery",
         ui.step = "recovery" => ui'.step = "recovery" \/ astray',
         \A x \in Slots : net'[x] # None => net[x] # None /\ Aged(net[x], net'[x]),
         \A x \in Slots : net[x] # None /\ net'[x] = None =>
           net[x].op # "me" /\ ~Wrote(net[x]) /\ ~Off(net[x]),
         \/ ui'.submitting = ui.submitting /\ ui'.open = ui.open
         \/ \E x \in Slots : /\ net[x] # None /\ net[x].op \in Submitted
                             /\ net'[x] = None
         \/ \A x \in Slots : net'[x] # None => net'[x].from # "modal"
  PROVE  Truth'
  <1>1. AllStaged'
    BY AgedSame DEF Truth, AllStaged
  <1> SUFFICES ASSUME ~astray' PROVE Honest'
    BY <1>1 DEF Truth
  <1>2. Honest /\ ui.step # "recovery"
    BY DEF Truth
  <1>3. Alone'
    BY <1>2 DEF Honest, Alone, Aged
  <1>4. Linked'
    BY <1>2 DEF Honest, Linked, Alone, Aged, Submitted
  <1>5. Recovery'
    BY DEF Recovery
  <1>6. Stored'
    BY <1>2 DEF Honest, Stored, Aged
  <1>7. Asking => Asking'
    BY DEF Asking, Aged
  <1>8. ASSUME Told PROVE Told'
    <2>1. \A x \in Slots : net'[x] # None => ToldOf(net[x])'
      BY <1>8, AgedTold DEF Told
    <2>2. (\A x \in Slots : net'[x] # None => ~Wrote(net'[x]) /\ ~Off(net'[x]))
            => \A x \in Slots : net[x] # None => ~Wrote(net[x]) /\ ~Off(net[x])
      BY AgedSame
    <2>3. (\A x \in Slots : net'[x] # None => ~Wrote(net'[x]) /\ ~Off(net'[x]))
            => (row'.enabled <=> ui'.shown)
      BY <1>2, <1>8, <2>2 DEF Told
    <2>4. QED
      BY <2>1, <2>3 DEF Told, Wrote, Off
  <1>9. QED
    BY <1>2, <1>3, <1>4, <1>5, <1>6, <1>7, <1>8 DEF Honest

-----------------------------------------------------------------------------
(* The tab's own steps keep it honest.                                     *)

LEMMA ClosedFields ==
  ASSUME NEW u \in UIs
  PROVE  /\ Closed(u).shown = u.shown /\ Closed(u).signedIn = u.signedIn
         /\ Closed(u).step \in {u.step, "scan"}
         /\ u.open = "setup" => Closed(u).step = "scan"
  <1>1. CASE u.open = "setup"
    BY <1>1 DEF Closed, UIs
  <1>2. CASE u.open # "setup"
    BY <1>2 DEF Closed, UIs
  <1>3. QED
    BY <1>1, <1>2

LEMMA RequestHas ==
  ASSUME NEW op, NEW c, NEW b, NEW w
  PROVE  /\ Request(op, c, b, w).op = op /\ Request(op, c, b, w).from = w
         /\ Request(op, c, b, w).stage = "sent"
         /\ ~Request(op, c, b, w).ok
  BY DEF Request

LEMMA HydrateTruth ==
  ASSUME KnownInv, Truth, NEW s \in Slots, Hydrate(s)
  PROVE  Truth'
  <1> DEFINE q == Request("me", NoSecret, NoBatch, "page")
             n == Leave(net, "nobody")
  <1>1. net' = [n EXCEPT ![s] = q] /\ ui' = [SignedOut EXCEPT !.signedIn = TRUE]
    BY DEF Hydrate
  <1>2. /\ q.op = "me" /\ q.from = "page" /\ q.stage = "sent" /\ ~q.ok /\ q # None
    BY RequestHas, RequestType DEF Ops
  <1>3. /\ n \in [Slots -> Requests \cup {None}]
        /\ \A x \in Slots : n[x] # None =>
             /\ net[x] # None /\ n[x].from = "nobody"
             /\ Staged(net[x]) => Staged(n[x])
    <2>1. /\ n \in [Slots -> Requests \cup {None}]
          /\ \A x \in Slots : n[x] # None =>
               net[x] # None /\ n[x].from = "nobody"
      BY LeaveType, Known
    <2>2. ASSUME NEW x \in Slots, n[x] # None, Staged(net[x])
          PROVE  Staged(n[x])
      <3>1. net[x] \in Requests
        BY <2>1, <2>2, Known
      <3>2. n[x] = net[x] \/ n[x] = [net[x] EXCEPT !.from = "nobody"]
        BY <3>1 DEF Leave
      <3>3. n[x].op = net[x].op /\ n[x].stage = net[x].stage /\ n[x].ok = net[x].ok
        BY <3>1, <3>2 DEF Requests
      <3> HIDE DEF n
      <3>4. QED
        BY <2>1, <2>2, <3>3 DEF Staged
    <2>3. QED
      BY <2>1, <2>2
  <1> HIDE DEF q, n
  <1>4. net'[s] = q /\ \A x \in Slots \ {s} : net'[x] = n[x]
    BY <1>1, <1>3
  <1>5. ui'.step = "scan"
    BY <1>1 DEF SignedOut
  <1>6. AllStaged'
    BY <1>2, <1>3, <1>4 DEF Truth, AllStaged, Staged
  <1>7. Alone' /\ Linked' /\ Stored'
    BY <1>2, <1>3, <1>4 DEF Alone, Linked, Stored, Submitted
  <1>8. Asking' /\ Recovery'
    BY <1>2, <1>4, <1>5 DEF Asking, Recovery
  <1>9. QED
    BY <1>6, <1>7, <1>8 DEF Truth, Honest

LEMMA LogoutTruth ==
  ASSUME KnownInv, Truth, Logout
  PROVE  Truth'
  <1> DEFINE n == Leave(net, "nobody")
  <1>1. net' = n /\ ui' = SignedOut
    BY DEF Logout
  <1>2. \A x \in Slots : n[x] # None =>
             net[x] # None /\ n[x].from = "nobody"
    BY LeaveType, Known
  <1>3. ASSUME NEW x \in Slots, n[x] # None PROVE Staged(n[x])
    <2>1. net[x] \in Requests /\ Staged(net[x])
      BY <1>2, <1>3, Known DEF Truth, AllStaged
    <2>2. n[x] = net[x] \/ n[x] = [net[x] EXCEPT !.from = "nobody"]
      BY <2>1 DEF Leave
    <2>3. n[x].op = net[x].op /\ n[x].stage = net[x].stage /\ n[x].ok = net[x].ok
      BY <2>1, <2>2 DEF Requests
    <2> HIDE DEF n
    <2>4. QED
      BY <1>2, <1>3, <2>1, <2>3 DEF Staged
  <1> HIDE DEF n
  <1>4. ui'.step = "scan" /\ ~ui'.signedIn
    BY <1>1 DEF SignedOut
  <1>5. QED
    BY <1>1, <1>2, <1>3, <1>4
       DEF Truth, AllStaged, Honest, Alone, Linked, Recovery, Stored

LEMMA OpenSetupTruth ==
  ASSUME KnownInv, Truth, NEW s \in Slots, OpenSetup(s)
  PROVE  Truth'
  <1> DEFINE q == Request("setup", NoSecret, NoBatch, "modal")
  <1>1. /\ ui.signedIn /\ ui.open = "none" /\ ~ui.shown /\ net[s] = None
        /\ net' = [net EXCEPT ![s] = q] /\ ui' = [ui EXCEPT !.open = "setup"]
        /\ UNCHANGED <<row, codes, astray>>
    BY DEF OpenSetup, Send
  <1>2. q.op = "setup" /\ q.from = "modal" /\ q.stage = "sent" /\ ~q.ok
    BY RequestHas
  <1> HIDE DEF q
  <1>3. /\ ui'.shown = ui.shown /\ ui'.step = ui.step /\ ui'.batch = ui.batch
        /\ ui'.signedIn = ui.signedIn
    BY <1>1, Known DEF UIs
  <1>4. net'[s] = q /\ \A x \in Slots \ {s} : net'[x] = net[x]
    BY <1>1, Known
  <1>5. AllStaged'
    BY <1>2, <1>4 DEF Truth, AllStaged, Staged
  <1> SUFFICES ASSUME ~astray' PROVE Honest'
    BY <1>5 DEF Truth
  <1>6. Honest /\ ui.step # "recovery"
    BY <1>1 DEF Truth, Honest, Recovery
  <1>7. \A x \in Slots : net[x] # None /\ net[x].op \in Submitted
                         => net[x].from # "modal"
    BY <1>1, <1>6 DEF Honest, Linked, Submitted, DialogueOf
  <1>8. Alone'
    <2>1. \A x \in Slots : net[x] # None => net[x].from \in {"modal", "page", "nobody"}
      BY Known DEF Requests
    <2>2. QED
      BY <1>2, <1>4, <1>6, <1>7, <2>1 DEF Honest, Alone, Submitted
  <1>9. Linked' /\ Stored' /\ Recovery'
    BY <1>2, <1>3, <1>4, <1>6, <1>7 DEF Linked, Stored, Recovery, Submitted
  <1>10. Asking => Asking'
    BY <1>1, <1>4 DEF Asking
  <1>11. ASSUME Told PROVE Told'
    <2>1. ToldOf(q)' /\ ~Wrote(q) /\ ~Off(q)
      BY <1>1, <1>2, <1>3 DEF ToldOf, Wrote, Off
    <2>2. \A x \in Slots : net[x] # None => ToldOf(net[x])'
      BY <1>1, <1>3, <1>11 DEF Told, ToldOf, Wrote, Off
    <2>3. \A x \in Slots : net'[x] # None => ToldOf(net[x])'
      BY <1>4, <2>1, <2>2 DEF ToldOf, Wrote, Off
    <2>4. QED
      BY <1>1, <1>3, <1>4, <1>6, <1>11, <2>1, <2>3 DEF Told, Wrote, Off
  <1>12. QED
    BY <1>3, <1>6, <1>8, <1>9, <1>10, <1>11 DEF Honest

LEMMA OpenOtherTruth ==
  ASSUME KnownInv, Truth, OpenOther
  PROVE  Truth'
  <1>1. PICK m \in {"disable", "password"} : ui' = [ui EXCEPT !.open = m]
    BY DEF OpenOther
  <1>2. ui.open = "none" /\ UNCHANGED <<row, codes, net, astray>>
    BY DEF OpenOther
  <1>3. /\ ui'.shown = ui.shown /\ ui'.step = ui.step /\ ui'.batch = ui.batch
        /\ ui'.signedIn = ui.signedIn
    BY <1>1, Known DEF UIs
  <1>4. Honest => Honest'
    BY <1>2, <1>3 DEF Honest, Alone, Linked, Recovery, Stored, Asking, Told,
                      ToldOf, Wrote, Off, Submitted, DialogueOf
  <1>5. QED
    BY <1>2, <1>4 DEF Truth, AllStaged

LEMMA ScanTruth == ASSUME Truth, Scan PROVE Truth'
  BY DEF Scan, Truth, AllStaged, Honest, Alone, Linked, Recovery, Stored,
         Asking, Told, ToldOf, Wrote, Off

LEMMA CloseTruth ==
  ASSUME KnownInv, Truth, CloseModal
  PROVE  Truth'
  <1>1. /\ ui' = Closed(ui) /\ net' = Leave(net, "page")
        /\ astray' = (astray \/ ui.step = "recovery")
        /\ UNCHANGED <<row, codes>>
    BY DEF CloseModal
  <1>2. /\ ui'.shown = ui.shown /\ ui'.signedIn = ui.signedIn
        /\ ui'.step \in {ui.step, "scan"}
    BY <1>1, ClosedFields, Known
  <1>3. /\ net \in [Slots -> Requests \cup {None}]
        /\ \A x \in Slots : net[x] # None =>
             /\ net'[x] # None /\ Aged(net[x], net'[x])
             /\ net'[x].from # "modal"
    BY <1>1, LeaveAges, Known
  <1>4. \A x \in Slots : net'[x] # None => net[x] # None
    BY <1>1, <1>3, LeaveNone
  <1>5. CASE ui.step = "recovery"
    <2>1. AllStaged'
      BY <1>3, <1>4, AgedSame DEF Truth, AllStaged
    <2>2. QED
      BY <1>1, <1>5, <2>1 DEF Truth
  <1>6. CASE ui.step # "recovery"
    <2>1. ui'.step # "recovery" /\ (~astray' => ~astray)
      BY <1>1, <1>2, <1>6
    <2>2. QED
      BY <1>1, <1>2, <1>3, <1>4, <1>6, <2>1, GoneTruth
  <1>7. QED
    BY <1>5, <1>6

LEMMA FinishTruth ==
  ASSUME KnownInv, Truth, FinishSetup
  PROVE  Truth'
  <1>1. /\ ui.open = "setup" /\ ui.step = "recovery"
        /\ ui' = [Closed(ui) EXCEPT !.shown = TRUE]
        /\ UNCHANGED <<row, codes, net, astray>>
    BY DEF FinishSetup
  <1> DEFINE u == Closed(ui)
  <1>2. u \in UIs /\ u.step = "scan" /\ u.signedIn = ui.signedIn
    BY <1>1, ClosedFields, ClosedType, Known
  <1>3. ui' = [u EXCEPT !.shown = TRUE]
    BY <1>1
  <1> HIDE DEF u
  <1>4. ui'.step = "scan" /\ ui'.signedIn = ui.signedIn /\ ui'.shown
    BY <1>2, <1>3 DEF UIs
  <1>5. AllStaged'
    BY <1>1 DEF Truth, AllStaged
  <1> SUFFICES ASSUME ~astray' PROVE Honest'
    BY <1>5 DEF Truth
  <1>6. Honest /\ \A x \in Slots : net[x] # None => net[x].op = "me"
    BY <1>1 DEF Truth, Honest, Recovery
  <1>7. Alone' /\ Linked' /\ Stored' /\ Recovery'
    BY <1>1, <1>4, <1>6 DEF Alone, Linked, Stored, Recovery, Submitted
  <1>8. Asking => Asking'
    BY <1>1 DEF Asking
  <1>9. ASSUME Told PROVE Told'
    <2>1. row.enabled /\ \A x \in Slots : net[x] = None
      BY <1>1, <1>6, <1>9 DEF Told, ToldOf
    <2>2. QED
      BY <1>1, <1>4, <2>1 DEF Told
  <1>10. QED
    BY <1>4, <1>6, <1>7, <1>8, <1>9 DEF Honest

LEMMA SubmitTruth ==
  ASSUME KnownInv, Truth, NEW s \in Slots, Submit(s)
  PROVE  Truth'
  <1>1. PICK op \in Submitted :
          /\ \E c, b : Send(s, Request(op, c, b, "modal"))
          /\ ui.open = DialogueOf(op)
          /\ op = "confirm" => ui.step = "scan"
    BY DEF Submit, Submitted, DialogueOf
  <1> PICK c, b : Send(s, Request(op, c, b, "modal"))
    BY <1>1
  <1> DEFINE q == Request(op, c, b, "modal")
  <1>2. /\ ui' = [ui EXCEPT !.submitting = TRUE]
        /\ astray' = (astray \/ \E x \in Slots : net[x] # None
                                              /\ net[x].op # "me")
        /\ UNCHANGED <<row, codes>>
    BY DEF Submit
  <1>3. q.op = op /\ q.from = "modal" /\ q.stage = "sent" /\ ~q.ok
    BY RequestHas
  <1>4. net[s] = None /\ net' = [net EXCEPT ![s] = q]
    BY <1>1 DEF Send
  <1> HIDE DEF q
  <1>5. /\ ui'.shown = ui.shown /\ ui'.step = ui.step /\ ui'.open = ui.open
        /\ ui'.signedIn = ui.signedIn /\ ui'.submitting
    BY <1>2, Known DEF UIs
  <1>6. net'[s] = q /\ \A x \in Slots \ {s} : net'[x] = net[x]
    BY <1>4, Known
  <1>7. AllStaged'
    BY <1>3, <1>6 DEF Truth, AllStaged, Staged, Submitted
  <1> SUFFICES ASSUME ~astray' PROVE Honest'
    BY <1>7 DEF Truth
  <1>8. Honest /\ \A x \in Slots : net[x] # None => net[x].op = "me"
    BY <1>2 DEF Truth
  <1>9. ui.step # "recovery"
    BY <1>1, <1>8 DEF Honest, Recovery, Submitted, DialogueOf
  <1>10. Alone' /\ Stored' /\ Recovery'
    BY <1>3, <1>5, <1>6, <1>8, <1>9 DEF Alone, Stored, Recovery, Submitted
  <1>11. Linked'
    BY <1>1, <1>3, <1>5, <1>6, <1>8 DEF Linked, Submitted
  <1>12. Asking => Asking'
    BY <1>4, <1>6 DEF Asking
  <1>13. ASSUME Told PROVE Told'
    <2>1. /\ row.enabled <=> ui.shown
          /\ \A x \in Slots : net[x] = None
      BY <1>8, <1>9, <1>13 DEF Told, ToldOf
    <2>2. ToldOf(q)' /\ ~Wrote(q) /\ ~Off(q)
      BY <1>3 DEF ToldOf, Wrote, Off, Submitted
    <2>3. \A x \in Slots : net'[x] # None => ToldOf(net[x])'
      BY <1>6, <2>1, <2>2 DEF ToldOf, Wrote, Off
    <2>4. QED
      BY <1>2, <1>5, <1>9, <2>1, <2>3 DEF Told, Wrote, Off
  <1>14. QED
    BY <1>5, <1>8, <1>10, <1>11, <1>12, <1>13 DEF Honest

-----------------------------------------------------------------------------
(* The steps of the server keep the tab honest.                            *)

\* A step of the server on one request, apart from what the tab was told.
LEMMA ServerTruth ==
  ASSUME KnownInv, Truth, NEW s \in Slots, net[s] # None,
         NEW q, q # None, q.op = net[s].op, q.from = net[s].from, Staged(q),
         net' = [net EXCEPT ![s] = q], ui' = ui, ~astray' => ~astray,
         codes \subseteq codes' \/ net[s].op \in Submitted,
         q.op = "confirm" /\ q.from = "modal" /\ q.ok => q.batch \in codes',
         ~astray' /\ Honest /\ Told => Told'
  PROVE  Truth'
  <1>1. net'[s] = q /\ \A x \in Slots \ {s} : net'[x] = net[x]
    BY Known
  <1>2. AllStaged'
    BY <1>1 DEF Truth, AllStaged
  <1> SUFFICES ASSUME ~astray' PROVE Honest'
    BY <1>2 DEF Truth
  <1>3. Honest
    BY DEF Truth
  <1>4. Alone' /\ Linked'
    BY <1>1, <1>3 DEF Honest, Alone, Linked
  <1>5. Recovery'
    BY <1>1, <1>3 DEF Honest, Recovery, Submitted
  <1>6. Stored'
    <2>1. ASSUME NEW x \in Slots, net'[x] # None, net'[x].op = "confirm",
                 net'[x].from = "modal", net'[x].ok
          PROVE  net'[x].batch \in codes'
      <3>1. CASE x = s
        BY <1>1, <2>1, <3>1
      <3>2. CASE x # s
        <4>1. net'[x] = net[x] /\ net[x].batch \in codes
          BY <1>1, <1>3, <2>1, <3>2 DEF Honest, Stored
        <4>2. net[s].op \notin Submitted
          BY <1>1, <1>3, <2>1, <3>2 DEF Honest, Alone, Submitted
        <4>3. QED
          BY <4>1, <4>2
      <3>3. QED
        BY <3>1, <3>2
    <2>2. QED
      BY <2>1 DEF Stored
  <1>7. Asking => Asking'
    BY <1>1 DEF Asking
  <1>8. QED
    BY <1>3, <1>4, <1>5, <1>6, <1>7 DEF Honest

\* Beside a request other than a set-up only set-ups are under way.
LEMMA Others ==
  ASSUME Honest, Told, NEW s \in Slots, net[s] # None, net[s].op \in Submitted
  PROVE  /\ \A x \in Slots \ {s} : net[x] # None => net[x].op = "setup"
         /\ ui.step # "recovery"
  BY DEF Honest, Alone, Told, ToldOf, Recovery, Submitted

\* A request that has changed nothing yet.
LEMMA ToldSame ==
  ASSUME KnownInv, Honest, Told, NEW s \in Slots, net[s] # None,
         NEW q, q # None, q.op = net[s].op, q.from = net[s].from,
         net' = [net EXCEPT ![s] = q], ui' = ui, row' = row,
         Wrote(q) <=> Wrote(net[s]), Off(q) <=> Off(net[s]),
         q.op = "password" /\ q.stage = "read" => (q.copy.enabled <=> ui.shown)
  PROVE  Told'
  <1>1. net'[s] = q /\ \A x \in Slots \ {s} : net'[x] = net[x]
    BY Known
  <1>2. ToldOf(q)'
    BY DEF Told, ToldOf, Wrote, Off
  <1>3. \A x \in Slots \ {s} : net[x] # None => ToldOf(net[x])'
    BY DEF Told, ToldOf, Wrote, Off
  <1>4. \A x \in Slots : net'[x] # None => ToldOf(net[x])'
    BY <1>1, <1>2, <1>3 DEF ToldOf, Wrote, Off
  <1>5. (\A x \in Slots : net'[x] # None => ~Wrote(net'[x]) /\ ~Off(net'[x]))
          => \A x \in Slots : net[x] # None => ~Wrote(net[x]) /\ ~Off(net[x])
    BY <1>1
  <1>6. (\A x \in Slots : net'[x] # None => ~Wrote(net'[x]) /\ ~Off(net'[x]))
          /\ ui'.step # "recovery" => (row'.enabled <=> ui'.shown)
    BY <1>5 DEF Told
  <1>7. QED
    BY <1>4, <1>6 DEF Told, Wrote, Off

LEMMA ReadTruth ==
  ASSUME KnownInv, Truth, NEW s \in Slots, Read(s)
  PROVE  Truth'
  <1> DEFINE r == net[s]
             st == IF r.op = "me" THEN "served" ELSE "read"
             q == [r EXCEPT !.copy = row, !.ok = (r.op = "me"), !.stage = st]
  <1>1. /\ r # None /\ r.stage = "sent" /\ net' = [net EXCEPT ![s] = q]
        /\ UNCHANGED <<row, codes, made, astray, ui>>
    BY DEF Read, Step
  <1>2. r \in Requests /\ Staged(r) /\ row \in Rows
    BY <1>1, Known DEF Truth, AllStaged
  <1>3. /\ q \in Requests /\ q.op = r.op /\ q.from = r.from /\ q.stage = st
        /\ (q.ok <=> r.op = "me") /\ q.copy = row
    BY <1>2 DEF Requests
  <1> HIDE DEF q
  <1>4. Staged(q) /\ ~Wrote(q) /\ ~Off(q) /\ ~Wrote(r) /\ ~Off(r)
    BY <1>1, <1>2, <1>3 DEF Staged, Wrote, Off
  <1>5. ASSUME Honest, Told PROVE Told'
    <2>1. ASSUME q.op = "password" PROVE q.copy.enabled <=> ui.shown
      <3>1. /\ \A x \in Slots \ {s} : net[x] # None => net[x].op = "setup"
            /\ ui.step # "recovery"
        BY <1>1, <1>3, <1>5, <2>1, Others DEF Submitted
      <3>2. \A x \in Slots : net[x] # None => ~Wrote(net[x]) /\ ~Off(net[x])
        BY <1>4, <3>1 DEF Wrote, Off
      <3>3. QED
        BY <1>3, <1>5, <3>1, <3>2 DEF Told
    <2>2. q # None
      BY <1>3
    <2>3. QED
      BY <1>1, <1>3, <1>4, <1>5, <2>1, <2>2, ToldSame
  <1>6. q # None /\ ~(q.op = "confirm" /\ q.ok)
    BY <1>3
  <1>7. QED
    BY <1>1, <1>3, <1>4, <1>5, <1>6, ServerTruth

LEMMA RefuseTruth ==
  ASSUME KnownInv, Truth, NEW s \in Slots, Refuse(s) \/ FailServer(s)
  PROVE  Truth'
  <1> DEFINE r == net[s]
             q == [r EXCEPT !.stage = "served"]
  <1>1. /\ r # None /\ r.stage \in {"read", "written", "cleared"}
        /\ net' = [net EXCEPT ![s] = q] /\ UNCHANGED <<row, codes, made, ui>>
        /\ ~astray' => ~astray /\ r.stage = "read"
    <2>1. CASE Refuse(s)
      BY <2>1 DEF Refuse, Step
    <2>2. CASE FailServer(s)
      <3>1. net' = [net EXCEPT ![s] = q]
        BY <2>2 DEF FailServer
      <3> HIDE DEF q
      <3>2. QED
        BY <2>2, <3>1 DEF FailServer, Working
    <2>3. QED
      BY <2>1, <2>2
  <1>2. r \in Requests /\ Staged(r)
    BY <1>1, Known DEF Truth, AllStaged
  <1>3. /\ q \in Requests /\ q.op = r.op /\ q.from = r.from
        /\ q.stage = "served" /\ q.ok = r.ok
    BY <1>2 DEF Requests
  <1> HIDE DEF q
  <1>4. ~q.ok /\ Staged(q) /\ q # None /\ ~Wrote(q) /\ ~Off(q)
    BY <1>1, <1>2, <1>3 DEF Staged, Wrote, Off
  <1>5. ASSUME ~astray', Honest, Told PROVE Told'
    <2>1. ~Wrote(r) /\ ~Off(r)
      BY <1>1, <1>5 DEF Wrote, Off
    <2>2. QED
      BY <1>1, <1>3, <1>4, <1>5, <2>1, ToldSame
  <1>6. QED
    BY <1>1, <1>3, <1>4, <1>5, ServerTruth

\* What a request writes is what the toggle shows, or will show.
LEMMA WriteTold ==
  ASSUME KnownInv, Honest, Told, NEW s \in Slots, net[s] # None,
         net[s].stage = "read",
         NEW q, q # None, q.op = net[s].op, q.from = net[s].from, ui' = ui,
         net' = [net EXCEPT ![s] = q],
         q.stage = IF q.op \in {"setup", "password"} THEN "served" ELSE "written",
         q.op = "setup" \/ q.op = "disable" => ~row'.enabled,
         q.op = "confirm" => row'.enabled,
         q.op = "password" => (row'.enabled <=> net[s].copy.enabled)
  PROVE  Told'
  <1>1. net'[s] = q /\ \A x \in Slots \ {s} : net'[x] = net[x]
    BY Known
  <1>2. net[s] \in Requests /\ ToldOf(net[s])
    BY Known DEF Told
  <1>3. q.op \in {"setup", "confirm", "disable", "password"}
    BY <1>2 DEF ToldOf, Requests, Ops
  <1>4. CASE q.op = "setup"
    <2>1. ~row'.enabled /\ ~ui.shown /\ ~Wrote(q) /\ ~Off(q) /\ ui.step # "recovery"
      BY <1>2, <1>4 DEF ToldOf, Wrote, Off, Honest, Recovery
    <2>2. \A x \in Slots \ {s} : net[x] # None /\ Wrote(net[x]) =>
                                   net[x].from # "modal"
      BY <1>2, <1>4 DEF Honest, Alone, Submitted, Wrote, Told, ToldOf
    <2>3. ToldOf(q)'
      BY <1>2, <1>4, <2>1 DEF ToldOf, Wrote, Off
    <2>4. \A x \in Slots \ {s} : net[x] # None => ToldOf(net[x])'
      BY <2>1, <2>2 DEF Told, ToldOf, Wrote, Off
    <2>5. \A x \in Slots : net'[x] # None => ToldOf(net[x])'
      BY <1>1, <2>3, <2>4 DEF ToldOf, Wrote, Off
    <2>6. QED
      BY <2>1, <2>5 DEF Told
  <1>5. CASE q.op # "setup"
    <2>1. /\ \A x \in Slots \ {s} : net[x] # None => net[x].op = "setup"
          /\ ui.step # "recovery"
      BY <1>3, <1>5, Others DEF Submitted
    <2>2. \A x \in Slots \ {s} : net[x] # None => ToldOf(net[x])'
      BY <2>1 DEF Told, ToldOf, Wrote, Off
    <2>3. ToldOf(q)'
      BY <1>2, <1>3, <1>5 DEF ToldOf, Wrote, Off
    <2>4. \A x \in Slots : net'[x] # None => ToldOf(net[x])'
      BY <1>1, <2>2, <2>3 DEF ToldOf, Wrote, Off
    <2>5. q.op = "password" => (row'.enabled <=> ui'.shown)
      BY <1>2 DEF ToldOf
    <2>6. q.op # "password" => Wrote(q) \/ Off(q)
      BY <1>3, <1>5 DEF Wrote, Off
    <2>7. QED
      BY <1>1, <2>1, <2>4, <2>5, <2>6 DEF Told, Wrote, Off
  <1>6. QED
    BY <1>4, <1>5

LEMMA WriteTruth ==
  ASSUME KnownInv, Truth, NEW s \in Slots, Write(s)
  PROVE  Truth'
  <1> DEFINE r == net[s]
             w == Changed(r)
             a == [r EXCEPT !.stage = "served", !.ok = TRUE, !.copy = w]
             b == [r EXCEPT !.stage = "written", !.copy = w]
             q == IF r.op \in {"setup", "password"} THEN a ELSE b
  <1>1. /\ r # None /\ r.stage = "read" /\ row' = w /\ ui' = ui
        /\ r.op = "setup" => made.secrets < MaxSecrets
        /\ UNCHANGED <<codes, astray>>
        /\ net' = [net EXCEPT ![s] = q]
    BY DEF Write, Step
  <1>2. r \in Requests /\ Staged(r)
    BY <1>1, Known DEF Truth, AllStaged
  <1>3. r.op # "me" /\ r.op \in Ops /\ r.copy \in Rows
    BY <1>1, <1>2 DEF Staged, Requests
  <1>4. /\ r.op = "setup" \/ r.op = "disable" => ~w.enabled
        /\ r.op = "confirm" => w.enabled
        /\ r.op = "password" => w = r.copy
    BY <1>3 DEF Changed, Rows
  <1>5. w \in Rows
    <2>1. /\ r.op = "setup" => made.secrets + 1 \in Secrets
      BY <1>1, Known DEF Secrets
    <2>2. QED
      BY <1>3, <2>1 DEF Changed, Rows, NoSecret
  <1> HIDE DEF w
  <1>6. /\ q \in Requests /\ q.op = r.op /\ q.from = r.from
        /\ q.stage = IF r.op \in {"setup", "password"} THEN "served" ELSE "written"
        /\ q.ok => r.ok \/ q.stage = "served"
        /\ r.op = "confirm" => q.ok = r.ok
    BY <1>2, <1>5 DEF Requests
  <1> HIDE DEF q
  <1>7. ~r.ok /\ Staged(q) /\ q # None
    BY <1>1, <1>2, <1>3, <1>6 DEF Staged, Ops
  <1>8. ASSUME Honest, Told PROVE Told'
    BY <1>1, <1>4, <1>6, <1>7, <1>8, WriteTold
  <1>9. QED
    BY <1>1, <1>6, <1>7, <1>8, ServerTruth

LEMMA ClearTruth ==
  ASSUME KnownInv, Truth, NEW s \in Slots, Clear(s)
  PROVE  Truth'
  <1> DEFINE r == net[s]
             q == IF r.op = "confirm" THEN [r EXCEPT !.stage = "cleared"]
                  ELSE [r EXCEPT !.stage = "served", !.ok = TRUE]
  <1>1. /\ r # None /\ r.stage = "written" /\ net' = [net EXCEPT ![s] = q]
        /\ UNCHANGED <<row, made, astray, ui>>
    BY DEF Clear, Step
  <1>2. r \in Requests /\ Staged(r)
    BY <1>1, Known DEF Truth, AllStaged
  <1>3. r.op \in {"confirm", "disable"} /\ ~r.ok
    BY <1>1, <1>2 DEF Staged
  <1>4. /\ q \in Requests /\ q.op = r.op /\ q.from = r.from
        /\ r.op = "confirm" => q.stage = "cleared" /\ q.ok = r.ok
        /\ r.op # "confirm" => q.stage = "served" /\ q.ok
    BY <1>2 DEF Requests
  <1> HIDE DEF q
  <1>5. Staged(q) /\ q # None /\ (Wrote(q) <=> Wrote(r)) /\ (Off(q) <=> Off(r))
    BY <1>1, <1>3, <1>4 DEF Staged, Wrote, Off
  <1>6. ASSUME Honest, Told PROVE Told'
    BY <1>1, <1>3, <1>4, <1>5, <1>6, ToldSame
  <1>7. QED
    BY <1>1, <1>3, <1>4, <1>5, <1>6, ServerTruth DEF Submitted

LEMMA GenerateTruth ==
  ASSUME KnownInv, Truth, NEW s \in Slots, Generate(s)
  PROVE  Truth'
  <1> DEFINE r == net[s]
             n == made.batches + 1
             q == [r EXCEPT !.stage = "served", !.ok = TRUE, !.batch = n]
  <1>1. /\ r # None /\ r.stage = "cleared" /\ made.batches < MaxBatches
        /\ made' = [made EXCEPT !.batches = n]
        /\ codes' = codes \cup {made'.batches}
        /\ net' = [net EXCEPT ![s] = [r EXCEPT !.stage = "served", !.ok = TRUE,
                                               !.batch = made'.batches]]
        /\ UNCHANGED <<row, astray, ui>>
    BY DEF Generate, Step
  <1>2. r \in Requests /\ Staged(r)
    BY <1>1, Known DEF Truth, AllStaged
  <1>3. made'.batches = n /\ n \in Batches
    BY <1>1, Known DEF Batches
  <1>4. net' = [net EXCEPT ![s] = q] /\ n \in codes'
    BY <1>1, <1>3
  <1>5. /\ q \in Requests /\ q.op = r.op /\ q.from = r.from
        /\ q.stage = "served" /\ q.ok /\ q.batch = n
    <2> HIDE DEF n
    <2>1. QED
      BY <1>2, <1>3 DEF Requests
  <1> HIDE DEF q, n
  <1>6. r.op = "confirm"
    BY <1>1, <1>2 DEF Staged
  <1>7. Staged(q) /\ q # None /\ (Wrote(q) <=> Wrote(r)) /\ (Off(q) <=> Off(r))
    BY <1>1, <1>5, <1>6 DEF Staged, Wrote, Off
  <1>8. ASSUME Honest, Told PROVE Told'
    BY <1>1, <1>4, <1>5, <1>6, <1>7, <1>8, ToldSame
  <1>9. QED
    BY <1>1, <1>4, <1>5, <1>7, <1>8, ServerTruth

-----------------------------------------------------------------------------
(* The answers keep the tab honest.                                        *)

LEMMA TakenSlots ==
  ASSUME KnownInv, NEW s \in Slots, Taken(s)
  PROVE  net'[s] = None /\ \A x \in Slots \ {s} : net'[x] = net[x]
  BY Known DEF Taken

LEMMA AgedItself == ASSUME NEW r PROVE Aged(r, r)
  BY DEF Aged

\* An answer to a request that nobody waits for.
LEMMA UnheardTruth ==
  ASSUME KnownInv, Truth, NEW s \in Slots, net[s] # None, Taken(s),
         net[s].from = "nobody", UNCHANGED <<row, codes, ui>>,
         ~astray' => ~astray
  PROVE  Truth'
  <1>1. net'[s] = None /\ \A x \in Slots \ {s} : net'[x] = net[x]
    BY TakenSlots
  <1>2. AllStaged'
    BY <1>1 DEF Truth, AllStaged
  <1> SUFFICES ASSUME ~astray' PROVE Honest'
    BY <1>2 DEF Truth
  <1>3. Honest /\ ~Told
    BY DEF Truth, Told, ToldOf
  <1>4. Alone' /\ Linked' /\ Recovery' /\ Stored'
    BY <1>1, <1>3 DEF Honest, Alone, Linked, Recovery, Stored
  <1>5. Asking => Asking'
    BY <1>1 DEF Asking
  <1>6. QED
    BY <1>3, <1>4, <1>5 DEF Honest

LEMMA AnswerMeTruth ==
  ASSUME KnownInv, Truth, NEW s \in Slots, AnswerMe(s)
  PROVE  Truth'
  <1>1. /\ net[s] # None /\ net[s].op = "me" /\ Taken(s)
        /\ UNCHANGED <<row, codes>>
    BY DEF AnswerMe, Answered
  <1>2. net'[s] = None /\ \A x \in Slots \ {s} : net'[x] = net[x]
    BY <1>1, TakenSlots
  <1>3. CASE net[s].from = "nobody"
    <2>1. UNCHANGED <<ui, astray>>
      BY <1>3 DEF AnswerMe
    <2>2. QED
      BY <1>1, <1>3, <2>1, UnheardTruth
  <1>4. CASE net[s].from # "nobody"
    <2>1. /\ ui' = [ui EXCEPT !.shown = net[s].copy.enabled]
          /\ astray' = \/ net[s].copy.enabled # row.enabled
                       \/ ui.step = "recovery"
                       \/ \E x \in Slots \ {s} : net[x] # None
      BY <1>4 DEF AnswerMe
    <2>2. AllStaged'
      BY <1>2 DEF Truth, AllStaged
    <2>3. CASE astray'
      BY <2>2, <2>3 DEF Truth
    <2>4. CASE ~astray'
      <3>1. /\ net[s].copy.enabled = row.enabled /\ ui.step # "recovery"
            /\ \A x \in Slots \ {s} : net[x] = None
        BY <2>1, <2>4
      <3>2. ui'.shown = net[s].copy.enabled /\ ui'.step = ui.step
        BY <2>1, Known DEF UIs
      <3>3. /\ \A x \in Slots : net'[x] = None
            /\ ui'.step # "recovery" /\ row'.enabled = ui'.shown
        BY <1>1, <1>2, <3>1, <3>2
      <3>4. QED
        BY <3>3, QuietTruth
    <2>5. QED
      BY <2>3, <2>4
  <1>5. QED
    BY <1>3, <1>4

\* A request that has changed nothing in the row is over for its dialogue.
LEMMA OverTruth ==
  ASSUME KnownInv, Truth, NEW s \in Slots, net[s] # None, Taken(s),
         net[s].op # "me", ~Wrote(net[s]), ~Off(net[s]),
         UNCHANGED <<row, codes>>, ~astray' => ~astray,
         ui'.shown = ui.shown, ui'.signedIn = ui.signedIn,
         ui'.step \in {ui.step, "scan"},
         \/ net[s].op \in Submitted
         \/ ui'.submitting = ui.submitting /\ ui'.open = ui.open
  PROVE  Truth'
  <1>1. net'[s] = None /\ \A x \in Slots \ {s} : net'[x] = net[x]
    BY TakenSlots
  <1>2. CASE astray'
    BY <1>1, <1>2 DEF Truth, AllStaged
  <1>3. CASE ~astray'
    <2>1. ui.step # "recovery"
      BY <1>3 DEF Truth, Honest, Recovery
    <2>2. ui'.step # "recovery"
      BY <2>1
    <2>3. \A x \in Slots : net'[x] # None => net[x] # None /\ Aged(net[x], net'[x])
      BY <1>1, AgedItself
    <2>4. \A x \in Slots : net[x] # None /\ net'[x] = None =>
            net[x].op # "me" /\ ~Wrote(net[x]) /\ ~Off(net[x])
      BY <1>1
    <2>5. \/ ui'.submitting = ui.submitting /\ ui'.open = ui.open
          \/ \E x \in Slots : /\ net[x] # None /\ net[x].op \in Submitted
                              /\ net'[x] = None
      BY <1>1
    <2>6. QED
      BY <2>1, <2>2, <2>3, <2>4, <2>5, GoneTruth
  <1>4. QED
    BY <1>2, <1>3

\* The dialogue that sets up is closed by the failure of its first request.
LEMMA SetupFailsTruth ==
  ASSUME KnownInv, Truth, NEW s \in Slots, net[s] # None, net[s].op = "setup",
         ui' = Closed(ui), net' = [Leave(net, "page") EXCEPT ![s] = None],
         UNCHANGED <<row, codes>>, ~astray' => ~astray
  PROVE  Truth'
  <1> DEFINE n == Leave(net, "page")
  <1>1. n \in [Slots -> Requests \cup {None}]
    BY LeaveType, Known
  <1>2. net'[s] = None /\ \A x \in Slots \ {s} : net'[x] = n[x]
    BY <1>1
  <1>3. \A x \in Slots : net[x] # None =>
          n[x] # None /\ Aged(net[x], n[x]) /\ n[x].from # "modal"
    BY LeaveAges, Known
  <1>4. \A x \in Slots : net[x] = None => n[x] = None
    BY LeaveNone, Known
  <1> HIDE DEF n
  <1>5. \A x \in Slots : net'[x] # None =>
          /\ net[x] # None /\ Aged(net[x], net'[x]) /\ net'[x].from # "modal"
    BY <1>2, <1>3, <1>4
  <1>6. \A x \in Slots : net[x] # None /\ net'[x] = None =>
          net[x].op # "me" /\ ~Wrote(net[x]) /\ ~Off(net[x])
    BY <1>2, <1>3 DEF Wrote, Off
  <1>7. /\ ui'.shown = ui.shown /\ ui'.signedIn = ui.signedIn
        /\ ui'.step \in {ui.step, "scan"}
    BY ClosedFields, Known
  <1>8. CASE astray'
    BY <1>5, <1>8, AgedSame DEF Truth, AllStaged
  <1>9. CASE ~astray'
    <2>1. ui.step # "recovery"
      BY <1>9 DEF Truth, Honest, Recovery
    <2>2. QED
      BY <1>5, <1>6, <1>7, <2>1, GoneTruth
  <1>10. QED
    BY <1>8, <1>9

LEMMA AnswerSetupTruth ==
  ASSUME KnownInv, Truth, NEW s \in Slots, AnswerSetup(s)
  PROVE  Truth'
  <1>1. /\ net[s] # None /\ net[s].op = "setup" /\ UNCHANGED <<row, codes, astray>>
    BY DEF AnswerSetup, Answered
  <1>2. CASE net[s].from = "modal" /\ ~net[s].ok
    BY <1>1, <1>2, SetupFailsTruth DEF AnswerSetup
  <1>3. CASE ~(net[s].from = "modal" /\ ~net[s].ok)
    <2>1. /\ Taken(s)
          /\ ui' = ui \/ ui' = [ui EXCEPT !.secret = net[s].copy.secret]
      BY <1>3 DEF AnswerSetup
    <2>2. /\ ui'.shown = ui.shown /\ ui'.signedIn = ui.signedIn
          /\ ui'.step = ui.step /\ ui'.submitting = ui.submitting
          /\ ui'.open = ui.open
      BY <2>1, Known DEF UIs
    <2>3. ~Wrote(net[s]) /\ ~Off(net[s])
      BY <1>1 DEF Wrote, Off
    <2>4. QED
      BY <1>1, <2>1, <2>2, <2>3, OverTruth
  <1>4. QED
    BY <1>2, <1>3

LEMMA AnswerConfirmTruth ==
  ASSUME KnownInv, Truth, NEW s \in Slots, AnswerConfirm(s)
  PROVE  Truth'
  <1>1. /\ net[s] # None /\ net[s].op = "confirm" /\ net[s].stage = "served"
        /\ Taken(s) /\ UNCHANGED <<row, codes>>
        /\ ~astray' => ~astray /\ ~(net[s].ok /\ net[s].from # "modal")
    BY DEF AnswerConfirm, Answered
  <1>2. net'[s] = None /\ \A x \in Slots \ {s} : net'[x] = net[x]
    BY <1>1, TakenSlots
  <1>3. CASE astray'
    BY <1>2, <1>3 DEF Truth, AllStaged
  <1>4. CASE ~astray' /\ net[s].from = "nobody"
    <2>1. ui' = ui
      BY <1>4 DEF AnswerConfirm
    <2>2. QED
      BY <1>1, <1>4, <2>1, UnheardTruth
  <1>5. CASE ~astray' /\ net[s].from # "nobody"
    <2> DEFINE sub == IF ui.open = "setup" THEN FALSE ELSE ui.submitting
               stp == IF net[s].ok THEN "recovery" ELSE ui.step
               bat == IF net[s].ok THEN net[s].batch ELSE ui.batch
    <2>1. ui' = [ui EXCEPT !.submitting = sub, !.step = stp, !.batch = bat]
      BY <1>5 DEF AnswerConfirm
    <2>2. /\ ui'.shown = ui.shown /\ ui'.signedIn = ui.signedIn
          /\ ui'.step = stp /\ ui'.batch = bat /\ ui'.open = ui.open
      <3> HIDE DEF sub, stp, bat
      <3>1. QED
        BY <2>1, Known DEF UIs
    <2>3. CASE ~net[s].ok
      <3>1. ~Wrote(net[s]) /\ ~Off(net[s]) /\ net[s].op \in Submitted
        BY <1>1, <2>3 DEF Wrote, Off, Submitted
      <3>2. ui'.step = ui.step
        BY <2>2, <2>3
      <3>3. QED
        BY <1>1, <1>5, <2>2, <3>1, <3>2, OverTruth
    <2>4. CASE net[s].ok
      <3>1. /\ ui'.step = "recovery" /\ ui'.batch = net[s].batch
            /\ net[s].from = "modal" /\ Honest
        BY <1>1, <1>5, <2>2, <2>4 DEF Truth
      <3>2. \A x \in Slots \ {s} : net[x] # None => net[x].op = "me"
        BY <1>1, <3>1 DEF Honest, Alone, Submitted
      <3>3. ui.open = "setup" /\ net[s].batch \in codes
        BY <1>1, <2>4, <3>1 DEF Honest, Linked, Stored, Submitted, DialogueOf
      <3>4. AllStaged'
        BY <1>2 DEF Truth, AllStaged
      <3>5. \A x \in Slots : net'[x] # None => net'[x].op = "me"
        BY <1>2, <3>2
      <3>6. Recovery' /\ Alone' /\ Linked' /\ Stored'
        BY <1>1, <2>2, <3>1, <3>3, <3>5
           DEF Recovery, Alone, Linked, Stored, Submitted
      <3>7. Asking => Asking'
        BY <1>1, <1>2 DEF Asking
      <3>8. ASSUME Told PROVE Told'
        <4>1. row.enabled
          BY <1>1, <2>4, <3>1, <3>8 DEF Told, ToldOf, Wrote
        <4>2. \A x \in Slots : net'[x] = None
          BY <1>2, <3>2, <3>8 DEF Told, ToldOf
        <4>3. QED
          BY <1>1, <3>1, <4>1, <4>2 DEF Told
      <3>9. QED
        BY <2>2, <3>1, <3>4, <3>6, <3>7, <3>8 DEF Truth, Honest
    <2>5. QED
      BY <2>3, <2>4
  <1>6. QED
    BY <1>3, <1>4, <1>5

LEMMA AnswerDisableTruth ==
  ASSUME KnownInv, Truth, NEW s \in Slots, AnswerDisable(s)
  PROVE  Truth'
  <1>1. /\ net[s] # None /\ net[s].op = "disable" /\ net[s].stage = "served"
        /\ Taken(s) /\ UNCHANGED <<row, codes, astray>>
    BY DEF AnswerDisable, Answered
  <1>2. net'[s] = None /\ \A x \in Slots \ {s} : net'[x] = net[x]
    BY <1>1, TakenSlots
  <1>3. CASE net[s].from = "nobody"
    <2>1. ui' = ui
      BY <1>3 DEF AnswerDisable
    <2>2. QED
      BY <1>1, <1>3, <2>1, UnheardTruth
  <1>4. CASE net[s].from # "nobody" /\ ~net[s].ok
    <2> DEFINE sub == IF ui.open = "disable" THEN FALSE ELSE ui.submitting
    <2>1. ui' = [ui EXCEPT !.submitting = sub]
      BY <1>4 DEF AnswerDisable
    <2> HIDE DEF sub
    <2>2. /\ ui'.shown = ui.shown /\ ui'.signedIn = ui.signedIn
          /\ ui'.step = ui.step
      BY <2>1, Known DEF UIs
    <2>3. ~Wrote(net[s]) /\ ~Off(net[s]) /\ net[s].op \in Submitted
      BY <1>1, <1>4 DEF Wrote, Off, Submitted
    <2>4. QED
      BY <1>1, <2>2, <2>3, OverTruth
  <1>5. CASE net[s].from # "nobody" /\ net[s].ok
    <2> DEFINE u == IF ui.open = "disable" THEN Closed(ui) ELSE ui
    <2>1. ui' = [u EXCEPT !.shown = FALSE]
      BY <1>5 DEF AnswerDisable
    <2>2. u \in UIs /\ u.signedIn = ui.signedIn /\ u.step \in {ui.step, "scan"}
      BY ClosedFields, ClosedType, Known
    <2> HIDE DEF u
    <2>3. ~ui'.shown /\ ui'.signedIn = ui.signedIn /\ ui'.step \in {ui.step, "scan"}
      BY <2>1, <2>2 DEF UIs
    <2>4. AllStaged'
      BY <1>2 DEF Truth, AllStaged
    <2> SUFFICES ASSUME ~astray' PROVE Honest'
      BY <2>4 DEF Truth
    <2>5. Honest /\ ui.step # "recovery"
      BY <1>1 DEF Truth, Honest, Recovery
    <2>6. \A x \in Slots \ {s} : net[x] # None /\ net[x].op # "me"
            => net[x].op = "setup"
      BY <1>1, <1>5, <2>5 DEF Honest, Alone, Submitted
    <2>7. \A x \in Slots : net'[x] # None => net'[x].op \in {"me", "setup"}
      BY <1>2, <2>6
    <2>8. Alone' /\ Linked' /\ Stored' /\ Recovery'
      BY <2>3, <2>5, <2>7 DEF Alone, Linked, Stored, Recovery, Submitted
    <2>9. Asking => Asking'
      BY <1>1, <1>2 DEF Asking
    <2>10. ASSUME Told PROVE Told'
      <3>1. ~row.enabled
        BY <1>1, <1>5, <2>10 DEF Told, ToldOf, Off
      <3>2. \A x \in Slots \ {s} : net[x] # None => ToldOf(net[x])'
        BY <1>1, <1>2, <2>3, <2>6, <2>10 DEF Told, ToldOf, Wrote, Off
      <3>3. \A x \in Slots : net'[x] # None => ToldOf(net[x])'
        BY <1>2, <3>2 DEF ToldOf, Wrote, Off
      <3>4. QED
        BY <1>1, <2>3, <2>5, <3>1, <3>3 DEF Told
    <2>11. QED
      BY <2>3, <2>5, <2>8, <2>9, <2>10 DEF Honest
  <1>6. QED
    BY <1>3, <1>4, <1>5

LEMMA AnswerPasswordTruth ==
  ASSUME KnownInv, Truth, NEW s \in Slots, AnswerPassword(s)
  PROVE  Truth'
  <1>1. /\ net[s] # None /\ net[s].op = "password" /\ Taken(s)
        /\ UNCHANGED <<row, codes, astray>>
        /\ \/ ui' = ui \/ ui' = Closed(ui)
           \/ ui' = [ui EXCEPT !.submitting = FALSE]
    BY DEF AnswerPassword, Answered
  <1>2. /\ ui'.shown = ui.shown /\ ui'.signedIn = ui.signedIn
        /\ ui'.step \in {ui.step, "scan"}
    <2>1. CASE ui' = Closed(ui)
      BY <2>1, ClosedFields, Known
    <2>2. CASE ui' = ui \/ ui' = [ui EXCEPT !.submitting = FALSE]
      BY <2>2, Known DEF UIs
    <2>3. QED
      BY <1>1, <2>1, <2>2
  <1>3. ~Wrote(net[s]) /\ ~Off(net[s]) /\ net[s].op \in Submitted
    BY <1>1 DEF Wrote, Off, Submitted
  <1>4. QED
    BY <1>1, <1>2, <1>3, OverTruth

LEMMA LoseAnswerTruth ==
  ASSUME KnownInv, Truth, NEW s \in Slots, LoseAnswer(s)
  PROVE  Truth'
  <1> DEFINE n == IF net[s].op = "setup" /\ net[s].from = "modal"
                  THEN Leave(net, "page") ELSE net
  <1>1. /\ net[s] # None /\ net' = [n EXCEPT ![s] = None]
        /\ astray' = (astray \/ net[s].op \in {"me", "confirm", "disable"})
        /\ UNCHANGED <<row, codes>>
    BY DEF LoseAnswer
  <1>2. net[s] \in Requests
    BY <1>1, Known
  <1>3. CASE net[s].op = "setup" /\ net[s].from = "modal"
    <2>1. ui' = Closed(ui) /\ net' = [Leave(net, "page") EXCEPT ![s] = None]
      BY <1>1, <1>3 DEF LoseAnswer
    <2>2. ~astray' => ~astray
      BY <1>1
    <2>3. QED
      BY <1>1, <1>3, <2>1, <2>2, SetupFailsTruth
  <1>4. CASE ~(net[s].op = "setup" /\ net[s].from = "modal")
    <2>1. Taken(s)
      BY <1>1, <1>4 DEF Taken
    <2>2. \/ ui' = ui
          \/ net[s].op # "setup" /\ ui' = [ui EXCEPT !.submitting = FALSE]
      BY <1>4 DEF LoseAnswer
    <2>3. /\ ui'.shown = ui.shown /\ ui'.signedIn = ui.signedIn
          /\ ui'.step = ui.step
          /\ \/ net[s].op # "setup"
             \/ ui'.submitting = ui.submitting /\ ui'.open = ui.open
      BY <2>2, Known DEF UIs
    <2>4. CASE net[s].op \in {"me", "confirm", "disable"}
      <3>1. astray'
        BY <1>1, <2>4
      <3>2. AllStaged'
        BY <2>1, TakenSlots DEF Truth, AllStaged
      <3>3. QED
        BY <3>1, <3>2 DEF Truth
    <2>5. CASE net[s].op \in {"setup", "password"}
      <3>1. ~Wrote(net[s]) /\ ~Off(net[s])
        BY <2>5 DEF Wrote, Off
      <3>2. net[s].op # "me" /\ (net[s].op # "setup" => net[s].op \in Submitted)
        BY <2>5 DEF Submitted
      <3>3. ~astray' => ~astray
        BY <1>1
      <3>4. QED
        BY <1>1, <2>1, <2>3, <3>1, <3>2, <3>3, OverTruth
    <2>6. QED
      BY <1>2, <2>4, <2>5 DEF Requests, Ops
  <1>5. QED
    BY <1>3, <1>4

-----------------------------------------------------------------------------
LEMMA InitTruth == ASSUME Init PROVE Truth
  <1>1. ~ui.signedIn /\ ui.step = "scan" /\ \A s \in Slots : net[s] = None
    BY DEF Init, SignedOut
  <1>2. QED
    BY <1>1 DEF Truth, AllStaged, Honest, Alone, Linked, Recovery, Stored

LEMMA NextTruth == ASSUME KnownInv, Truth, [Next]_vars PROVE Truth'
  <1>1. CASE Admin
    <2>1. CASE Logout \/ OpenOther \/ Scan \/ CloseModal \/ FinishSetup
      BY <2>1, LogoutTruth, OpenOtherTruth, ScanTruth, CloseTruth, FinishTruth
    <2>2. ASSUME NEW s \in Slots,
                 Login(s) \/ ReloadPage(s) \/ OpenSetup(s) \/ Submit(s)
          PROVE  Truth'
      BY <2>2, HydrateTruth, OpenSetupTruth, SubmitTruth DEF Login, ReloadPage
    <2>3. QED
      BY <1>1, <2>1, <2>2 DEF Admin
  <1>2. CASE Server
    BY <1>2, ReadTruth, RefuseTruth, WriteTruth, ClearTruth, GenerateTruth
       DEF Server
  <1>3. CASE Answer
    BY <1>3, AnswerMeTruth, AnswerSetupTruth, AnswerConfirmTruth,
       AnswerDisableTruth, AnswerPasswordTruth, LoseAnswerTruth DEF Answer
  <1>4. CASE UNCHANGED vars
    BY <1>4 DEF vars, Truth, AllStaged, Honest, Alone, Linked, Recovery, Stored,
                Asking, Told, ToldOf, Wrote, Off
  <1>5. QED
    BY <1>1, <1>2, <1>3, <1>4 DEF Next

LEMMA AlwaysTruth == Spec => [](KnownInv /\ Truth)
  <1>1. Init => KnownInv /\ Truth
    BY InitKnown, InitTruth
  <1>2. KnownInv /\ Truth /\ [Next]_vars => KnownInv' /\ Truth'
    BY NextKnown, NextTruth
  <1>3. QED
    BY <1>1, <1>2, PTL DEF Spec

\* With nothing under way and no dialogue open the toggle shows the row, the
\* named exceptions apart, for any number of requests at a time.
THEOREM ToggleShowsTheRow == Spec => []ToggleIsTruthful
  <1>1. KnownInv /\ Truth => ToggleIsTruthful
    <2> SUFFICES ASSUME KnownInv, Truth, ui.signedIn, ui.open = "none", ~astray,
                        \A s \in Slots : net[s] = None
                 PROVE  ui.shown = row.enabled
      BY DEF ToggleIsTruthful
    <2>1. Told /\ ui.step # "recovery"
      BY DEF Truth, Honest, Asking, Recovery
    <2>2. row.enabled <=> ui.shown
      BY <2>1 DEF Told
    <2>3. row.enabled \in BOOLEAN /\ ui.shown \in BOOLEAN
      BY Known DEF Rows, UIs
    <2>4. QED
      BY <2>2, <2>3
  <1>2. QED
    BY <1>1, AlwaysTruth, PTL

\* The recovery codes on the screen are stored, with the same exceptions.
THEOREM ShownCodesAreStored == Spec => []CodesShownWork
  <1>1. Truth => CodesShownWork
    BY DEF Truth, Honest, Recovery, CodesShownWork
  <1>2. QED
    BY <1>1, AlwaysTruth, PTL

-----------------------------------------------------------------------------
(***************************************************************************)
(* The other part of the tab that runs in the administrator's browser: the *)
(* store and the clients page of WebPanel, for any clients, inbounds and   *)
(* number of requests under way.                                           *)
(***************************************************************************)
USE PanelAssumption, NilAssumption DEF PanelAssumption

\* The variables in groups.
ServerOK ==
  /\ table \in [Clients -> Statuses \cup {"gone"}] /\ inbounds \subseteq Inbounds
  /\ edits \in 0..MaxEdits /\ missed \in 0..MaxMissed

\* A request under way: an answer is of the kind its request asks for.
Sound(r) ==
  /\ r \in Calls
  /\ r.lists # Nil => r.op = "load"
  /\ r.stage = "done" => r.then # "none"
  /\ (r.op = "load" /\ r.stage = "served") => r.lists \in Lists
  /\ r.op = "bulk" => r.body \in BulkActions
  /\ r.op = "edit" => r.body \in Statuses

NetOK ==
  /\ calls = [s \in Lanes |-> calls[s]]
  /\ \A s \in Lanes : calls[s] # Nil => Sound(calls[s])

ShownOK ==
  /\ shown.clients \in [Clients -> Statuses \cup {"gone"}]
  /\ shown.inbounds \subseteq Inbounds
  /\ shown \in Lists

PageOK ==
  /\ page \in [filter : Filters, selected : SUBSET Clients,
               failures : SUBSET Clients, running : BOOLEAN]
  /\ page.failures # {} => page.failures = page.selected

FormOK == form \in Forms \cup {Nil}

\* The inductive invariant.
PanelInv == ServerOK /\ NetOK /\ ShownOK /\ PageOK /\ FormOK /\ AddFormFits
-----------------------------------------------------------------------------
(* Requests.                                                              *)

LEMMA SlotStep ==
  ASSUME NetOK, NEW s \in Lanes, NEW r, r = Nil \/ Sound(r),
         calls' = [calls EXCEPT ![s] = r]
  PROVE  NetOK'
  BY DEF NetOK

LEMMA NetSame == ASSUME NetOK, UNCHANGED calls PROVE NetOK'
  BY DEF NetOK

LEMMA NewRequest ==
  ASSUME NEW op \in {"load", "bulk", "edit", "add"}, NEW ids \in SUBSET Clients,
         NEW body \in Statuses \cup BulkActions \cup {"none"},
         NEW from \in {"form", "page", "nobody"},
         op = "bulk" => body \in BulkActions, op = "edit" => body \in Statuses
  PROVE  /\ Sound(Call(op, ids, body, from))
         /\ Call(op, ids, body, from).ids = ids
         /\ Call(op, ids, body, from).op = op
  BY DEF Call, Calls, Sound

LEMMA SentStep ==
  ASSUME NetOK, NEW s \in Lanes, NEW r, Sound(r), StartCall(s, r)
  PROVE  NetOK'
  BY SlotStep DEF StartCall

\* The reload that an operation waits for.
LEMMA NewReload ==
  ASSUME NEW op \in {"bulk", "edit", "add"}, NEW ids \in SUBSET Clients,
         NEW from \in {"form", "page", "nobody"}
  PROVE  Sound([Call("load", ids, "none", from) EXCEPT !.then = op])
  BY DEF Call, Calls, Sound

LEMMA Disowned ==
  ASSUME NEW r, r = Nil \/ Sound(r), NEW who \in {{"form"}, {"form", "page"}}
  PROVE  Disown(r, who) = Nil \/ Sound(Disown(r, who))
  <1>1. CASE r = Nil
    BY <1>1 DEF Disown
  <1>2. CASE r # Nil
    <2>1. \A w \in {"page", "nobody"} : Sound([r EXCEPT !.from = w])
      BY <1>2 DEF Sound, Calls
    <2>2. QED
      BY <1>2, <2>1 DEF Disown
  <1>3. QED
    BY <1>1, <1>2

LEMMA DisownStep ==
  ASSUME NetOK, NEW who \in {{"form"}, {"form", "page"}},
         calls' = [s \in Lanes |-> Disown(calls[s], who)]
  PROVE  NetOK'
  <1>1. \A s \in Lanes : calls'[s] = Nil \/ Sound(calls'[s])
    BY Disowned DEF NetOK
  <1>2. QED
    BY <1>1 DEF NetOK

-----------------------------------------------------------------------------
(* The server.                                                             *)

LEMMA ServeStep ==
  ASSUME ServerOK, NetOK, NEW s \in Lanes, Serve(s)
  PROVE  ServerOK' /\ NetOK'
  <1>1. /\ calls[s] # Nil /\ calls[s].stage = "sent" /\ Sound(calls[s])
        /\ UNCHANGED <<inbounds, shown, page, form, edits, missed>>
    BY DEF Serve, NetOK
  <1> DEFINE r == calls[s]
  <1>2. r.op = "load" \/ r.lists = Nil
    BY <1>1 DEF Sound
  <1>3. CASE ServeLoad(s)
    <2> DEFINE l == [clients |-> table, inbounds |-> inbounds]
               q == [r EXCEPT !.stage = "served", !.lists = l]
    <2>1. l \in Lists
      BY DEF ServerOK, Lists
    <2>2. r.op = "load" /\ UNCHANGED table
      BY <1>3 DEF ServeLoad
    <2>3. Sound(q)
      BY <1>1, <2>1, <2>2 DEF Sound, Calls
    <2>4. calls' = [calls EXCEPT ![s] = q]
      BY <1>3 DEF ServeLoad, NetOK
    <2>5. QED
      BY <1>1, <2>2, <2>3, <2>4, SlotStep DEF ServerOK
  <1>4. ASSUME r.op # "load", UNCHANGED table,
               calls' = [calls EXCEPT ![s].stage = "served", ![s].failed = TRUE]
        PROVE  ServerOK' /\ NetOK'
    <2> DEFINE q == [r EXCEPT !.stage = "served", !.failed = TRUE]
    <2>1. Sound(q)
      BY <1>1, <1>2, <1>4 DEF Sound, Calls
    <2>2. calls' = [calls EXCEPT ![s] = q]
      BY <1>4 DEF NetOK
    <2>3. QED
      BY <1>1, <1>4, <2>1, <2>2, SlotStep DEF ServerOK
  <1>5. CASE ServeBulk(s)
    <2>1. r.op = "bulk"
      BY <1>5 DEF ServeBulk
    <2>2. ASSUME NEW bad \in SUBSET r.ids,
                 table' = [c \in Clients |->
                             IF c \in r.ids \ bad
                             THEN Outcome(r.body, table[c]) ELSE table[c]],
                 calls' = [calls EXCEPT ![s].stage = "served", ![s].ids = bad]
          PROVE  ServerOK' /\ NetOK'
      <3> DEFINE q == [r EXCEPT !.stage = "served", !.ids = bad]
      <3>1. Sound(q)
        BY <1>1, <1>2, <2>1 DEF Sound, Calls
      <3>2. calls' = [calls EXCEPT ![s] = q]
        BY <2>2 DEF NetOK
      <3>3. \A c \in Clients :
              Outcome(r.body, table[c]) \in Statuses \cup {"gone"}
        BY <1>1, <2>1 DEF Sound, Outcome, ServerOK, Statuses
      <3>4. table' \in [Clients -> Statuses \cup {"gone"}]
        BY <2>2, <3>3 DEF ServerOK
      <3>5. QED
        BY <1>1, <3>1, <3>2, <3>4, SlotStep DEF ServerOK
    <2>3. CASE \E bad \in SUBSET r.ids :
                 /\ table' = [c \in Clients |->
                             IF c \in r.ids \ bad
                             THEN Outcome(r.body, table[c]) ELSE table[c]]
                 /\ calls' = [calls EXCEPT ![s].stage = "served", ![s].ids = bad]
      BY <2>2, <2>3
    <2>4. CASE /\ UNCHANGED table
               /\ calls' = [calls EXCEPT ![s].stage = "served", ![s].failed = TRUE]
      BY <1>4, <2>1, <2>4
    <2>5. QED
      BY <1>5, <2>3, <2>4 DEF ServeBulk
  <1>6. CASE ServeForm(s)
    <2>1. r.op \in {"edit", "add"}
      BY <1>6 DEF ServeForm
    <2>2. ASSUME NEW c \in Clients,
                 table' = [table EXCEPT ![c] =
                             IF r.op = "edit" THEN r.body ELSE "active"],
                 calls' = [calls EXCEPT ![s].stage = "served"]
          PROVE  ServerOK' /\ NetOK'
      <3> DEFINE q == [r EXCEPT !.stage = "served"]
      <3>1. Sound(q)
        BY <1>1, <1>2, <2>1 DEF Sound, Calls
      <3>2. calls' = [calls EXCEPT ![s] = q]
        BY <2>2 DEF NetOK
      <3>3. table' \in [Clients -> Statuses \cup {"gone"}]
        BY <1>1, <2>2 DEF Sound, ServerOK, Statuses
      <3>4. QED
        BY <1>1, <3>1, <3>2, <3>3, SlotStep DEF ServerOK
    <2>3. CASE /\ UNCHANGED table
               /\ calls' = [calls EXCEPT ![s].stage = "served", ![s].failed = TRUE]
      BY <1>4, <2>1, <2>3
    <2>4. CASE /\ \E c \in IF r.op = "edit" THEN r.ids ELSE Clients :
                    table' = [table EXCEPT ![c] =
                             IF r.op = "edit" THEN r.body ELSE "active"]
               /\ calls' = [calls EXCEPT ![s].stage = "served"]
      <3>1. r.ids \subseteq Clients
        BY <1>1 DEF Sound, Calls
      <3>2. PICK c \in Clients :
                    table' = [table EXCEPT ![c] =
                             IF r.op = "edit" THEN r.body ELSE "active"]
        BY <2>4, <3>1
      <3>3. QED
        BY <2>2, <2>4, <3>2
    <2>5. QED
      BY <1>6, <2>3, <2>4 DEF ServeForm
  <1>7. QED
    BY <1>3, <1>5, <1>6 DEF Serve

-----------------------------------------------------------------------------
(* Forms.                                                                  *)

AddForms == [kind : {"add"}, node : Nodes, chosen : SUBSET Inbounds,
             typed : BOOLEAN, saving : BOOLEAN]
EditForms == [kind : {"edit"}, id : Clients, status : Statuses,
              typed : BOOLEAN, saving : BOOLEAN]
Confirms == [kind : {"confirm"}, action : {"reset", "delete"}]

LEMMA FormKinds ==
  /\ Forms = AddForms \cup EditForms \cup Confirms
  /\ \A f \in Forms : f.kind = "add" => f \in AddForms
  /\ \A f \in Forms : f.kind = "edit" => f \in EditForms
  /\ \A f \in Forms : f.kind = "confirm" => f \in Confirms
  /\ \A f \in AddForms : f.kind = "add"
  /\ \A f \in EditForms : f.kind = "edit"
  /\ \A f \in Confirms : f.kind = "confirm"
  /\ Nil \notin Forms
  BY DEF Forms, AddForms, EditForms, Confirms

\* The form fits the list of inbounds.
Fits(f, list) ==
  (f # Nil /\ f.kind = "add") =>
     /\ f.chosen \subseteq Options(f.node, list)
     /\ Options(f.node, list) # {} => f.chosen # {}

LEMMA FitsIsAddFormFits == AddFormFits <=> Fits(form, shown.inbounds)
  BY DEF AddFormFits, Fits

\* What Prune makes of a form for a list.
LEMMA PruneAdd ==
  ASSUME NEW f \in AddForms, NEW list \in SUBSET Inbounds,
         NEW g \in Prune(f, list)
  PROVE  /\ g \in AddForms /\ Fits(g, list)
         /\ g.typed = f.typed /\ g.node = f.node
  <1> DEFINE offered == Options(f.node, list)
             valid == f.chosen \cap offered
  <1>1. offered \subseteq Inbounds
    BY DEF Options
  <1>2. f # Nil /\ f.kind = "add"
    BY FormKinds
  <1>3. \A ids \in SUBSET Inbounds :
          /\ [f EXCEPT !.chosen = ids] \in AddForms
          /\ [f EXCEPT !.chosen = ids].chosen = ids
          /\ [f EXCEPT !.chosen = ids].node = f.node
          /\ [f EXCEPT !.chosen = ids].typed = f.typed
    BY DEF AddForms
  <1>4. PICK ids \in SUBSET Inbounds :
          /\ g = [f EXCEPT !.chosen = ids]
          /\ ids \subseteq offered /\ (offered # {} => ids # {})
    <2>1. CASE valid # {} \/ offered = {}
      <3>1. g = [f EXCEPT !.chosen = valid]
        BY <1>2, <2>1 DEF Prune
      <3>2. valid \in SUBSET Inbounds /\ valid \subseteq offered
        BY <1>1
      <3>3. QED
        BY <2>1, <3>1, <3>2
    <2>2. CASE ~(valid # {} \/ offered = {})
      <3>1. PICK i \in offered : g = [f EXCEPT !.chosen = {i}]
        BY <1>2, <2>2 DEF Prune
      <3>2. {i} \in SUBSET Inbounds /\ {i} \subseteq offered
        BY <1>1
      <3>3. QED
        BY <3>1, <3>2
    <2>3. QED
      BY <2>1, <2>2
  <1>5. QED
    BY <1>3, <1>4 DEF Fits

LEMMA PruneOther ==
  ASSUME NEW f, f = Nil \/ f.kind # "add", NEW list
  PROVE  Prune(f, list) = {f} /\ Fits(f, list)
  BY DEF Prune, Fits

\* A step that changes neither the server's tables nor the lists shown.
Quiet == UNCHANGED <<table, inbounds, shown, missed>>

LEMMA ShownSame == ASSUME ShownOK, UNCHANGED shown PROVE ShownOK'
  BY DEF ShownOK
LEMMA ServerSame ==
  ASSUME ServerOK, UNCHANGED <<table, inbounds, edits, missed>>
  PROVE  ServerOK'
  BY DEF ServerOK
LEMMA PageSame == ASSUME PageOK, UNCHANGED page PROVE PageOK'
  BY DEF PageOK
LEMMA FormSame ==
  ASSUME FormOK, AddFormFits, UNCHANGED <<form, shown>>
  PROVE  FormOK' /\ AddFormFits'
  BY DEF FormOK, AddFormFits
\* A form that is none of those that add a client fits every list.
LEMMA FormOther ==
  ASSUME form' = Nil \/ (form' \in Forms /\ form'.kind # "add")
  PROVE  FormOK' /\ AddFormFits'
  BY DEF FormOK, AddFormFits
LEMMA OperateStep ==
  ASSUME ServerOK, NetOK, NEW s \in Lanes, NEW r, Sound(r), Operate(s, r)
  PROVE  ServerOK' /\ NetOK'
  <1>1. NetOK'
    BY SentStep DEF Operate
  <1>2. ServerOK'
    BY DEF Operate, ServerOK
  <1>3. QED
    BY <1>1, <1>2
-----------------------------------------------------------------------------
(* The page.                                                               *)

LEMMA SelectStep ==
  ASSUME PageOK, NEW ids \in SUBSET Clients, Select(ids)
  PROVE  PageOK'
  <1>1. page'.failures = {}
    BY DEF Select, PageOK
  <1>2. QED
    BY <1>1 DEF Select, PageOK

LEMMA PageSteps ==
  ASSUME PageOK,
         ToggleOne \/ ToggleAll \/ ClearSelection \/ UpdateFilter
  PROVE  PageOK'
  <1>1. page.selected \subseteq Clients /\ Visible \subseteq Clients
    BY DEF PageOK, Visible
  <1>2. CASE ToggleOne
    <2>1. PICK c \in Visible :
            Select(IF c \in page.selected THEN page.selected \ {c}
                   ELSE page.selected \cup {c})
      BY <1>2 DEF ToggleOne
    <2>2. QED
      BY <1>1, <2>1, SelectStep
  <1>3. CASE ToggleAll
    BY <1>1, <1>3, SelectStep DEF ToggleAll
  <1>4. CASE ClearSelection
    BY <1>4, SelectStep DEF ClearSelection
  <1>5. CASE UpdateFilter
    <2>1. PICK f \in Filters :
            page' = [page EXCEPT !.filter = f, !.selected = {}, !.failures = {}]
      BY <1>5 DEF UpdateFilter
    <2>2. QED
      BY <2>1 DEF PageOK
  <1>6. QED
    BY <1>2, <1>3, <1>4, <1>5

\* Running and ending a bulk operation.
LEMMA RunStep ==
  ASSUME PanelInv, NEW s \in Lanes, RunBulkAction(s)
  PROVE  PanelInv'
  <1>1. page.selected \subseteq Clients
    BY DEF PanelInv, PageOK
  <1>2. PICK a \in BulkActions :
          /\ Operate(s, Call("bulk", page.selected, a, "page"))
          /\ page' = [page EXCEPT !.running = TRUE, !.failures = {}]
    BY DEF RunBulkAction
  <1>3. Sound(Call("bulk", page.selected, a, "page"))
    BY <1>1, NewRequest
  <1>4. ServerOK' /\ NetOK'
    BY <1>2, <1>3, OperateStep DEF PanelInv
  <1>5. PageOK'
    BY <1>2 DEF PanelInv, PageOK
  <1>6. UNCHANGED <<form, shown>>
    BY <1>2 DEF RunBulkAction, Operate
  <1>7. QED
    BY <1>4, <1>5, <1>6, FormSame, ShownSame DEF PanelInv

LEMMA EndBulkStep ==
  ASSUME PageOK, FormOK, AddFormFits, UNCHANGED shown,
         NEW r, r.ids \in SUBSET Clients, EndBulk(r)
  PROVE  PageOK' /\ FormOK' /\ AddFormFits'
  <1>1. CASE r.from = "nobody"
    BY <1>1, PageSame, FormSame DEF EndBulk
  <1>2. CASE r.from # "nobody"
    <2>1. /\ page' = [page EXCEPT
                !.running = FALSE,
                !.selected = IF r.failed THEN @ ELSE r.ids,
                !.failures = IF r.failed THEN @ ELSE r.ids]
          /\ form' = IF form # Nil /\ form.kind = "confirm"
                      THEN Nil ELSE form
      BY <1>2 DEF EndBulk
    <2>2. CASE r.failed
      <3>1. page' = [page EXCEPT !.running = FALSE,
                       !.selected = page.selected, !.failures = page.failures]
        BY <2>1, <2>2
      <3>2. PageOK'
        BY <3>1 DEF PageOK
      <3>3. QED
        BY <2>1, <3>2, FormSame, FormOther
    <2>3. CASE ~r.failed
      <3>1. page' = [page EXCEPT !.running = FALSE,
                       !.selected = r.ids, !.failures = r.ids]
        BY <2>1, <2>3
      <3>2. PageOK'
        BY <3>1 DEF PageOK
      <3>3. QED
        BY <2>1, <3>2, FormSame, FormOther
    <2>4. QED
      BY <2>2, <2>3
  <1>3. QED
    BY <1>1, <1>2

\* Setting a flag of a form changes neither its kind nor what it names.
LEMMA FormFlags ==
  ASSUME NEW f \in Forms, f.kind \in {"add", "edit"}, NEW b \in BOOLEAN,
         NEW list
  PROVE  /\ [f EXCEPT !.saving = b] \in Forms
         /\ [f EXCEPT !.saving = b].kind = f.kind
         /\ [f EXCEPT !.saving = b].typed = f.typed
         /\ Fits(f, list) => Fits([f EXCEPT !.saving = b], list)
  <1> DEFINE g == [f EXCEPT !.saving = b]
  <1>1. CASE f.kind = "add"
    <2>1. f \in AddForms
      BY <1>1, FormKinds
    <2>2. /\ g \in AddForms /\ g.kind = "add" /\ g.typed = f.typed
          /\ g.node = f.node /\ g.chosen = f.chosen
      BY <2>1 DEF AddForms
    <2>3. f # Nil
      BY FormKinds
    <2>4. Fits(f, list) => Fits(g, list)
      BY <1>1, <2>2, <2>3 DEF Fits
    <2>5. QED
      BY <1>1, <2>2, <2>4, FormKinds
  <1>2. CASE f.kind = "edit"
    <2>1. f \in EditForms
      BY <1>2, FormKinds
    <2>2. g \in EditForms /\ g.kind = "edit" /\ g.typed = f.typed
      BY <2>1 DEF EditForms
    <2>3. QED
      BY <1>2, <2>2, FormKinds DEF Fits
  <1>3. QED
    BY <1>1, <1>2

LEMMA EndFormStep ==
  ASSUME PageOK, FormOK, AddFormFits, UNCHANGED shown,
         NEW r, NEW kind \in {"add", "edit"}, EndForm(r, kind)
  PROVE  PageOK' /\ FormOK' /\ AddFormFits'
  <1>1. PageOK'
    BY PageSame DEF EndForm
  <1>2. CASE UNCHANGED form
    BY <1>1, <1>2, FormSame
  <1>3. CASE form' = Nil
    BY <1>1, <1>3, FormOther
  <1>4. CASE /\ form # Nil /\ form.kind = kind
             /\ form' = [form EXCEPT !.saving = FALSE]
    <2>1. form \in Forms /\ Fits(form, shown.inbounds)
      BY <1>4, FitsIsAddFormFits DEF FormOK
    <2>2. form' \in Forms /\ Fits(form', shown.inbounds)
      BY <1>4, <2>1, FormFlags
    <2>3. QED
      BY <1>1, <2>2 DEF FormOK, Fits, AddFormFits
  <1>5. QED
    BY <1>2, <1>3, <1>4 DEF EndForm

-----------------------------------------------------------------------------
(* The forms.                                                              *)

LEMMA OpenConfirmStep == ASSUME PanelInv, OpenConfirm PROVE PanelInv'
  <1>1. form' \in Confirms
    BY DEF OpenConfirm, Confirms
  <1>2. form' \in Forms /\ form'.kind # "add"
    BY <1>1, FormKinds
  <1>3. UNCHANGED <<table, inbounds, calls, shown, page, edits, missed>>
    BY DEF OpenConfirm
  <1>4. QED
    BY <1>2, <1>3, FormOther, ServerSame, NetSame, ShownSame, PageSame
    DEF PanelInv

LEMMA OpenEditStep == ASSUME PanelInv, OpenEdit PROVE PanelInv'
  <1>1. PICK c \in Visible :
          form' = [kind |-> "edit", id |-> c, status |-> shown.clients[c],
                   typed |-> FALSE, saving |-> FALSE]
    BY DEF OpenEdit
  <1>2. c \in Clients /\ shown.clients[c] \in Statuses
    BY DEF Visible, PanelInv, ShownOK
  <1>3. form' \in EditForms
    BY <1>1, <1>2 DEF EditForms
  <1>4. form' \in Forms /\ form'.kind # "add"
    BY <1>3, FormKinds
  <1>5. UNCHANGED <<table, inbounds, calls, shown, page, edits, missed>>
    BY DEF OpenEdit
  <1>6. QED
    BY <1>4, <1>5, FormOther, ServerSame, NetSame, ShownSame, PageSame
    DEF PanelInv

\* A pruned form is a form that fits.
LEMMA PrunedStep ==
  ASSUME PanelInv, NEW f \in AddForms, form' \in Prune(f, shown.inbounds),
         UNCHANGED <<table, inbounds, calls, shown, page, edits, missed>>
  PROVE  PanelInv'
  <1>1. form' \in AddForms /\ Fits(form', shown.inbounds)
    BY PruneAdd DEF PanelInv, ShownOK
  <1>2. form' \in Forms
    BY <1>1, FormKinds
  <1>3. AddFormFits'
    BY <1>1 DEF AddFormFits, Fits
  <1>4. QED
    BY <1>2, <1>3, ServerSame, NetSame, ShownSame, PageSame
    DEF PanelInv, FormOK

\* A draft is the pruned form of some node.
LEMMA DraftPruned ==
  ASSUME NEW saving \in BOOLEAN, NEW g \in Drafts(saving)
  PROVE  \E f \in AddForms : g \in Prune(f, shown.inbounds)
  <1>1. PICK n \in Nodes :
          g \in Prune([kind |-> "add", node |-> n, chosen |-> {},
                       typed |-> FALSE, saving |-> saving], shown.inbounds)
    BY DEF Drafts
  <1>2. [kind |-> "add", node |-> n, chosen |-> {},
         typed |-> FALSE, saving |-> saving] \in AddForms
    BY DEF AddForms
  <1>3. QED
    BY <1>1, <1>2

LEMMA OpenAddStep == ASSUME PanelInv, OpenAdd PROVE PanelInv'
  <1>1. PICK f \in AddForms : form' \in Prune(f, shown.inbounds)
    BY DraftPruned DEF OpenAdd
  <1>2. QED
    BY <1>1, PrunedStep DEF OpenAdd

LEMMA FollowAddressStep == ASSUME PanelInv, FollowAddress PROVE PanelInv'
  <1>1. UNCHANGED <<table, inbounds, calls, shown, edits, missed>>
    BY DEF FollowAddress
  <1>2. PageOK'
    BY DEF FollowAddress, PanelInv, PageOK
  <1>3. FormOK' /\ AddFormFits'
    <2>1. CASE form' = form
      BY <1>1, <2>1, FormSame DEF PanelInv
    <2>2. CASE form' # form
      <3>1. form # Nil /\ form.kind = "add" /\ form' \in Drafts(form.saving)
        BY <2>2 DEF FollowAddress
      <3>2. form \in AddForms
        BY <3>1, FormKinds DEF PanelInv, FormOK
      <3>3. form.saving \in BOOLEAN
        BY <3>2 DEF AddForms
      <3>4. PICK f \in AddForms : form' \in Prune(f, shown.inbounds)
        BY <3>1, <3>3, DraftPruned
      <3>5. form' \in AddForms /\ Fits(form', shown'.inbounds)
        BY <1>1, <3>4, PruneAdd DEF PanelInv, ShownOK
      <3>6. form' \in Forms
        BY <3>5, FormKinds
      <3>7. QED
        BY <3>5, <3>6 DEF FormOK, Fits, AddFormFits
    <2>3. QED
      BY <2>1, <2>2
  <1>4. QED
    BY <1>1, <1>2, <1>3, ServerSame, NetSame, ShownSame DEF PanelInv

LEMMA TypeStep == ASSUME PanelInv, TypeInForm PROVE PanelInv'
  <1>1. /\ form \in Forms
        /\ UNCHANGED <<table, inbounds, calls, shown, page, edits, missed>>
    BY DEF PanelInv, FormOK, TypeInForm
  <1>2. ASSUME form.kind = "edit", NEW st \in Statuses,
               form' = [form EXCEPT !.status = st, !.typed = TRUE]
        PROVE  PanelInv'
    <2>1. form \in EditForms
      BY <1>1, <1>2, FormKinds
    <2>2. form' \in EditForms
      BY <1>2, <2>1 DEF EditForms
    <2>3. form' \in Forms /\ form'.kind # "add"
      BY <2>2, FormKinds
    <2>4. QED
      BY <1>1, <2>3, FormOther, ServerSame, NetSame, ShownSame, PageSame
      DEF PanelInv
  <1>3. ASSUME form.kind = "add", NEW n \in Nodes,
               form' \in Prune([form EXCEPT !.node = n, !.typed = TRUE],
                               shown.inbounds)
        PROVE  PanelInv'
    <2>1. form \in AddForms
      BY <1>1, <1>3, FormKinds
    <2>2. [form EXCEPT !.node = n, !.typed = TRUE] \in AddForms
      BY <2>1 DEF AddForms
    <2>3. QED
      BY <1>1, <1>3, <2>2, PrunedStep
  <1>4. ASSUME form.kind = "add",
               NEW ids \in SUBSET Options(form.node, shown.inbounds),
               form' \in Prune([form EXCEPT !.chosen = ids, !.typed = TRUE],
                               shown.inbounds)
        PROVE  PanelInv'
    <2>1. form \in AddForms /\ ids \subseteq Inbounds
      BY <1>1, <1>4, FormKinds DEF Options, PanelInv, ShownOK
    <2>2. [form EXCEPT !.chosen = ids, !.typed = TRUE] \in AddForms
      BY <2>1 DEF AddForms
    <2>3. QED
      BY <1>1, <1>4, <2>2, PrunedStep
  <1>5. QED
    BY <1>2, <1>3, <1>4 DEF TypeInForm

LEMMA SaveFormStep == ASSUME PanelInv, NEW s \in Lanes, SaveForm(s) PROVE PanelInv'
  <1>1. /\ form \in Forms /\ form # Nil /\ form.kind \in {"add", "edit"}
        /\ form' = [form EXCEPT !.saving = TRUE]
        /\ UNCHANGED page
    BY DEF PanelInv, FormOK, SaveForm
  <1>2. CASE form.kind = "edit" /\
             Operate(s, Call("edit", {form.id}, form.status, "form"))
    <2>1. form \in EditForms
      BY <1>1, <1>2, FormKinds
    <2>2. {form.id} \in SUBSET Clients /\ form.status \in Statuses
      BY <2>1 DEF EditForms
    <2>3. Sound(Call("edit", {form.id}, form.status, "form"))
      BY <2>2, NewRequest
    <2>4. ServerOK' /\ NetOK' /\ UNCHANGED shown
      BY <1>2, <2>3, OperateStep DEF PanelInv, Operate
    <2>5. form' \in Forms /\ form'.kind = "edit"
      BY <1>1, <1>2, FormFlags
    <2>6. QED
      BY <1>1, <2>4, <2>5, FormOther, ShownSame, PageSame DEF PanelInv
  <1>3. CASE form.kind = "add" /\
             Operate(s, Call("add", {}, "none", "form"))
    <2>1. Sound(Call("add", {}, "none", "form"))
      BY NewRequest
    <2>2. ServerOK' /\ NetOK' /\ UNCHANGED shown
      BY <1>3, <2>1, OperateStep DEF PanelInv, Operate
    <2>3. Fits(form, shown.inbounds)
      BY FitsIsAddFormFits DEF PanelInv
    <2>4. form' \in Forms /\ Fits(form', shown.inbounds)
      BY <1>1, <2>3, FormFlags
    <2>5. FormOK' /\ AddFormFits'
      BY <2>2, <2>4 DEF FormOK, Fits, AddFormFits
    <2>6. QED
      BY <1>1, <2>2, <2>5, ShownSame, PageSame DEF PanelInv
  <1>4. QED
    BY <1>2, <1>3 DEF SaveForm

LEMMA CloseFormStep == ASSUME PanelInv, CloseForm PROVE PanelInv'
  <1>1. NetOK'
    BY DisownStep DEF CloseForm, PanelInv
  <1>2. form' = Nil /\ UNCHANGED <<table, inbounds, shown, page, edits, missed>>
    BY DEF CloseForm
  <1>3. QED
    BY <1>1, <1>2, FormOther, ServerSame, ShownSame, PageSame DEF PanelInv

LEMMA RevisitStep == ASSUME PanelInv, Revisit PROVE PanelInv'
  <1>1. NetOK'
    BY DisownStep DEF Revisit, PanelInv
  <1>2. form' = Nil /\ UNCHANGED <<table, inbounds, shown, edits, missed>>
    BY DEF Revisit
  <1>3. page' = EmptyPage
    BY DEF Revisit
  <1>4. PageOK'
    BY <1>3 DEF PageOK, EmptyPage
  <1>5. QED
    BY <1>1, <1>2, <1>4, FormOther, ServerSame, ShownSame DEF PanelInv

-----------------------------------------------------------------------------
(* Answers.                                                                *)

LEMMA SoundIds ==
  ASSUME NEW r, Sound(r)
  PROVE  /\ r.ids \in SUBSET Clients
         /\ r.op \in {"load", "bulk", "edit", "add"}
         /\ r.then \in {"none", "bulk", "edit", "add"}
         /\ r.from \in {"form", "page", "nobody"}
  BY DEF Sound, Calls

LEMMA AfterLoadStep ==
  ASSUME NetOK, NEW s \in Lanes, calls[s] # Nil, calls[s].op = "load",
         calls[s].stage # "done", AfterLoad(s)
  PROVE  NetOK'
  <1>1. Sound(calls[s])
    BY DEF NetOK
  <1>2. CASE calls[s].then = "none"
    BY <1>2, SlotStep DEF AfterLoad, NetOK
  <1>3. CASE calls[s].then # "none"
    <2> DEFINE q == [calls[s] EXCEPT !.stage = "done"]
    <2>1. Sound(q)
      BY <1>1, <1>3 DEF Sound, Calls
    <2>2. calls' = [calls EXCEPT ![s] = q]
      BY <1>3 DEF AfterLoad, NetOK
    <2>3. QED
      BY <2>1, <2>2, SlotStep
  <1>4. QED
    BY <1>2, <1>3

LEMMA FailStep == ASSUME PanelInv, NEW s \in Lanes, Fail(s) PROVE PanelInv'
  <1> DEFINE r == [calls[s] EXCEPT !.failed = TRUE]
  <1>1. /\ calls[s] # Nil /\ calls[s].op # "load" /\ Sound(calls[s])
        /\ calls' = [calls EXCEPT ![s] = Nil]
        /\ UNCHANGED <<table, inbounds, shown, edits>>
        /\ \/ UNCHANGED missed
           \/ missed < MaxMissed /\ missed' = missed + 1
    BY DEF Fail, PanelInv, NetOK
  <1>2. Sound(r) /\ r.op = calls[s].op
    BY <1>1 DEF Sound, Calls
  <1>3. r.ids \in SUBSET Clients /\ r.op \in {"bulk", "edit", "add"}
    BY <1>1, <1>2, SoundIds
  <1>4. IF r.op = "bulk" THEN EndBulk(r) ELSE EndForm(r, r.op)
    BY DEF Fail
  <1>5. PageOK' /\ FormOK' /\ AddFormFits'
    <2> HIDE DEF r
    <2>1. CASE r.op = "bulk"
      BY <1>1, <1>3, <1>4, <2>1, EndBulkStep DEF PanelInv
    <2>2. CASE r.op # "bulk"
      BY <1>1, <1>3, <1>4, <2>2, EndFormStep DEF PanelInv
    <2>3. QED
      BY <2>1, <2>2
  <1>6. ServerOK'
    BY <1>1 DEF PanelInv, ServerOK
  <1>7. NetOK' /\ ShownOK'
    BY <1>1, SlotStep, ShownSame DEF PanelInv
  <1>8. QED
    BY <1>5, <1>6, <1>7 DEF PanelInv

LEMMA ReloadStep == ASSUME PanelInv, NEW s \in Lanes, Reload(s) PROVE PanelInv'
  <1> DEFINE r == [Call("load", calls[s].ids, "none", calls[s].from)
                     EXCEPT !.then = calls[s].op]
  <1>1. /\ calls[s] # Nil /\ calls[s].op # "load" /\ Sound(calls[s])
        /\ calls' = [calls EXCEPT ![s] = r]
        /\ UNCHANGED <<table, inbounds, shown, page, form, edits, missed>>
    BY DEF Reload, PanelInv, NetOK
  <1>2. /\ calls[s].op \in {"bulk", "edit", "add"}
        /\ calls[s].ids \in SUBSET Clients
        /\ calls[s].from \in {"form", "page", "nobody"}
    BY <1>1, SoundIds
  <1>3. Sound(r)
    BY <1>2, NewReload
  <1>4. NetOK'
    <2> HIDE DEF r
    <2> QED
      BY <1>1, <1>3, SlotStep DEF PanelInv
  <1>5. QED
    BY <1>1, <1>4, ServerSame, ShownSame, PageSame, FormSame DEF PanelInv

\* An answer brings a list the server has had at some time.
LEMMA DeliverStep == ASSUME PanelInv, NEW s \in Lanes, Deliver(s) PROVE PanelInv'
  <1>1. /\ calls[s] # Nil /\ calls[s].op = "load" /\ calls[s].stage = "served"
        /\ Sound(calls[s]) /\ shown' = calls[s].lists
        /\ form' \in Prune(form, shown'.inbounds)
        /\ AfterLoad(s)
        /\ UNCHANGED <<table, inbounds, page, edits, missed>>
    BY DEF Deliver, PanelInv, NetOK
  <1>2. NetOK'
    BY <1>1, AfterLoadStep DEF PanelInv
  <1>3. shown' \in Lists
    BY <1>1 DEF Sound
  <1>4. ShownOK'
    BY <1>3 DEF ShownOK, Lists
  <1>5. FormOK' /\ AddFormFits'
    <2>1. CASE form # Nil /\ form.kind = "add"
      <3>1. form \in AddForms
        BY <2>1, FormKinds DEF PanelInv, FormOK
      <3>2. form' \in AddForms /\ Fits(form', shown'.inbounds)
        BY <1>1, <1>4, <3>1, PruneAdd DEF ShownOK
      <3>3. form' \in Forms
        BY <3>2, FormKinds
      <3>4. QED
        BY <3>2, <3>3 DEF FormOK, Fits, AddFormFits
    <2>2. CASE ~(form # Nil /\ form.kind = "add")
      <3>1. form' = form
        BY <1>1, <2>2, PruneOther
      <3>2. QED
        BY <2>2, <3>1, FormOther DEF PanelInv, FormOK
    <2>3. QED
      BY <2>1, <2>2
  <1>6. QED
    BY <1>1, <1>2, <1>4, <1>5, ServerSame, PageSame DEF PanelInv

LEMMA LoseLoadStep == ASSUME PanelInv, NEW s \in Lanes, LoseLoad(s) PROVE PanelInv'
  <1>1. NetOK'
    BY AfterLoadStep DEF LoseLoad, PanelInv
  <1>2. /\ missed < MaxMissed /\ missed' = missed + 1
        /\ UNCHANGED <<table, inbounds, shown, page, form, edits>>
    BY DEF LoseLoad
  <1>3. ServerOK'
    BY <1>2 DEF PanelInv, ServerOK
  <1>4. QED
    BY <1>1, <1>2, <1>3, ShownSame, PageSame, FormSame DEF PanelInv

LEMMA PanelFinishStep == ASSUME PanelInv, NEW s \in Lanes, Finish(s) PROVE PanelInv'
  <1>1. /\ calls[s] # Nil /\ calls[s].stage = "done" /\ Sound(calls[s])
        /\ calls' = [calls EXCEPT ![s] = Nil]
        /\ UNCHANGED <<table, inbounds, shown, edits, missed>>
    BY DEF Finish, PanelInv, NetOK
  <1>2. /\ calls[s].ids \in SUBSET Clients
        /\ calls[s].then \in {"bulk", "edit", "add"}
    BY <1>1, SoundIds DEF Sound
  <1>3. PageOK' /\ FormOK' /\ AddFormFits'
    <2>1. CASE calls[s].then = "bulk"
      BY <1>1, <1>2, <2>1, EndBulkStep DEF PanelInv, Finish
    <2>2. CASE calls[s].then # "bulk"
      BY <1>1, <1>2, <2>2, EndFormStep DEF PanelInv, Finish
    <2>3. QED
      BY <2>1, <2>2
  <1>4. NetOK' /\ ShownOK' /\ ServerOK'
    BY <1>1, SlotStep, ShownSame, ServerSame DEF PanelInv
  <1>5. QED
    BY <1>3, <1>4 DEF PanelInv

-----------------------------------------------------------------------------
(* Every step.                                                             *)

LEMMA ChangeStep == ASSUME PanelInv, ChangeElsewhere PROVE PanelInv'
  <1>1. /\ edits < MaxEdits /\ edits' = edits + 1
        /\ UNCHANGED <<calls, shown, page, form, missed>>
    BY DEF ChangeElsewhere
  <1>2. table' \in [Clients -> Statuses \cup {"gone"}]
        /\ inbounds' \subseteq Inbounds
    BY DEF ChangeElsewhere, PanelInv, ServerOK
  <1>3. ServerOK'
    BY <1>1, <1>2 DEF PanelInv, ServerOK
  <1>4. QED
    BY <1>1, <1>3, NetSame, ShownSame, PageSame, FormSame DEF PanelInv

LEMMA PollStep == ASSUME PanelInv, NEW s \in Lanes, Poll(s) PROVE PanelInv'
  <1>1. Sound(Call("load", {}, "none", "nobody"))
    BY NewRequest
  <1>2. NetOK'
    BY <1>1, SentStep DEF Poll, PanelInv
  <1>3. UNCHANGED <<table, inbounds, shown, page, form, edits, missed>>
    BY DEF Poll
  <1>4. QED
    BY <1>2, <1>3, ServerSame, ShownSame, PageSame, FormSame DEF PanelInv

LEMMA AdminStep == ASSUME PanelInv, AdminActs PROVE PanelInv'
  <1>1. CASE ToggleOne \/ ToggleAll \/ ClearSelection \/ UpdateFilter
    <2>1. PageOK'
      BY <1>1, PageSteps DEF PanelInv
    <2>2. UNCHANGED <<table, inbounds, calls, shown, form, edits, missed>>
      BY <1>1 DEF ToggleOne, ToggleAll, ClearSelection, UpdateFilter
    <2>3. QED
      BY <2>1, <2>2, ServerSame, NetSame, ShownSame, FormSame DEF PanelInv
  <1>2. QED
    BY <1>1, FollowAddressStep, OpenConfirmStep, OpenEditStep, OpenAddStep,
       TypeStep, CloseFormStep, RevisitStep, RunStep, SaveFormStep DEF AdminActs

LEMMA ServedStep == ASSUME PanelInv, NEW s \in Lanes, Serve(s) PROVE PanelInv'
  <1>1. ServerOK' /\ NetOK'
    BY ServeStep DEF PanelInv
  <1>2. UNCHANGED <<shown, page, form>>
    BY DEF Serve
  <1>3. QED
    BY <1>1, <1>2, ShownSame, PageSame, FormSame DEF PanelInv

LEMMA PanelInvInit == PanelInit => PanelInv
  <1> HAVE PanelInit
  <1>1. ServerOK /\ NetOK
    BY DEF PanelInit, ServerOK, NetOK, Statuses
  <1>2. ShownOK
    BY DEF PanelInit, ShownOK, Lists
  <1>3. PageOK
    BY DEF PanelInit, PageOK, EmptyPage
  <1>4. FormOK /\ AddFormFits
    BY DEF PanelInit, FormOK, AddFormFits
  <1>5. QED
    BY <1>1, <1>2, <1>3, <1>4 DEF PanelInv

LEMMA PanelInvStep == PanelInv /\ [PanelNext]_panelVars => PanelInv'
  <1> SUFFICES ASSUME PanelInv, [PanelNext]_panelVars PROVE PanelInv'
    OBVIOUS
  <1>1. CASE UNCHANGED panelVars
    BY <1>1, ServerSame, NetSame, ShownSame, PageSame, FormSame
    DEF PanelInv, panelVars
  <1>2. ASSUME NEW s \in Lanes, TakeAnswer(s) PROVE PanelInv'
    BY <1>2, FailStep, ReloadStep, DeliverStep, LoseLoadStep, PanelFinishStep
    DEF TakeAnswer
  <1>3. QED
    BY <1>1, <1>2, AdminStep, ChangeStep, PollStep, ServedStep DEF PanelNext

\* The list of failures is about the selection, and the variables keep their
\* types, however many requests, clients and inbounds there are.
THEOREM PanelAlertIsAboutSelection == PanelSpec => []AlertIsAboutSelection
  <1>1. PanelInv => AlertIsAboutSelection
    BY DEF PanelInv, ServerOK, NetOK, ShownOK, PageOK, FormOK, Sound,
           AlertIsAboutSelection, PanelTypeOK, Lists
  <1>2. QED
    BY PanelInvInit, PanelInvStep, <1>1, PTL DEF PanelSpec

\* The form that adds a client fits the lists shown.
THEOREM PanelAddFormFits == PanelSpec => []AddFormFits
  <1>1. PanelInv => AddFormFits
    BY DEF PanelInv
  <1>2. QED
    BY PanelInvInit, PanelInvStep, <1>1, PTL DEF PanelSpec

-----------------------------------------------------------------------------
(* What the admin typed.                                                   *)

LEMMA TypedForms ==
  ASSUME FormOK, Typed(form)
  PROVE  /\ form \in Forms /\ form # Nil
         /\ (form \in AddForms /\ form.kind = "add") \/
            (form \in EditForms /\ form.kind = "edit")
  BY FormKinds DEF FormOK, Typed

\* A form that adds a client, typed in and pruned, is typed in.
LEMMA PruneKeeps ==
  ASSUME NEW f \in AddForms, f.typed, NEW list \in SUBSET Inbounds,
         NEW g \in Prune(f, list)
  PROVE  Typed(g)
  <1>1. g \in AddForms /\ g.typed
    BY PruneAdd
  <1>2. QED
    BY <1>1, FormKinds DEF Typed

LEMMA TypingKeeps ==
  ASSUME PanelInv, Typed(form), TypeInForm
  PROVE  Typed(form')
  <1>1. shown.inbounds \in SUBSET Inbounds
    BY DEF PanelInv, ShownOK
  <1>2. CASE form \in EditForms /\ form.kind = "edit"
    <2>1. PICK st \in Statuses : form' = [form EXCEPT !.status = st, !.typed = TRUE]
      BY <1>2 DEF TypeInForm
    <2>2. form' \in EditForms /\ form'.typed
      BY <1>2, <2>1 DEF EditForms
    <2>3. QED
      BY <2>2, FormKinds DEF Typed
  <1>3. CASE form \in AddForms /\ form.kind = "add"
    <2>1. \A n \in Nodes :
            LET f == [form EXCEPT !.node = n, !.typed = TRUE]
            IN f \in AddForms /\ f.typed
      BY <1>3 DEF AddForms
    <2>2. \A ids \in SUBSET Options(form.node, shown.inbounds) :
            LET f == [form EXCEPT !.chosen = ids, !.typed = TRUE]
            IN f \in AddForms /\ f.typed
      BY <1>1, <1>3 DEF AddForms, Options
    <2>3. \/ \E n \in Nodes :
               form' \in Prune([form EXCEPT !.node = n, !.typed = TRUE],
                               shown.inbounds)
          \/ \E ids \in SUBSET Options(form.node, shown.inbounds) :
               form' \in Prune([form EXCEPT !.chosen = ids, !.typed = TRUE],
                               shown.inbounds)
      BY <1>3 DEF TypeInForm
    <2>4. QED
      BY <1>1, <2>1, <2>2, <2>3, PruneKeeps
  <1>4. QED
    BY <1>2, <1>3, TypedForms DEF PanelInv

LEMMA EndingKeeps ==
  ASSUME PanelInv, Typed(form), NEW r,
         EndBulk(r) \/ \E kind \in {"add", "edit"} :
                          EndForm(r, kind) /\ (form.kind = kind => r.failed)
  PROVE  Typed(form')
  <1>1. form \in Forms /\ form # Nil /\ form.kind \in {"add", "edit"}
    BY TypedForms DEF PanelInv
  <1>2. form' = form \/ form' = [form EXCEPT !.saving = FALSE]
    BY <1>1 DEF EndBulk, EndForm
  <1>3. CASE form' = [form EXCEPT !.saving = FALSE]
    <2>1. form' \in Forms /\ form'.kind = form.kind /\ form'.typed = form.typed
      BY <1>1, <1>3, FormFlags
    <2>2. QED
      BY <1>1, <2>1, FormKinds DEF Typed
  <1>4. QED
    BY <1>2, <1>3

LEMMA AdminKeeps ==
  ASSUME PanelInv, Typed(form), AdminActs
  PROVE  \/ Typed(form') \/ CloseForm \/ Revisit
         \/ form.kind = "add" /\ FollowAddress
  <1>1. form \in Forms /\ form # Nil /\ form.kind \in {"add", "edit"}
    BY TypedForms DEF PanelInv
  <1>2. ~Idle /\ ~OpenEdit /\ ~OpenAdd /\ ~UpdateFilter
    BY <1>1 DEF Idle, OpenEdit, OpenAdd, UpdateFilter
  <1>3. ~ToggleOne /\ ~ToggleAll /\ ~ClearSelection /\ ~OpenConfirm
    BY <1>2 DEF ToggleOne, ToggleAll, ClearSelection, OpenConfirm
  <1>4. ASSUME NEW s \in Lanes, RunBulkAction(s) PROVE Typed(form')
    BY <1>4 DEF RunBulkAction
  <1>5. ASSUME NEW s \in Lanes, SaveForm(s) PROVE Typed(form')
    <2>1. form' = [form EXCEPT !.saving = TRUE]
      BY <1>5 DEF SaveForm
    <2>2. form' \in Forms /\ form'.kind = form.kind /\ form'.typed = form.typed
      BY <1>1, <2>1, FormFlags
    <2>3. QED
      BY <1>1, <2>2, FormKinds DEF Typed
  <1>6. CASE FollowAddress
    <2>1. CASE form.kind = "add"
      BY <1>6, <2>1
    <2>2. CASE form.kind # "add"
      BY <1>6, <2>2 DEF FollowAddress
    <2>3. QED
      BY <2>1, <2>2
  <1>7. QED
    BY <1>2, <1>3, <1>4, <1>5, <1>6, TypingKeeps DEF AdminActs

LEMMA AnswerKeeps ==
  ASSUME PanelInv, Typed(form), NEW s \in Lanes, TakeAnswer(s)
  PROVE  Typed(form') \/ (Finish(s) /\ calls[s].then = form.kind)
  <1>1. form \in Forms /\ form # Nil /\ form.kind \in {"add", "edit"}
    BY TypedForms DEF PanelInv
  <1>2. CASE Reload(s) \/ LoseLoad(s)
    BY <1>2 DEF Reload, LoseLoad
  <1>3. CASE Deliver(s)
    <2>1. /\ calls[s] # Nil /\ calls[s].op = "load" /\ calls[s].stage = "served"
          /\ Sound(calls[s]) /\ shown' = calls[s].lists
          /\ form' \in Prune(form, shown'.inbounds)
      BY <1>3 DEF Deliver, PanelInv, NetOK
    <2>2. shown'.inbounds \in SUBSET Inbounds
      BY <2>1 DEF Sound, Lists
    <2>3. CASE form.kind = "add"
      BY <2>1, <2>2, <2>3, PruneKeeps, TypedForms DEF PanelInv, Typed
    <2>4. CASE form.kind # "add"
      BY <2>1, <2>4, PruneOther
    <2>5. QED
      BY <2>3, <2>4
  <1>4. CASE Fail(s)
    <2> DEFINE r == [calls[s] EXCEPT !.failed = TRUE]
    <2>1. /\ calls[s] # Nil /\ calls[s].op # "load" /\ Sound(calls[s])
          /\ IF r.op = "bulk" THEN EndBulk(r) ELSE EndForm(r, r.op)
      BY <1>4 DEF Fail, PanelInv, NetOK
    <2>2. r.failed /\ r.op \in {"bulk", "edit", "add"}
      BY <2>1 DEF Sound, Calls
    <2>3. QED
      <3> HIDE DEF r
      <3> QED
        BY <2>1, <2>2, EndingKeeps
  <1>5. CASE Finish(s)
    <2>1. /\ calls[s] # Nil /\ calls[s].stage = "done" /\ Sound(calls[s])
          /\ IF calls[s].then = "bulk" THEN EndBulk(calls[s])
             ELSE EndForm(calls[s], calls[s].then)
      BY <1>5 DEF Finish, PanelInv, NetOK
    <2>2. calls[s].then \in {"bulk", "edit", "add"}
      BY <2>1, SoundIds DEF Sound
    <2>3. QED
      BY <1>5, <2>1, <2>2, EndingKeeps
  <1>6. QED
    BY <1>2, <1>3, <1>4, <1>5 DEF TakeAnswer

LEMMA TypedNext ==
  ASSUME PanelInv, [PanelNext]_panelVars, Typed(form), ~Typed(form')
  PROVE  \/ CloseForm \/ Revisit
         \/ form.kind = "add" /\ FollowAddress
         \/ \E s \in Lanes : Finish(s) /\ calls[s].then = form.kind
  <1>1. form' # form
    OBVIOUS
  <1>2. ~ChangeElsewhere /\ \A s \in Lanes : ~Poll(s) /\ ~Serve(s)
    BY <1>1 DEF ChangeElsewhere, Poll, Serve
  <1>3. PanelNext
    BY <1>1 DEF panelVars
  <1>4. AdminActs \/ \E s \in Lanes : TakeAnswer(s)
    BY <1>2, <1>3 DEF PanelNext
  <1>5. QED
    BY <1>4, AdminKeeps, AnswerKeeps

\* What the admin typed goes only with the form, when a save of a form of its
\* kind is done, or when the address changes under the form that adds a
\* client: for any clients, nodes, inbounds and requests under way.
THEOREM PanelTypedIsKept == PanelSpec => TypedIsKept
  <1> DEFINE A == Typed(form) /\ ~Typed(form') =>
                    \/ CloseForm \/ Revisit
                    \/ form.kind = "add" /\ FollowAddress
                    \/ \E s \in Lanes : Finish(s) /\ calls[s].then = form.kind
  <1>1. [][A]_panelVars <=> TypedIsKept
    BY DEF TypedIsKept
  <1>2. PanelInv /\ [PanelNext]_panelVars => A
    BY TypedNext
  <1> HIDE DEF A
  <1>3. QED
    BY PanelInvInit, PanelInvStep, <1>1, <1>2, PTL DEF PanelSpec

-----------------------------------------------------------------------------
(* How the tab catches up.                                                 *)

Tables == [clients |-> table, inbounds |-> inbounds]

\* The answer of a reload is on its way.
Brings(r) == r # Nil /\ r.op = "load" /\ r.stage = "served"

\* The answers on their way that would show something older or newer.
Outdated == {s \in Lanes : Brings(calls[s]) /\ calls[s].lists # Tables}

\* A lane that does not come to bring anything other than the tables.
Stays(s) == Brings(calls[s])' => \/ Brings(calls[s]) /\ calls'[s] = calls[s]
                                 \/ calls'[s].lists = Tables

LEMMA OtherLanesStay ==
  ASSUME NetOK, NEW s \in Lanes, NEW r, calls' = [calls EXCEPT ![s] = r],
         ~ Brings(r) \/ r.lists = Tables
  PROVE  \A t \in Lanes : Stays(t)
  BY DEF NetOK, Stays, Brings

LEMMA StartStays ==
  ASSUME NetOK, NEW s \in Lanes, NEW op, NEW ids, NEW body, NEW from,
         StartCall(s, Call(op, ids, body, from))
  PROVE  \A t \in Lanes : Stays(t)
  <1>1. ~ Brings(Call(op, ids, body, from))
    BY DEF Brings, Call
  <1>2. QED
    BY <1>1, OtherLanesStay DEF StartCall

\* Whom an answer goes to is no matter of what it brings.
LEMMA DisownBrings ==
  ASSUME NEW r, r = Nil \/ Sound(r), NEW who
  PROVE  Brings(Disown(r, who)) => Brings(r) /\ Disown(r, who).lists = r.lists
  BY DEF Disown, Brings, Sound, Calls

\* No lane becomes outdated, and none is shown that is not.
LEMMA ServeStays ==
  ASSUME PanelInv, NEW s \in Lanes, Serve(s)
  PROVE  (\A t \in Lanes : Stays(t)) /\ shown' = shown
  <1>1. calls[s] # Nil /\ Sound(calls[s])
    BY DEF Serve, PanelInv, NetOK
  <1>2. CASE ServeLoad(s)
    <2>1. calls' = [calls EXCEPT ![s] =
                      [calls[s] EXCEPT !.stage = "served", !.lists = Tables]]
      BY <1>2 DEF ServeLoad, Tables, PanelInv, NetOK
    <2>2. [calls[s] EXCEPT !.stage = "served", !.lists = Tables].lists = Tables
      BY <1>1 DEF Sound, Calls
    <2>3. QED
      BY <2>1, <2>2, OtherLanesStay DEF PanelInv, Serve
  <1>3. CASE ServeBulk(s) \/ ServeForm(s)
    <2>1. \A t \in Lanes : t # s => calls'[t] = calls[t]
      BY <1>3 DEF ServeBulk, ServeForm, PanelInv, NetOK
    <2>2. calls'[s].op = calls[s].op
      <3>1. CASE calls' = [calls EXCEPT ![s].stage = "served"]
        BY <1>1, <3>1 DEF PanelInv, NetOK, Sound, Calls
      <3>2. CASE calls' = [calls EXCEPT ![s].stage = "served",
                                        ![s].failed = TRUE]
        BY <1>1, <3>2 DEF PanelInv, NetOK, Sound, Calls
      <3>3. ASSUME NEW bad,
                   calls' = [calls EXCEPT ![s].stage = "served", ![s].ids = bad]
            PROVE  calls'[s].op = calls[s].op
        BY <1>1, <3>3 DEF PanelInv, NetOK, Sound, Calls
      <3>4. QED
        BY <1>3, <3>1, <3>2, <3>3 DEF ServeBulk, ServeForm
    <2>3. calls[s].op # "load"
      BY <1>3 DEF ServeBulk, ServeForm
    <2>4. QED
      BY <2>1, <2>2, <2>3 DEF Stays, Brings, Serve
  <1>4. QED
    BY <1>2, <1>3 DEF Serve

LEMMA AfterLoadStays ==
  ASSUME PanelInv, NEW s \in Lanes, calls[s] # Nil, AfterLoad(s)
  PROVE  (\A t \in Lanes : Stays(t)) /\ ~ Brings(calls[s])'
  <1> DEFINE r == IF calls[s].then = "none" THEN Nil
                  ELSE [calls[s] EXCEPT !.stage = "done"]
  <1>1. ~ Brings(r)
    BY DEF Brings, PanelInv, NetOK, Sound, Calls
  <1>2. calls' = [calls EXCEPT ![s] = r]
    BY DEF AfterLoad
  <1> HIDE DEF r
  <1>3. calls'[s] = r
    BY <1>2 DEF PanelInv, NetOK
  <1>4. ~ Brings(calls[s])'
    BY <1>1, <1>3 DEF Brings
  <1>5. QED
    BY <1>1, <1>2, <1>4, OtherLanesStay DEF PanelInv

LEMMA AnswerStays ==
  ASSUME PanelInv, NEW s \in Lanes, TakeAnswer(s)
  PROVE  /\ \A t \in Lanes : Stays(t)
         /\ ~ Deliver(s) => shown' = shown
  <1>1. CASE Fail(s) \/ Finish(s)
    <2>1. calls' = [calls EXCEPT ![s] = Nil] /\ shown' = shown
      BY <1>1 DEF Fail, Finish
    <2>2. QED
      BY <2>1, OtherLanesStay DEF PanelInv, Brings
  <1>2. CASE Reload(s)
    <2> DEFINE r == [Call("load", calls[s].ids, "none", calls[s].from)
                       EXCEPT !.then = calls[s].op]
    <2>1. ~ Brings(r)
      BY DEF Brings, Call
    <2>2. calls' = [calls EXCEPT ![s] = r] /\ shown' = shown
      BY <1>2 DEF Reload
    <2> HIDE DEF r
    <2>3. QED
      BY <2>1, <2>2, OtherLanesStay DEF PanelInv
  <1>3. CASE Deliver(s)
    BY <1>3, AfterLoadStays DEF Deliver
  <1>4. CASE LoseLoad(s)
    BY <1>4, AfterLoadStays DEF LoseLoad
  <1>5. QED
    BY <1>1, <1>2, <1>3, <1>4 DEF TakeAnswer

\* The lists an answer brings are in every lane those it had, or the tables.
Kept(s) == Brings(calls[s])' => \/ Brings(calls[s]) /\ calls'[s].lists = calls[s].lists
                                \/ calls'[s].lists = Tables

LEMMA StaysKept ==
  ASSUME \A t \in Lanes : Stays(t)
  PROVE  \A t \in Lanes : Kept(t)
  BY DEF Stays, Kept

LEMMA AdminKeepsLanes ==
  ASSUME PanelInv, AdminActs
  PROVE  (\A t \in Lanes : Kept(t)) /\ shown' = shown
  <1>1. CASE ToggleOne \/ ToggleAll \/ ClearSelection \/ UpdateFilter
             \/ FollowAddress \/ OpenConfirm \/ OpenEdit \/ OpenAdd
             \/ TypeInForm
    <2>1. UNCHANGED <<calls, shown>>
      BY <1>1 DEF ToggleOne, ToggleAll, ClearSelection, UpdateFilter,
                  FollowAddress, OpenConfirm, OpenEdit, OpenAdd, TypeInForm
    <2>2. QED
      BY <2>1 DEF Kept, Brings
  <1>2. ASSUME NEW who, calls' = [s \in Lanes |-> Disown(calls[s], who)]
        PROVE  \A t \in Lanes : Kept(t)
    <2>1. \A t \in Lanes : Brings(calls'[t]) =>
            Brings(calls[t]) /\ calls'[t].lists = calls[t].lists
      BY <1>2, DisownBrings DEF PanelInv, NetOK
    <2>2. QED
      BY <2>1 DEF Kept, Brings
  <1>3. CASE CloseForm \/ Revisit
    BY <1>2, <1>3 DEF CloseForm, Revisit
  <1>4. ASSUME NEW s \in Lanes, RunBulkAction(s) \/ SaveForm(s)
        PROVE  (\A t \in Lanes : Kept(t)) /\ shown' = shown
    <2>1. \E op, ids, body, from :
             Operate(s, Call(op, ids, body, from))
      BY <1>4 DEF RunBulkAction, SaveForm
    <2>2. PICK op, ids, body, from :
             Operate(s, Call(op, ids, body, from))
      BY <2>1
    <2>3. shown' = shown /\ StartCall(s, Call(op, ids, body, from))
      BY <2>2 DEF Operate
    <2>4. QED
      BY <2>3, StartStays, StaysKept DEF PanelInv
  <1>5. QED
    BY <1>1, <1>3, <1>4 DEF AdminActs

LEMMA LanesKept ==
  ASSUME PanelInv, [PanelNext]_panelVars
  PROVE  /\ \A t \in Lanes : Kept(t)
         /\ shown' # shown => \E s \in Lanes : Deliver(s)
  <1>1. CASE AdminActs
    BY <1>1, AdminKeepsLanes
  <1>2. CASE ChangeElsewhere \/ UNCHANGED panelVars
    <2>1. UNCHANGED <<calls, shown>>
      BY <1>2 DEF ChangeElsewhere, panelVars
    <2>2. QED
      BY <2>1 DEF Kept, Brings
  <1>3. ASSUME NEW s \in Lanes, Poll(s)
        PROVE  (\A t \in Lanes : Kept(t)) /\ shown' = shown
    BY <1>3, StartStays, StaysKept DEF Poll, PanelInv
  <1>4. ASSUME NEW s \in Lanes, Serve(s)
        PROVE  (\A t \in Lanes : Kept(t)) /\ shown' = shown
    BY <1>4, ServeStays, StaysKept
  <1>5. ASSUME NEW s \in Lanes, TakeAnswer(s)
        PROVE  (\A t \in Lanes : Kept(t)) /\ (~ Deliver(s) => shown' = shown)
    BY <1>5, AnswerStays, StaysKept
  <1>6. QED
    BY <1>1, <1>2, <1>3, <1>4, <1>5 DEF PanelNext

\* What a step does towards showing the tables, when they do not change.
CatchesUp ==
  UNCHANGED <<table, inbounds>> =>
    /\ Outdated' \subseteq Outdated
    /\ \A s \in Lanes : Deliver(s) =>
         s \notin Outdated' /\ (s \notin Outdated => shown' = Tables)
    /\ shown = Tables /\ Outdated = {} => shown' = Tables

LEMMA CatchingUp ==
  ASSUME PanelInv, [PanelNext]_panelVars
  PROVE  CatchesUp
  <1> SUFFICES ASSUME UNCHANGED <<table, inbounds>>
               PROVE  /\ Outdated' \subseteq Outdated
                      /\ \A s \in Lanes : Deliver(s) =>
                           s \notin Outdated' /\ (s \notin Outdated => shown' = Tables)
                      /\ shown = Tables /\ Outdated = {} => shown' = Tables
    BY DEF CatchesUp
  <1>1. Tables' = Tables
    BY DEF Tables
  <1>2. Outdated' \subseteq Outdated
    <2>1. ASSUME NEW s \in Lanes, Brings(calls[s])', calls'[s].lists # Tables
          PROVE  Brings(calls[s]) /\ calls[s].lists # Tables
      BY <2>1, LanesKept DEF Kept
    <2>2. QED
      BY <1>1, <2>1 DEF Outdated
  <1>3. ASSUME NEW s \in Lanes, Deliver(s)
        PROVE  s \notin Outdated' /\ (s \notin Outdated => shown' = Tables)
    <2>1. ~ Brings(calls[s])'
      BY <1>3, AfterLoadStays DEF Deliver
    <2>2. Brings(calls[s]) /\ shown' = calls[s].lists
      BY <1>3 DEF Deliver, Brings
    <2>3. QED
      BY <2>1, <2>2 DEF Outdated
  <1>4. ASSUME shown = Tables, Outdated = {}
        PROVE  shown' = Tables
    BY <1>3, <1>4, LanesKept
  <1>5. QED
    BY <1>2, <1>3, <1>4

(* Once the tables no longer change, the answers that would show something *)
(* else only grow fewer: each is shown once and never comes back, every    *)
(* other answer shows the tables, and when none is left the tab goes on    *)
(* showing them.  This is the part of ShowsTheTables that the fairness of  *)
(* the requests completes (store.tsx, loadAll and its timer).              *)
THEOREM PanelCatchesUp == PanelSpec => [][CatchesUp]_panelVars
  <1>1. PanelInv /\ [PanelNext]_panelVars => CatchesUp
    BY CatchingUp
  <1>2. QED
    BY PanelInvInit, PanelInvStep, <1>1, PTL DEF PanelSpec
=============================================================================
