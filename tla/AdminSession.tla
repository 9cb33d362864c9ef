---------------------------- MODULE AdminSession ----------------------------
(***************************************************************************)
(* The second factor of the administrator: the settings page of a browser  *)
(* tab with its toggle and dialogues (lib/auth.tsx, SettingsPage.tsx,      *)
(* two-factor-setup-modal.tsx, two-factor-disable-modal.tsx,               *)
(* change-password-modal.tsx) and the operations of the server             *)
(* (services/auth/auth.go).                                                *)
(*                                                                         *)
(* Every operation of the server reads the row of the administrator,       *)
(* changes its copy and writes the whole copy back; two operations         *)
(* interleave between these steps.  The toggle shows what the tab          *)
(* believes: it is told once, when the administrator signs in or reloads   *)
(* the page, and then only by its own dialogues.                           *)
(***************************************************************************)
EXTENDS Naturals

CONSTANTS
    Slots,       \* the requests that can be under way
    None,        \* no request in a slot
    MaxSecrets,  \* bound: secrets the server makes
    MaxBatches,  \* bound: batches of recovery codes the server makes
    MaxOther,    \* bound: password changes and sign-ins
    MaxLosses    \* bound: statements of the server and answers that fail

VARIABLES
    row,      \* server: the secret of the administrator and whether it is on
    codes,    \* server: the batches of recovery codes that are stored
    made,     \* secrets and batches made so far
    scanned,  \* the secrets the administrator has in an authenticator
    net,      \* the request in each slot, or None
    ui,       \* what the tab shows
    astray,   \* something happened after which the toggle can be wrong
    other,    \* password changes and sign-ins so far
    losses    \* failures so far

vars == <<row, codes, made, scanned, net, ui, astray, other, losses>>

NoSecret == 0
NoBatch == 0
Secrets == 1..MaxSecrets
Batches == 1..MaxBatches

Rows == [secret : Secrets \cup {NoSecret}, enabled : BOOLEAN]
Ops == {"me", "setup", "confirm", "disable", "password"}

\* A request: the code sent with it (of a secret, or of a batch), the copy of
\* the row the server works on, how far it is, whether it was done, the batch
\* it answers, and who waits: the dialogue that sent it ("modal"), the page
\* after that dialogue was closed ("page"), or nobody.
Requests ==
    [op : Ops, secret : Secrets \cup {NoSecret},
     batch : Batches \cup {NoBatch}, copy : Rows,
     stage : {"sent", "read", "written", "cleared", "served"},
     ok : BOOLEAN, from : {"modal", "page", "nobody"}]

ASSUME ConstantsAssumption ==
    /\ MaxSecrets \in Nat /\ MaxBatches \in Nat
    /\ MaxOther \in Nat /\ MaxLosses \in Nat
    /\ None \notin Requests

Modals == {"none", "setup", "disable", "password"}

\* step and batch belong to the dialogue that sets the second factor up; it
\* keeps them when an answer arrives after it was closed.
UIs == [signedIn : BOOLEAN, shown : BOOLEAN, open : Modals,
        step : {"scan", "recovery"}, secret : Secrets \cup {NoSecret},
        batch : Batches \cup {NoBatch}, submitting : BOOLEAN]

SignedOut ==
    [signedIn |-> FALSE, shown |-> FALSE, open |-> "none", step |-> "scan",
     secret |-> NoSecret, batch |-> NoBatch, submitting |-> FALSE]

\* Types, what exists was made, and no late answer reaches a tab that has
\* signed out.
TypeOK ==
    /\ row \in Rows
    /\ codes \subseteq 1..made.batches
    /\ made \in [secrets : 0..MaxSecrets, batches : 0..MaxBatches]
    /\ scanned \subseteq 1..made.secrets
    /\ net \in [Slots -> Requests \cup {None}]
    /\ ui \in UIs
    /\ ~ui.signedIn => ui = SignedOut
    /\ astray \in BOOLEAN
    /\ other \in 0..MaxOther /\ losses \in 0..MaxLosses

\* A closed dialogue forgets what it had; the others keep theirs.
Closed(u) ==
    IF u.open = "setup"
    THEN [u EXCEPT !.open = "none", !.step = "scan", !.secret = NoSecret,
                   !.batch = NoBatch, !.submitting = FALSE]
    ELSE [u EXCEPT !.open = "none", !.submitting = FALSE]

Init ==
    /\ row = [secret |-> NoSecret, enabled |-> FALSE]
    /\ codes = {}
    /\ made = [secrets |-> 0, batches |-> 0]
    /\ scanned = {}
    /\ net = [s \in Slots |-> None]
    /\ ui = SignedOut
    /\ astray = FALSE
    /\ other = 0 /\ losses = 0

-----------------------------------------------------------------------------
(* The administrator. *)

Request(op, secret, batch, from) ==
    [op |-> op, secret |-> secret, batch |-> batch,
     copy |-> [secret |-> NoSecret, enabled |-> FALSE],
     stage |-> "sent", ok |-> FALSE, from |-> from]

Send(s, r) == net[s] = None /\ net' = [net EXCEPT ![s] = r]

\* The dialogue, or the whole page, no longer waits for its requests.
Leave(n, who) ==
    [s \in Slots |->
       IF n[s] = None \/ n[s].from = "nobody" THEN n[s]
       ELSE [n[s] EXCEPT !.from = who]]

\* The settings of the tab are as after loading the page, and it asks for the
\* state of the second factor.
Hydrate(s) ==
    /\ net[s] = None
    /\ net' = [Leave(net, "nobody") EXCEPT
                 ![s] = Request("me", NoSecret, NoBatch, "page")]
    /\ ui' = [SignedOut EXCEPT !.signedIn = TRUE]
    /\ other < MaxOther /\ other' = other + 1
    /\ UNCHANGED <<row, codes, made, scanned, astray, losses>>

\* Signing in takes a code of the stored secret when the second factor is on.
Login(s) ==
    /\ ~ui.signedIn
    /\ row.enabled => row.secret \in scanned
    /\ Hydrate(s)

ReloadPage(s) == ui.signedIn /\ Hydrate(s)

Logout ==
    /\ ui.signedIn
    /\ ui' = SignedOut
    /\ net' = Leave(net, "nobody")
    /\ UNCHANGED <<row, codes, made, scanned, astray, other, losses>>

\* The toggle opens one of two dialogues, by what it shows; the one that sets
\* up asks the server for a secret at once.
OpenSetup(s) ==
    /\ ui.signedIn /\ ui.open = "none" /\ ~ui.shown
    /\ Send(s, Request("setup", NoSecret, NoBatch, "modal"))
    /\ ui' = [ui EXCEPT !.open = "setup"]
    /\ UNCHANGED <<row, codes, made, scanned, astray, other, losses>>

OpenOther ==
    /\ ui.signedIn /\ ui.open = "none"
    /\ \E m \in {"disable", "password"} :
         /\ m = "disable" => ui.shown
         /\ ui' = [ui EXCEPT !.open = m]
    /\ UNCHANGED <<row, codes, made, scanned, net, astray, other, losses>>

Scan ==
    /\ ui.secret # NoSecret /\ ui.secret \notin scanned
    /\ scanned' = scanned \cup {ui.secret}
    /\ UNCHANGED <<row, codes, made, net, ui, astray, other, losses>>

\* A code of any secret in the authenticator, or a recovery code.  The Enter
\* key does so before the set-up that is under way has been answered.
Submit(s) ==
    /\ ~ui.submitting
    /\ \/ /\ ui.open = "setup" /\ ui.step = "scan"
          /\ \E c \in scanned :
               Send(s, Request("confirm", c, NoBatch, "modal"))
          /\ UNCHANGED other
       \/ /\ ui.open = "disable"
          /\ \/ \E c \in scanned :
                  Send(s, Request("disable", c, NoBatch, "modal"))
             \/ \E b \in 1..made.batches :
                  Send(s, Request("disable", NoSecret, b, "modal"))
          /\ UNCHANGED other
       \/ /\ ui.open = "password" /\ other < MaxOther
          /\ Send(s, Request("password", NoSecret, NoBatch, "modal"))
          /\ other' = other + 1
    /\ ui' = [ui EXCEPT !.submitting = TRUE]
    /\ astray' = (astray \/ \E x \in Slots : net[x] # None
                                           /\ net[x].op # "me")
    /\ UNCHANGED <<row, codes, made, scanned, losses>>

\* Closing a dialogue: requests stay under way.  Closing the list of recovery
\* codes by anything but its button leaves the toggle as it was.
CloseModal ==
    /\ ui.open # "none"
    /\ ui' = Closed(ui)
    /\ net' = Leave(net, "page")
    /\ astray' = (astray \/ ui.step = "recovery")
    /\ UNCHANGED <<row, codes, made, scanned, other, losses>>

\* A plausible bug: the page is not told.
FinishUntold ==
    /\ ui.open = "setup" /\ ui.step = "recovery"
    /\ ui' = Closed(ui)
    /\ UNCHANGED <<row, codes, made, scanned, net, astray, other, losses>>

\* The button under the recovery codes.
FinishSetup ==
    /\ ui.open = "setup" /\ ui.step = "recovery"
    /\ ui' = [Closed(ui) EXCEPT !.shown = TRUE]
    /\ UNCHANGED <<row, codes, made, scanned, net, astray, other, losses>>

-----------------------------------------------------------------------------
(* The server. *)

Working(s) == net[s] # None /\ net[s].stage \in {"read", "written", "cleared"}

Step(s, r) ==
    /\ net' = [net EXCEPT ![s] = r]
    /\ UNCHANGED <<scanned, ui, other, losses>>

\* GetByID; what asks only for the state is served with it.
Read(s) ==
    /\ net[s] # None /\ net[s].stage = "sent"
    /\ Step(s, [net[s] EXCEPT !.copy = row, !.ok = (net[s].op = "me"),
                  !.stage = IF net[s].op = "me" THEN "served" ELSE "read"])
    /\ UNCHANGED <<row, codes, made, astray>>

\* The code is wrong: ErrInvalidTOTP, ErrTOTPNotSetup.
Accepted(r) ==
    CASE r.op = "confirm" ->
           r.copy.secret # NoSecret /\ r.secret = r.copy.secret
      [] r.op = "disable" ->
           \/ r.secret # NoSecret /\ r.secret = r.copy.secret
           \/ r.batch \in codes
      [] OTHER -> TRUE

Refuse(s) ==
    /\ net[s] # None /\ net[s].stage = "read" /\ ~Accepted(net[s])
    /\ Step(s, [net[s] EXCEPT !.stage = "served"])
    /\ UNCHANGED <<row, codes, made, astray>>

\* What an operation makes of its copy of the row.
Changed(r) ==
    CASE r.op = "setup" ->
           [secret |-> made.secrets + 1, enabled |-> FALSE]
      [] r.op = "confirm" -> [r.copy EXCEPT !.enabled = TRUE]
      [] r.op = "disable" -> [secret |-> NoSecret, enabled |-> FALSE]
      [] OTHER -> r.copy

\* A plausible bug: a confirmation updates the column of the flag only.
WriteFlag(s) ==
    /\ net[s] # None /\ net[s].stage = "read" /\ Accepted(net[s])
    /\ net[s].op = "setup" => made.secrets < MaxSecrets
    /\ LET r == net[s]
       IN /\ row' = IF r.op = "confirm" THEN [row EXCEPT !.enabled = TRUE]
                    ELSE Changed(r)
          /\ made' = IF r.op = "setup"
                     THEN [made EXCEPT !.secrets = @ + 1] ELSE made
          /\ Step(s, [r EXCEPT !.stage = IF r.op = "confirm" THEN "written"
                                         ELSE "served",
                               !.ok = TRUE, !.copy = row'])
    /\ UNCHANGED <<codes, astray>>

\* Update: the whole row is written, whatever it has become since the read.
Write(s) ==
    /\ net[s] # None /\ net[s].stage = "read" /\ Accepted(net[s])
    /\ net[s].op = "setup" => made.secrets < MaxSecrets
    /\ LET r == net[s]
           new == Changed(r)
       IN /\ row' = new
          /\ made' = IF r.op = "setup"
                     THEN [made EXCEPT !.secrets = @ + 1] ELSE made
          /\ IF r.op \in {"setup", "password"}
             THEN Step(s, [r EXCEPT !.stage = "served", !.ok = TRUE,
                                    !.copy = new])
             ELSE Step(s, [r EXCEPT !.stage = "written", !.copy = new])
    /\ UNCHANGED <<codes, astray>>

\* DeleteByAdminID: the recovery codes go; nothing else is left of a disable.
Clear(s) ==
    /\ net[s] # None /\ net[s].stage = "written"
    /\ codes' = {}
    /\ Step(s, IF net[s].op = "confirm"
               THEN [net[s] EXCEPT !.stage = "cleared"]
               ELSE [net[s] EXCEPT !.stage = "served", !.ok = TRUE])
    /\ UNCHANGED <<row, made, astray>>

\* A plausible bug: the old codes are deleted after the new ones are made.
GenerateThenClear(s) ==
    /\ net[s] # None /\ net[s].stage = "cleared"
    /\ made.batches < MaxBatches
    /\ made' = [made EXCEPT !.batches = @ + 1]
    /\ codes' = {}
    /\ Step(s, [net[s] EXCEPT !.stage = "served", !.ok = TRUE,
                              !.batch = made'.batches])
    /\ UNCHANGED <<row, astray>>

Generate(s) ==
    /\ net[s] # None /\ net[s].stage = "cleared"
    /\ made.batches < MaxBatches
    /\ made' = [made EXCEPT !.batches = @ + 1]
    /\ codes' = codes \cup {made'.batches}
    /\ Step(s, [net[s] EXCEPT !.stage = "served", !.ok = TRUE,
                              !.batch = made'.batches])
    /\ UNCHANGED <<row, astray>>

\* A statement fails and the operation ends there, with what it has done.
FailServer(s) ==
    /\ Working(s)
    /\ losses < MaxLosses /\ losses' = losses + 1
    /\ net' = [net EXCEPT ![s].stage = "served"]
    /\ astray' = (astray \/ net[s].stage # "read")
    /\ UNCHANGED <<row, codes, made, scanned, ui, other>>

-----------------------------------------------------------------------------
(* Answers: the request is over, Taken(s). *)

Answered(s) ==
    /\ net[s] # None /\ net[s].stage = "served"
    /\ UNCHANGED <<row, codes, made, scanned, other>>

Taken(s) == net' = [net EXCEPT ![s] = None]

\* getMe: shown unless the administrator has signed out; an answer that is
\* older than a change, or that crosses a set-up, shows what was.
AnswerMe(s) ==
    /\ Answered(s) /\ net[s].op = "me" /\ Taken(s)
    /\ IF net[s].from = "nobody" THEN UNCHANGED <<ui, astray>>
       ELSE /\ ui' = [ui EXCEPT !.shown = net[s].copy.enabled]
            /\ astray' = \/ net[s].copy.enabled # row.enabled
                         \/ ui.step = "recovery"
                         \/ \E x \in Slots \ {s} : net[x] # None
    /\ UNCHANGED losses

\* The secret is shown by the dialogue that asked for it and by no other.
AnswerSetup(s) ==
    /\ Answered(s) /\ net[s].op = "setup"
    /\ IF net[s].from = "modal" /\ ~net[s].ok
       THEN /\ ui' = Closed(ui)
            /\ net' = [Leave(net, "page") EXCEPT ![s] = None]
       ELSE /\ ui' = IF net[s].from # "modal" THEN ui
                     ELSE [ui EXCEPT !.secret = net[s].copy.secret]
            /\ Taken(s)
    /\ UNCHANGED <<astray, losses>>

\* confirm() does not look whether its dialogue was closed meanwhile: codes
\* and step are set all the same, and the dialogue has them when it opens.
AnswerConfirm(s) ==
    /\ Answered(s) /\ net[s].op = "confirm" /\ Taken(s)
    /\ ui' = IF net[s].from = "nobody" THEN ui
             ELSE [ui EXCEPT
               !.submitting = IF ui.open = "setup" THEN FALSE ELSE @,
               !.step = IF net[s].ok THEN "recovery" ELSE @,
               !.batch = IF net[s].ok THEN net[s].batch ELSE @]
    /\ astray' = (astray \/ (net[s].ok /\ net[s].from # "modal"))
    /\ UNCHANGED losses

AnswerDisable(s) ==
    /\ Answered(s) /\ net[s].op = "disable" /\ Taken(s)
    /\ ui' = IF net[s].from = "nobody" THEN ui
             ELSE IF ~net[s].ok
             THEN [ui EXCEPT !.submitting = IF ui.open = "disable" THEN FALSE
                                            ELSE @]
             ELSE [(IF ui.open = "disable" THEN Closed(ui) ELSE ui)
                     EXCEPT !.shown = FALSE]
    /\ UNCHANGED <<astray, losses>>

AnswerPassword(s) ==
    /\ Answered(s) /\ net[s].op = "password" /\ Taken(s)
    /\ ui' = IF net[s].from = "nobody" \/ ui.open # "password" THEN ui
             ELSE IF net[s].ok THEN Closed(ui)
             ELSE [ui EXCEPT !.submitting = FALSE]
    /\ UNCHANGED <<astray, losses>>

\* The answer does not arrive: the tab takes the operation for failed.
LoseAnswer(s) ==
    /\ net[s] # None /\ net[s].stage = "served" /\ net[s].ok
    /\ losses < MaxLosses /\ losses' = losses + 1
    /\ ui' = IF net[s].from # "modal" THEN ui
             ELSE IF net[s].op = "setup" THEN Closed(ui)
             ELSE [ui EXCEPT !.submitting = FALSE]
    /\ net' = [(IF net[s].op = "setup" /\ net[s].from = "modal"
                THEN Leave(net, "page") ELSE net) EXCEPT ![s] = None]
    /\ astray' = (astray \/ net[s].op \in {"me", "confirm", "disable"})
    /\ UNCHANGED <<row, codes, made, scanned, other>>

-----------------------------------------------------------------------------
Admin ==
    \/ Logout \/ OpenOther \/ Scan \/ CloseModal \/ FinishSetup
    \/ \E s \in Slots :
         Login(s) \/ ReloadPage(s) \/ OpenSetup(s) \/ Submit(s)

Server ==
    \E s \in Slots :
      Read(s) \/ Refuse(s) \/ Write(s) \/ Clear(s) \/ Generate(s)
      \/ FailServer(s)

Answer ==
    \E s \in Slots :
      \/ AnswerMe(s) \/ AnswerSetup(s) \/ AnswerConfirm(s)
      \/ AnswerDisable(s) \/ AnswerPassword(s) \/ LoseAnswer(s)

Next == Admin \/ Server \/ Answer

Spec == Init /\ [][Next]_vars

-----------------------------------------------------------------------------
(* Properties. *)

\* The administrator is never locked out: the secret that is on is one he has
\* in his authenticator, however set-ups, confirmations, password changes and
\* disables interleave and fail (auth.go writes the copy a code was checked
\* against).  Rows, requests and dialogues keep their types, and a tab that
\* has signed out shows nothing of a late answer.
SecretScanned == row.enabled => row.secret \in scanned
NoLockout == TypeOK /\ SecretScanned

\* With nothing under way and no dialogue open, the toggle shows whether the
\* second factor is on, unless since the tab was last told: the codes were
\* closed without their button, a confirmation was answered after its dialogue
\* was closed, a code was sent while another operation was under way, an
\* operation failed half-way, or an answer was lost or overtaken.
ToggleIsTruthful ==
    /\ ui.signedIn /\ ui.open = "none" /\ ~astray
    /\ \A s \in Slots : net[s] = None
    => ui.shown = row.enabled

\* The recovery codes on the screen are the ones the server accepts, with the
\* same exceptions.
CodesShownWork ==
    /\ ui.open = "setup" /\ ui.step = "recovery" /\ ~astray
    => ui.batch \in codes
=============================================================================
