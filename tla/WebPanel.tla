------------------------------ MODULE WebPanel ------------------------------
(***************************************************************************)
(* One browser tab of the panel: the store that reloads the lists every    *)
(* three seconds and after every operation (lib/store.tsx), and the        *)
(* clients page over it (pages/ClientsPage.tsx) with its filter, its       *)
(* selection, its bulk operations, the form that adds a client and the     *)
(* form that edits one.                                                    *)
(*                                                                         *)
(* The tab and the server meet only in requests.  A request is sent,       *)
(* served at some later instant and answered at a later one, or lost; two  *)
(* requests are served and answered in any order, and the timer sends a    *)
(* reload without waiting for the one before.  The three lists a reload    *)
(* asks for are one request here: Promise.all shows all of them or none.   *)
(***************************************************************************)
EXTENDS FiniteSets, Naturals

CONSTANTS
    Clients,     \* the clients that can exist
    Present,     \* those there are at first
    Inbounds,    \* the inbounds that can exist
    Nodes,       \* the places an inbound can be at ("local" or a node)
    NodeOf,      \* [Inbounds -> Nodes]
    Filters,     \* the filters the admin uses: "all" or a status
    BulkActions, \* the bulk operations the admin uses
    Lanes,       \* the places for requests of the tab under way
    Nil,         \* no request in a lane, no operation running, no form
    MaxEdits,    \* bound: operations the admin sends and changes elsewhere
    MaxMissed    \* bound: requests that fail

ASSUME PanelAssumption ==
    /\ Present \subseteq Clients
    /\ NodeOf \in [Inbounds -> Nodes]
    /\ "all" \in Filters /\ Filters \subseteq {"all", "active", "disabled"}
    /\ BulkActions \subseteq {"enable", "disable", "reset", "delete"}
    /\ MaxEdits \in Nat /\ MaxMissed \in Nat

VARIABLES
    table,     \* server: the status of each client, "gone" if there is none
    inbounds,  \* server: the inbounds there are
    calls,     \* the request in each lane, or Nil
    shown,     \* the lists the tab shows
    page,      \* filter, selection, failures and running bulk operation
    form,      \* the form or dialogue in front of the page, or Nil
    edits,     \* operations sent and changes made elsewhere
    missed     \* failed requests

panelVars == <<table, inbounds, calls, shown, page, form, edits, missed>>

Statuses == {"active", "disabled"}

Lists == [clients : [Clients -> Statuses \cup {"gone"}],
          inbounds : SUBSET Inbounds]

\* ids: the clients it is about and, once served, those it failed for; body:
\* what is asked; stage: "sent", "served" or, for the reload an operation
\* waits for, "done"; lists: what a reload brings; failed: the operation was
\* refused; then: what the reload is part of; from: who takes the answer, the
\* "form" that asked, else the "page", else "nobody".
Calls ==
    [op : {"load", "bulk", "edit", "add"}, ids : SUBSET Clients,
     body : Statuses \cup BulkActions \cup {"none"},
     stage : {"sent", "served", "done"}, lists : Lists \cup {Nil},
     failed : BOOLEAN, then : {"none", "bulk", "edit", "add"},
     from : {"form", "page", "nobody"}]

Forms ==
    [kind : {"add"}, node : Nodes, chosen : SUBSET Inbounds,
     typed : BOOLEAN, saving : BOOLEAN]
    \cup [kind : {"edit"}, id : Clients, status : Statuses,
          typed : BOOLEAN, saving : BOOLEAN]
    \cup [kind : {"confirm"}, action : {"reset", "delete"}]

ASSUME NilAssumption == Nil \notin Calls \cup Forms \cup Lists

\* Types; an answer is of the kind its request asks for.
PanelTypeOK ==
    /\ [clients |-> table, inbounds |-> inbounds] \in Lists
    /\ shown \in Lists
    /\ page \in [filter : Filters, selected : SUBSET Clients,
                 failures : SUBSET Clients,
                 running : BOOLEAN]
    /\ form \in Forms \cup {Nil}
    /\ edits \in 0..MaxEdits /\ missed \in 0..MaxMissed
    /\ \A s \in Lanes : calls[s] # Nil =>
         /\ calls[s] \in Calls
         /\ calls[s].lists # Nil => calls[s].op = "load"
         /\ calls[s].stage = "done" => calls[s].then # "none"

EmptyPage == [filter |-> "all", selected |-> {}, failures |-> {},
              running |-> FALSE]

PanelInit ==
    /\ table = [c \in Clients |-> IF c \in Present THEN "active" ELSE "gone"]
    /\ inbounds = Inbounds
    /\ calls = [s \in Lanes |-> Nil]
    /\ shown = [clients |-> [c \in Clients |-> "gone"], inbounds |-> {}]
    /\ page = EmptyPage
    /\ form = Nil
    /\ edits = 0 /\ missed = 0

-----------------------------------------------------------------------------
(* What the page shows, and the form that adds a client. *)

\* The rows of the table: the clients that pass the filter.
Visible ==
    {c \in Clients : /\ shown.clients[c] # "gone"
                     /\ page.filter \in {"all", shown.clients[c]}}

\* The inbounds the form offers: those shown that are at its node.
Options(node, list) == {i \in list : NodeOf[i] = node}

\* A plausible bug: the form keeps what was chosen.
PruneNothing(f, list) == {f}

\* The effect that keeps the chosen inbounds among those offered: what is no
\* longer offered goes, and the first one offered is taken when none is left.
Prune(f, list) ==
    IF f = Nil \/ f.kind # "add" THEN {f}
    ELSE LET valid == f.chosen \cap Options(f.node, list)
         IN IF valid # {} \/ Options(f.node, list) = {}
            THEN {[f EXCEPT !.chosen = valid]}
            ELSE {[f EXCEPT !.chosen = {i}] : i \in Options(f.node, list)}

-----------------------------------------------------------------------------
(* Sending a request. *)

Call(op, ids, body, from) ==
    [op |-> op, ids |-> ids, body |-> body, stage |-> "sent",
     lists |-> Nil, failed |-> FALSE, then |-> "none", from |-> from]

StartCall(s, r) == calls[s] = Nil /\ calls' = [calls EXCEPT ![s] = r]

\* A plausible bug: the timer only runs until the first request has failed.
PollUntilLoss(s) ==
    /\ missed = 0
    /\ StartCall(s, Call("load", {}, "none", "nobody"))
    /\ UNCHANGED <<table, inbounds, shown, page, form, edits, missed>>

\* setInterval(loadAll, 3000): sent whether or not the one before is answered.
Poll(s) ==
    /\ StartCall(s, Call("load", {}, "none", "nobody"))
    /\ UNCHANGED <<table, inbounds, shown, page, form, edits, missed>>

\* An operation of the admin uses up one of the edits of the run.
Operate(s, r) ==
    /\ edits < MaxEdits
    /\ StartCall(s, r)
    /\ edits' = edits + 1
    /\ UNCHANGED <<table, inbounds, shown, missed>>

-----------------------------------------------------------------------------
(* The clients page. *)

\* A plausible bug: the list of failures outlives the selection.
SelectOnly(ids) == page' = [page EXCEPT !.selected = ids]

\* A new selection clears the list of failures of the last operation.
Select(ids) ==
    page' = [page EXCEPT !.selected = ids, !.failures = {}]

\* The boxes and buttons are on and not behind a form.
Idle == ~page.running /\ form = Nil

\* A row's box, and the box of the head: off while an operation is running.
ToggleOne ==
    /\ Idle
    /\ \E c \in Visible :
         Select(IF c \in page.selected THEN page.selected \ {c}
                ELSE page.selected \cup {c})
    /\ UNCHANGED <<table, inbounds, calls, shown, form, edits, missed>>

ToggleAll ==
    /\ Idle /\ Visible # {}
    /\ Select(IF Visible \subseteq page.selected
              THEN page.selected \ Visible
              ELSE page.selected \cup Visible)
    /\ UNCHANGED <<table, inbounds, calls, shown, form, edits, missed>>

ClearSelection ==
    /\ Idle /\ page.selected # {}
    /\ Select({})
    /\ UNCHANGED <<table, inbounds, calls, shown, form, edits, missed>>

\* A new filter from the bar, which a form covers, clears the selection: also
\* while an operation is running.
UpdateFilter ==
    /\ form = Nil
    /\ \E f \in Filters \ {page.filter} :
         page' = [page EXCEPT !.filter = f, !.selected = {}, !.failures = {}]
    /\ UNCHANGED <<table, inbounds, calls, shown, form, edits, missed>>

\* The draft the form that adds a client is filled with: at the node of the
\* filter, with its inbound or the first one there.
Drafts(saving) ==
    UNION {Prune([kind |-> "add", node |-> n, chosen |-> {}, typed |-> FALSE,
                  saving |-> saving], shown.inbounds) : n \in Nodes}

\* The inbound or node in the address changes, by Back or Forward, and the
\* page follows it, with a form open or not: the selection is cleared, and a
\* form that adds a client is filled again.
FollowAddress ==
    /\ page' = [page EXCEPT !.selected = {}, !.failures = {}]
    /\ form' \in {form} \cup
         (IF form # Nil /\ form.kind = "add" THEN Drafts(form.saving) ELSE {})
    /\ UNCHANGED <<table, inbounds, calls, shown, edits, missed>>

OpenConfirm ==
    /\ Idle /\ page.selected # {}
    /\ \E a \in BulkActions \cap {"reset", "delete"} :
         form' = [kind |-> "confirm", action |-> a]
    /\ UNCHANGED <<table, inbounds, calls, shown, page, edits, missed>>

\* runBulkAction: the selection of this moment is sent.
RunBulkAction(s) ==
    /\ ~page.running /\ page.selected # {}
    /\ \E a \in BulkActions :
         /\ IF a \in {"enable", "disable"} THEN form = Nil
            ELSE form # Nil /\ form = [kind |-> "confirm", action |-> a]
         /\ Operate(s, Call("bulk", page.selected, a, "page"))
         /\ page' = [page EXCEPT !.running = TRUE, !.failures = {}]
    /\ UNCHANGED form

-----------------------------------------------------------------------------
(* The forms. *)

OpenEdit ==
    /\ form = Nil
    /\ \E c \in Visible :
         form' = [kind |-> "edit", id |-> c, status |-> shown.clients[c],
                  typed |-> FALSE, saving |-> FALSE]
    /\ UNCHANGED <<table, inbounds, calls, shown, page, edits, missed>>

OpenAdd ==
    /\ form = Nil
    /\ form' \in Drafts(FALSE)
    /\ UNCHANGED <<table, inbounds, calls, shown, page, edits, missed>>

\* The admin types: a name, another status, another node, other inbounds.
\* The form stays open to typing while it is being saved.
TypeInForm ==
    /\ form # Nil
    /\ \/ /\ form.kind = "edit"
          /\ \E st \in Statuses :
               form' = [form EXCEPT !.status = st, !.typed = TRUE]
       \/ /\ form.kind = "add"
          /\ \E n \in Nodes :
               form' \in Prune([form EXCEPT !.node = n, !.typed = TRUE],
                               shown.inbounds)
       \/ /\ form.kind = "add"
          /\ \E ids \in SUBSET Options(form.node, shown.inbounds) :
               form' \in Prune([form EXCEPT !.chosen = ids, !.typed = TRUE],
                               shown.inbounds)
    /\ UNCHANGED <<table, inbounds, calls, shown, page, edits, missed>>

\* The whole draft is sent, with the status it was opened with.
SaveForm(s) ==
    /\ form # Nil /\ form.kind \in {"add", "edit"} /\ ~form.saving
    /\ \/ /\ form.kind = "edit"
          /\ Operate(s, Call("edit", {form.id}, form.status, "form"))
       \/ /\ form.kind = "add" /\ form.typed /\ form.chosen # {}
          /\ Operate(s, Call("add", {}, "none", "form"))
    /\ form' = [form EXCEPT !.saving = TRUE]
    /\ UNCHANGED page

Disown(r, who) ==
    IF r # Nil /\ r.from \in who
    THEN [r EXCEPT !.from = IF who = {"form"} THEN "page" ELSE "nobody"]
    ELSE r

\* Closing a form while it is being saved leaves the request under way.
CloseForm ==
    /\ form # Nil
    /\ form' = Nil
    /\ calls' = [s \in Lanes |-> Disown(calls[s], {"form"})]
    /\ UNCHANGED <<table, inbounds, shown, page, edits, missed>>

\* Another page, and back: the state of the clients page is lost, the store
\* and the requests are not.
Revisit ==
    /\ <<page, form>> # <<EmptyPage, Nil>>
    /\ page' = EmptyPage /\ form' = Nil
    /\ calls' = [s \in Lanes |-> Disown(calls[s], {"form", "page"})]
    /\ UNCHANGED <<table, inbounds, shown, edits, missed>>

-----------------------------------------------------------------------------
(* The server: it serves a request at one instant, and others change the   *)
(* tables as well.                                                         *)

\* What a bulk operation leaves of the status of a client.
Outcome(action, old) ==
    CASE action = "enable" -> "active"
      [] action = "disable" -> "disabled"
      [] action = "reset" -> old
      [] action = "delete" -> "gone"

ServeLoad(s) ==
    /\ calls[s].op = "load"
    /\ calls' = [calls EXCEPT ![s].stage = "served", ![s].lists =
                 [clients |-> table, inbounds |-> inbounds]]
    /\ UNCHANGED table

\* A bulk operation is refused, or says of each client whether it was done.
ServeBulk(s) ==
    /\ calls[s].op = "bulk"
    /\ \/ /\ UNCHANGED table
          /\ calls' = [calls EXCEPT ![s].stage = "served", ![s].failed = TRUE]
       \/ \E bad \in SUBSET calls[s].ids :
            /\ \A c \in calls[s].ids : table[c] = "gone" => c \in bad
            /\ table' = [c \in Clients |->
                           IF c \in calls[s].ids \ bad
                           THEN Outcome(calls[s].body, table[c]) ELSE table[c]]
            /\ calls' = [calls EXCEPT ![s].stage = "served", ![s].ids = bad]

\* A save is refused, or it overwrites the status, or it adds a client.
ServeForm(s) ==
    /\ calls[s].op \in {"edit", "add"}
    /\ \/ /\ UNCHANGED table
          /\ calls' = [calls EXCEPT ![s].stage = "served", ![s].failed = TRUE]
       \/ /\ \E c \in IF calls[s].op = "edit" THEN calls[s].ids ELSE Clients :
               /\ (table[c] = "gone") <=> (calls[s].op = "add")
               /\ table' = [table EXCEPT ![c] =
                              IF calls[s].op = "edit" THEN calls[s].body
                              ELSE "active"]
          /\ calls' = [calls EXCEPT ![s].stage = "served"]

Serve(s) ==
    /\ calls[s] # Nil /\ calls[s].stage = "sent"
    /\ ServeLoad(s) \/ ServeBulk(s) \/ ServeForm(s)
    /\ UNCHANGED <<inbounds, shown, page, form, edits, missed>>

\* Enforcement, a schedule or another tab: a client changes or goes, an
\* inbound goes.
ChangeElsewhere ==
    /\ edits < MaxEdits /\ edits' = edits + 1
    /\ \/ /\ \E c \in Clients, st \in Statuses \cup {"gone"} :
               /\ table[c] \notin {"gone", st}
               /\ table' = [table EXCEPT ![c] = st]
          /\ UNCHANGED inbounds
       \/ /\ \E i \in inbounds : inbounds' = inbounds \ {i}
          /\ UNCHANGED table
    /\ UNCHANGED <<calls, shown, page, form, missed>>

-----------------------------------------------------------------------------
(* Answers. *)

\* A bulk operation is over: what failed stays selected, whatever the filter
\* has become; without an answer the selection stays.  The dialogue closes.
EndBulk(r) ==
    IF r.from = "nobody" THEN UNCHANGED <<page, form>>
    ELSE /\ page' = [page EXCEPT
              !.running = FALSE,
              !.selected = IF r.failed THEN @ ELSE r.ids,
              !.failures = IF r.failed THEN @ ELSE r.ids]
         /\ form' = IF form # Nil /\ form.kind = "confirm"
                    THEN Nil ELSE form

\* A save is over: it closes the form, and also one of the same kind that
\* was opened since; a failed one stays open.
EndForm(r, kind) ==
    /\ UNCHANGED page
    /\ form' = IF form = Nil \/ form.kind # kind \/ r.from = "nobody"
               THEN form
               ELSE IF ~r.failed THEN Nil
               ELSE IF r.from = "form" THEN [form EXCEPT !.saving = FALSE]
               ELSE form

\* The operation failed, or its request was lost before or after the server.
Fail(s) ==
    /\ calls[s] # Nil /\ calls[s].op # "load"
    /\ \/ calls[s].failed /\ UNCHANGED missed
       \/ missed < MaxMissed /\ missed' = missed + 1
    /\ LET r == [calls[s] EXCEPT !.failed = TRUE]
       IN IF r.op = "bulk" THEN EndBulk(r) ELSE EndForm(r, r.op)
    /\ calls' = [calls EXCEPT ![s] = Nil]
    /\ UNCHANGED <<table, inbounds, shown, edits>>

\* The operation was done: the store reloads before it says so.
Reload(s) ==
    /\ calls[s] # Nil /\ calls[s].op # "load" /\ calls[s].stage = "served"
    /\ ~calls[s].failed
    /\ calls' = [calls EXCEPT ![s] =
                 [Call("load", calls[s].ids, "none", calls[s].from)
                    EXCEPT !.then = calls[s].op]]
    /\ UNCHANGED <<table, inbounds, shown, page, form, edits, missed>>

\* A reload is over, its lists shown or not; one that an operation waits for
\* goes on, with the history and the log, before the operation ends.
AfterLoad(s) ==
    calls' = [calls EXCEPT ![s] =
              IF @.then = "none" THEN Nil ELSE [@ EXCEPT !.stage = "done"]]

\* A plausible bug: the effect that fills the form runs for every new list.
DeliverAndFillForm(s) ==
    /\ calls[s] # Nil /\ calls[s].op = "load" /\ calls[s].stage = "served"
    /\ shown' = calls[s].lists
    /\ form' \in IF form # Nil /\ form.kind = "add"
                 THEN Prune([form EXCEPT !.typed = FALSE], shown'.inbounds)
                 ELSE {form}
    /\ AfterLoad(s)
    /\ UNCHANGED <<table, inbounds, page, edits, missed>>

\* The lists of an answer are shown, older or newer than those shown now; the
\* draft of an open form is not touched, its choice of inbounds is pruned.
Deliver(s) ==
    /\ calls[s] # Nil /\ calls[s].op = "load" /\ calls[s].stage = "served"
    /\ shown' = calls[s].lists
    /\ form' \in Prune(form, shown'.inbounds)
    /\ AfterLoad(s)
    /\ UNCHANGED <<table, inbounds, page, edits, missed>>

LoseLoad(s) ==
    /\ calls[s] # Nil /\ calls[s].op = "load" /\ calls[s].stage # "done"
    /\ missed < MaxMissed /\ missed' = missed + 1
    /\ AfterLoad(s)
    /\ UNCHANGED <<table, inbounds, shown, page, form, edits>>

Finish(s) ==
    /\ calls[s] # Nil /\ calls[s].stage = "done"
    /\ IF calls[s].then = "bulk" THEN EndBulk(calls[s])
       ELSE EndForm(calls[s], calls[s].then)
    /\ calls' = [calls EXCEPT ![s] = Nil]
    /\ UNCHANGED <<table, inbounds, shown, edits, missed>>

-----------------------------------------------------------------------------
TakeAnswer(s) == \/ Fail(s) \/ Reload(s) \/ Deliver(s) \/ LoseLoad(s)
             \/ Finish(s)

AdminActs ==
    \/ ToggleOne \/ ToggleAll \/ ClearSelection \/ UpdateFilter
    \/ FollowAddress
    \/ OpenConfirm \/ OpenEdit \/ OpenAdd \/ TypeInForm
    \/ CloseForm \/ Revisit
    \/ \E s \in Lanes : RunBulkAction(s) \/ SaveForm(s)

PanelNext ==
    \/ AdminActs
    \/ ChangeElsewhere
    \/ \E s \in Lanes : Poll(s) \/ Serve(s) \/ TakeAnswer(s)

PanelSpec == PanelInit /\ [][PanelNext]_panelVars

\* The timer keeps ticking, and every request is answered or fails.
PanelFairSpec ==
    /\ PanelSpec
    /\ WF_panelVars(\E s \in Lanes : Poll(s))
    /\ \A s \in Lanes : WF_panelVars(Serve(s) \/ TakeAnswer(s))

-----------------------------------------------------------------------------
(* Properties. *)

\* The list of failures is about the selection: whatever a filter, a box, an
\* answer or another page did in between, the clients it names are the ones
\* the next bulk operation will act on (ClientsPage.tsx, five handlers).  The
\* variables keep their types.
AlertIsAboutSelection ==
    /\ PanelTypeOK
    /\ page.failures # {} => page.failures = page.selected

\* The form that adds a client never names an inbound of another node or one
\* that is no longer shown, and is never left without one to be had, although
\* the lists under it change at any time (add-client-modal.tsx, 104-115).
AddFormFits ==
    form # Nil /\ form.kind = "add" =>
      LET offered == Options(form.node, shown.inbounds)
      IN /\ form.chosen \subseteq offered
         /\ offered # {} => form.chosen # {}

\* What the admin typed is lost only by closing the form or leaving the page,
\* when a save of a form of this kind is done, or, in the form that adds a
\* client, when the address changes under it (add-client-modal.tsx, 70-93):
\* not by a reload of the lists, a failed save, a change of the client or a
\* bulk operation.
Typed(f) == f # Nil /\ f.kind \in {"add", "edit"} /\ f.typed
TypedIsKept ==
    [][Typed(form) /\ ~Typed(form') =>
         \/ CloseForm \/ Revisit
         \/ form.kind = "add" /\ FollowAddress
         \/ \E s \in Lanes : Finish(s) /\ calls[s].then = form.kind]_panelVars

\* When the tables no longer change, the tab comes to show them and goes on
\* showing them, although answers overtake each other and requests fail.
ShowsTheTables ==
    <>[](shown = [clients |-> table, inbounds |-> inbounds])
=============================================================================
