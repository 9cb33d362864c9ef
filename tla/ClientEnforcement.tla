-------------------------- MODULE ClientEnforcement --------------------------
(***************************************************************************)
(* The life of a client row: the operations of the client service          *)
(* (internal/services/client/service.go over repo/sqlite/client_repo.go),  *)
(* the two goroutines that enforce quota and expiry                        *)
(* (internal/services/stats/worker.go), and the scheduled tasks that reset *)
(* traffic and delete expired clients (cmd/main.go).                       *)
(*                                                                         *)
(* Every SQL statement or transaction is atomic; what lies between two of  *)
(* them is not.  Enforcement and the tasks list all clients and then write *)
(* one row at a time from that list, and Update writes back the row it has *)
(* read.  Time is a small counter and traffic is counted in small units.   *)
(***************************************************************************)
EXTENDS Naturals

CONSTANTS
  Clients,    \* client identities
  Admins,     \* request goroutines of the client endpoints
  Quotas,     \* the quotas that occur, 0 for none
  Expiries,   \* the expiry times that occur, 0 for none
  MaxTime,    \* bound: the clock, which starts at 1
  MaxUsed,    \* bound: the traffic of a client between two resets
  MaxEdits,   \* bound: requests and task runs
  Unused,     \* a row that was never created
  Absent      \* a row that was deleted; ids are not used again

Statuses == {"active", "disabled", "expired"}

Row == [used : 0 .. MaxUsed, quota : Quotas, expiry : Expiries,
        status : Statuses, enabled : BOOLEAN]

ASSUME ConstantsAssumption ==
  /\ MaxUsed \in Nat /\ MaxEdits \in Nat /\ MaxTime \in Nat \ {0}
  /\ Quotas \subseteq Nat /\ 0 \in Quotas
  /\ Expiries \subseteq Nat /\ 0 \in Expiries
  /\ {Unused, Absent} \intersect Row = {} /\ Unused # Absent
  /\ Admins \intersect {"enforce", "account", "task"} = {}

Loops == {"enforce", "account"}
Procs == Loops \union {"task"} \union Admins

VARIABLES
  row,      \* the clients table
  now,      \* the clock
  pc,       \* where each goroutine is
  todo,     \* the clients each goroutine has yet to write, from its list
  read,     \* the row a request's Update has read
  changed,  \* enforce's local: a client was disabled in this round
  token,    \* an Apply has been triggered and not yet run
  missed,   \* history: clients a failed Apply has left as they were, until
            \* an Apply succeeds or the next change is announced
  config,   \* the clients the live configuration names
  metered,  \* history: the traffic counted since the last reset
  swept,    \* history: clients the delete_expired task removed
  edits     \* number of requests and task runs so far

vars == <<row, now, pc, todo, read, changed, token, missed, config, metered,
          swept, edits>>

Labels == {"idle", "list", "visit", "update", "bulk", "reset", "sweep"}

TypeOK ==
  /\ row \in [Clients -> Row \union {Unused, Absent}]
  /\ now \in 1 .. MaxTime
  /\ pc \in [Procs -> Labels]
  /\ todo \in [Procs -> SUBSET Clients]
  /\ read \in [Admins -> Row \union {Absent}]
  /\ changed \in [Loops -> BOOLEAN]
  /\ token \in BOOLEAN
  /\ missed \subseteq Clients
  /\ config \subseteq Clients
  /\ metered \in [Clients -> 0 .. MaxUsed]
  /\ swept \subseteq Clients
  /\ edits \in 0 .. MaxEdits

\* Create inserts an active client with any quota and expiry.
NewRows == {r \in Row : r.used = 0 /\ r.status = "active" /\ r.enabled}

Init ==
  /\ row \in [Clients -> {Unused} \union NewRows]
  /\ now = 1
  /\ pc = [p \in Procs |-> "idle"]
  /\ todo = [p \in Procs |-> {}]
  /\ read = [a \in Admins |-> Absent]
  /\ changed = [l \in Loops |-> FALSE]
  /\ token = FALSE
  /\ missed = {}
  /\ config = {c \in Clients : row[c] # Unused}
  /\ metered = [c \in Clients |-> 0]
  /\ swept = {}
  /\ edits = 0

Exists(c)        == row[c] \notin {Unused, Absent}
QuotaExceeded(r) == r.quota > 0 /\ r.used >= r.quota
IsExpired(r)     == r.expiry > 0 /\ now > r.expiry
Over(r)          == IsExpired(r) \/ QuotaExceeded(r)

\* The condition under which enforce disables a client of its list.
Violating(c) ==
  Exists(c) /\ row[c].enabled /\ row[c].status = "active" /\ Over(row[c])

\* ListEnabled, the query of the generator.
ListEnabled == {c \in Clients : Exists(c) /\ row[c].enabled}

Goto(p, l) == pc' = [pc EXCEPT ![p] = l]

\* The UPDATE of the status columns; no row, no effect.
WithStatus(C, s) ==
  [c \in Clients |->
     IF c \in C /\ Exists(c)
       THEN [row[c] EXCEPT !.status = s, !.enabled = (s = "active")]
       ELSE row[c]]

\* The UPDATE of the counters.
WithoutTraffic(C) ==
  [c \in Clients |-> IF c \in C /\ Exists(c) THEN [row[c] EXCEPT !.used = 0]
                                            ELSE row[c]]

\* The UPDATE that adds traffic, and the history of it.
Counted(C) ==
  [c \in Clients |-> IF c \in C THEN [row[c] EXCEPT !.used = @ + 1]
                               ELSE row[c]]

Metered(C) ==
  [c \in Clients |-> IF c \in C THEN metered[c] + 1 ELSE metered[c]]

\* notify: an Apply is going to render every change there is.
Announce == token' = TRUE /\ missed' = {}

Edit == edits < MaxEdits /\ edits' = edits + 1

-----------------------------------------------------------------------------
(* Accounting and enforcement.                                             *)

\* account adds the traffic of a tick in one transaction, for the clients
\* of its list that still exist, and goes on to enforce.
AddTraffic ==
  /\ pc["account"] = "idle"
  /\ \E C \in SUBSET {c \in config : Exists(c) /\ metered[c] < MaxUsed} :
       /\ C # {}
       /\ row' = Counted(C)
       /\ metered' = Metered(C)
  /\ Goto("account", "list")
  /\ UNCHANGED <<now, todo, read, changed, token, missed, config, swept,
                 edits>>

\* The ticker of the enforcement loop.
Tick ==
  /\ pc["enforce"] = "idle"
  /\ \E c \in Clients : Violating(c)
  /\ Goto("enforce", "list")
  /\ UNCHANGED <<now, row, todo, read, changed, token, missed, config, metered,
                 swept, edits>>

\* Mutant of List: the quota is compared with > instead of >=.
ListLate(l) ==
  /\ pc[l] = "list"
  /\ todo' = [todo EXCEPT ![l] =
       {c \in Clients : /\ Violating(c)
                        /\ IsExpired(row[c]) \/ row[c].used > row[c].quota}]
  /\ Goto(l, "visit")
  /\ UNCHANGED <<now, row, read, changed, token, missed, config, metered,
                 swept, edits>>

\* enforce lists the clients and decides from the list.
List(l) ==
  /\ pc[l] = "list"
  /\ todo' = [todo EXCEPT ![l] = {c \in Clients : Violating(c)}]
  /\ Goto(l, "visit")
  /\ UNCHANGED <<now, row, read, changed, token, missed, config, metered,
                 swept, edits>>

\* Mutant of Expire: the enabled flag keeps its value.
ExpireStatusOnly(l, c) ==
  /\ pc[l] = "visit"
  /\ c \in todo[l]
  /\ row' = IF Exists(c) THEN [row EXCEPT ![c].status = "expired"] ELSE row
  /\ changed' = [changed EXCEPT ![l] = TRUE]
  /\ todo' = [todo EXCEPT ![l] = @ \ {c}]
  /\ UNCHANGED <<now, pc, read, token, missed, config, metered, swept, edits>>

\* enforce sets one client to expired.
Expire(l, c) ==
  /\ pc[l] = "visit"
  /\ c \in todo[l]
  /\ row' = WithStatus({c}, "expired")
  /\ changed' = [changed EXCEPT ![l] = TRUE]
  /\ todo' = [todo EXCEPT ![l] = @ \ {c}]
  /\ UNCHANGED <<now, pc, read, token, missed, config, metered, swept, edits>>

\* Mutant of ExpireFails: enforce gives up instead of continuing.
ExpireFailsReturns(l, c) ==
  /\ pc[l] = "visit"
  /\ c \in todo[l]
  /\ todo' = [todo EXCEPT ![l] = {}]
  /\ changed' = [changed EXCEPT ![l] = FALSE]
  /\ Goto(l, "idle")
  /\ UNCHANGED <<now, row, read, token, missed, config, metered, swept, edits>>

\* The UPDATE fails: enforce logs it and goes on with the next client.
ExpireFails(l, c) ==
  /\ pc[l] = "visit"
  /\ c \in todo[l]
  /\ todo' = [todo EXCEPT ![l] = @ \ {c}]
  /\ UNCHANGED <<now, row, pc, read, changed, token, missed, config, metered,
                 swept, edits>>

\* The end of enforce: trigger an Apply if a client was disabled.
Enforced(l) ==
  /\ pc[l] = "visit"
  /\ todo[l] = {}
  /\ IF changed[l] THEN Announce ELSE UNCHANGED <<token, missed>>
  /\ changed' = [changed EXCEPT ![l] = FALSE]
  /\ Goto(l, "idle")
  /\ UNCHANGED <<now, row, todo, read, config, metered, swept, edits>>

-----------------------------------------------------------------------------
(* The client endpoints; those that change the configuration trigger.      *)

Create(a, c) ==
  /\ pc[a] = "idle" /\ Edit
  /\ row[c] = Unused
  /\ \E r \in NewRows : row' = [row EXCEPT ![c] = r]
  /\ Announce
  /\ UNCHANGED <<now, pc, todo, read, changed, config, metered, swept>>

\* Update reads the row ...
ReadRow(a, c) ==
  /\ pc[a] = "idle" /\ Edit
  /\ Exists(c)
  /\ read' = [read EXCEPT ![a] = row[c]]
  /\ todo' = [todo EXCEPT ![a] = {c}]
  /\ Goto(a, "update")
  /\ UNCHANGED <<now, row, changed, token, missed, config, metered, swept>>

\* ... and changes one of quota, expiry or status, or only its name.
Edited(r) ==
  {r} \union {[r EXCEPT !.quota = q] : q \in Quotas}
      \union {[r EXCEPT !.expiry = e] : e \in Expiries}
      \union {[r EXCEPT !.status = s, !.enabled = (s = "active")] :
                 s \in Statuses}

\* Mutant of WriteRow: the UPDATE also writes the counters back.
WriteRowWhole(a) ==
  /\ pc[a] = "update"
  /\ \E c \in todo[a] :
       IF Exists(c)
         THEN /\ \E r \in Edited(read[a]) : row' = [row EXCEPT ![c] = r]
              /\ Announce
         ELSE UNCHANGED <<row, token, missed>>
  /\ read' = [read EXCEPT ![a] = Absent]
  /\ todo' = [todo EXCEPT ![a] = {}]
  /\ Goto(a, "idle")
  /\ UNCHANGED <<now, changed, config, metered, swept, edits>>

\* ... and writes every column back except the counters.  If the client is
\* gone, replacing its inbounds fails on the foreign key.
WriteRow(a) ==
  /\ pc[a] = "update"
  /\ \E c \in todo[a] :
       IF Exists(c)
         THEN /\ \E r \in Edited(read[a]) :
                   row' = [row EXCEPT ![c] = [r EXCEPT !.used = row[c].used]]
              /\ Announce
         ELSE UNCHANGED <<row, token, missed>>
  /\ read' = [read EXCEPT ![a] = Absent]
  /\ todo' = [todo EXCEPT ![a] = {}]
  /\ Goto(a, "idle")
  /\ UNCHANGED <<now, changed, config, metered, swept, edits>>

SetStatus(a, c, s) ==
  /\ pc[a] = "idle" /\ Edit
  /\ Exists(c)
  /\ row' = WithStatus({c}, s)
  /\ Announce
  /\ UNCHANGED <<now, pc, todo, read, changed, config, metered, swept>>

\* Resetting the counters neither triggers nor reactivates.
ResetTraffic(a, c) ==
  /\ pc[a] = "idle" /\ Edit
  /\ Exists(c)
  /\ row' = WithoutTraffic({c})
  /\ metered' = [metered EXCEPT ![c] = 0]
  /\ UNCHANGED <<now, pc, todo, read, changed, token, missed, config, swept>>

Delete(a, c) ==
  /\ pc[a] = "idle" /\ Edit
  /\ Exists(c)
  /\ row' = [row EXCEPT ![c] = Absent]
  /\ Announce
  /\ UNCHANGED <<now, pc, todo, read, changed, config, metered, swept>>

\* A batch looks up the clients, those that are gone stay out of it ...
BulkCheck(a) ==
  /\ pc[a] = "idle" /\ Edit
  /\ \E C \in SUBSET {c \in Clients : Exists(c)} :
       C # {} /\ todo' = [todo EXCEPT ![a] = C]
  /\ Goto(a, "bulk")
  /\ UNCHANGED <<now, row, read, changed, token, missed, config, metered,
                 swept>>

\* The three batches: BulkSetStatus and BulkDelete notify, BulkResetTraffic
\* does not.
BulkStatus(C) ==
  /\ \E s \in {"active", "disabled"} : row' = WithStatus(C, s)
  /\ Announce
  /\ UNCHANGED metered

BulkDelete(C) ==
  /\ row' = [c \in Clients |-> IF c \in C THEN Absent ELSE row[c]]
  /\ Announce
  /\ UNCHANGED metered

BulkResetTraffic(C) ==
  /\ row' = WithoutTraffic(C)
  /\ metered' = [c \in Clients |-> IF c \in C THEN 0 ELSE metered[c]]
  /\ UNCHANGED <<token, missed>>

\* ... and writes the rest in one transaction, or none if one is gone by now.
BulkWrite(a) ==
  /\ pc[a] = "bulk"
  /\ IF \A c \in todo[a] : Exists(c)
       THEN \/ BulkStatus(todo[a]) \/ BulkDelete(todo[a])
            \/ BulkResetTraffic(todo[a])
       ELSE UNCHANGED <<row, metered, token, missed>>
  /\ todo' = [todo EXCEPT ![a] = {}]
  /\ Goto(a, "idle")
  /\ UNCHANGED <<now, read, changed, config, swept, edits>>

-----------------------------------------------------------------------------
(* The scheduled tasks; neither triggers an Apply.                         *)

\* The task lists the clients it is going to write.
StartTask ==
  /\ pc["task"] = "idle" /\ Edit
  /\ \/ /\ todo' = [todo EXCEPT !["task"] = {c \in Clients : Exists(c)}]
        /\ Goto("task", "reset")
     \/ /\ todo' = [todo EXCEPT !["task"] =
                       {c \in Clients : Exists(c) /\ IsExpired(row[c])}]
        /\ Goto("task", "sweep")
  /\ UNCHANGED <<now, row, read, changed, token, missed, config, metered,
                 swept>>

\* reset_traffic_all resets one client of its list.
TaskResets(c) ==
  /\ pc["task"] = "reset"
  /\ c \in todo["task"]
  /\ row' = WithoutTraffic({c})
  /\ metered' = [metered EXCEPT ![c] = 0]
  /\ todo' = [todo EXCEPT !["task"] = @ \ {c}]
  /\ UNCHANGED <<now, pc, read, changed, token, missed, config, swept, edits>>

\* delete_expired_clients deletes one client of its list.
TaskDeletes(c) ==
  /\ pc["task"] = "sweep"
  /\ c \in todo["task"]
  /\ row' = [row EXCEPT ![c] = Absent]
  /\ swept' = IF Exists(c) THEN swept \union {c} ELSE swept
  /\ todo' = [todo EXCEPT !["task"] = @ \ {c}]
  /\ UNCHANGED <<now, pc, read, changed, token, missed, config, metered,
                 edits>>

TaskEnds ==
  /\ pc["task"] \in {"reset", "sweep"}
  /\ todo["task"] = {}
  /\ Goto("task", "idle")
  /\ UNCHANGED <<now, row, todo, read, changed, token, missed, config, metered,
                 swept, edits>>

-----------------------------------------------------------------------------
\* The clients the live configuration and the table disagree about.
Differing == {c \in Clients : (c \in config) # (c \in ListEnabled)}

\* The applier renders the enabled clients (ConfigApply has the details).
Apply ==
  /\ token
  /\ token' = FALSE
  /\ missed' = {}
  /\ config' = ListEnabled
  /\ swept' = {}
  /\ UNCHANGED <<now, row, pc, todo, read, changed, metered, edits>>

\* The render, the write, the check or the rename fails: the live file stays,
\* the error goes to the log and the notifier, and nothing triggers again.
ApplyFails ==
  /\ token
  /\ token' = FALSE
  /\ missed' = Differing
  /\ UNCHANGED <<now, row, pc, todo, read, changed, config, metered, swept,
                 edits>>

TimePasses ==
  /\ now < MaxTime
  /\ now' = now + 1
  /\ UNCHANGED <<row, pc, todo, read, changed, token, missed, config, metered,
                 swept, edits>>

Enforce(l) == List(l) \/ Enforced(l) \/ \E c \in Clients : Expire(l, c)

Request(a) ==
  \/ WriteRow(a) \/ BulkCheck(a) \/ BulkWrite(a)
  \/ \E c \in Clients :
       \/ Create(a, c) \/ ReadRow(a, c) \/ ResetTraffic(a, c) \/ Delete(a, c)
       \/ \E s \in Statuses : SetStatus(a, c, s)

Next ==
  \/ AddTraffic \/ Tick
  \/ \E l \in Loops : Enforce(l) \/ \E c \in Clients : ExpireFails(l, c)
  \/ \E a \in Admins : Request(a)
  \/ StartTask \/ TaskEnds
  \/ \E c \in Clients : TaskResets(c) \/ TaskDeletes(c)
  \/ Apply \/ ApplyFails \/ TimePasses

\* The tickers and the applier keep running, whether or not an Apply succeeds,
\* and an UPDATE that is retried with every tick succeeds in the end.
Fairness ==
  /\ WF_vars(Tick) /\ WF_vars(Apply \/ ApplyFails)
  /\ \A l \in Loops : WF_vars(Enforce(l))
  /\ \A c \in Clients : SF_vars(\E l \in Loops : Expire(l, c))

Spec == Init /\ [][Next]_vars
FairSpec == Spec /\ Fairness

-----------------------------------------------------------------------------
(* Properties.                                                             *)

(* The two columns that say whether a client may connect never disagree:   *)
(* no mix of Update's write back, enforcement, status requests and batches *)
(* leaves a client enabled that is not active, or the reverse              *)
(* (client/service.go:219-222,256, worker.go:145, client_repo.go:128-136); *)
(* and the variables keep their types.                                     *)
EnabledIffActive ==
  /\ TypeOK
  /\ \A c \in Clients :
       Exists(c) => (row[c].enabled <=> row[c].status = "active")

(* Traffic counted while an Update holds an older copy of the row is not   *)
(* lost, and a reset is not undone by it (client_repo.go:128-136,205,302). *)
UsageSurvives ==
  \A c \in Clients : Exists(c) => row[c].used = metered[c]

(* No silent change: when the live configuration names a client that may   *)
(* not connect, or omits one that may, an Apply is triggered, or enforce is *)
(* about to trigger it, even if another client of its round failed, or an   *)
(* Apply has failed on that very difference with nothing announced since;   *)
(* only clients deleted by the scheduled task are excepted                  *)
(* (worker.go:144-154, apply.go:141-167).                                   *)
NoSilentChange ==
  \A c \in Differing :
    token \/ c \in missed \/ c \in swept \/ \E l \in Loops : changed[l]

(* A client over its limits is cut off, or stops being over them, whatever *)
(* Update writes back meanwhile; or it is disabled and an Apply fails to   *)
(* take it out of the live configuration (worker.go:111-155,               *)
(* apply.go:141-167).                                                      *)
CutOff(c) ==
  Exists(c) /\ Over(row[c])
    ~> \/ c \notin config \/ ~ Exists(c) \/ ~ Over(row[c])
       \/ c \in missed /\ ~ row[c].enabled
=============================================================================
