----------------------------- MODULE ConfigApply -----------------------------
(***************************************************************************)
(* The path from a database write to the configuration the running core    *)
(* has loaded: the services' writes and Trigger (internal/services/client, *)
(* inbound, settings), the debounced apply loop and Apply itself           *)
(* (internal/services/singbox/apply.go), the core endpoints                *)
(* (internal/transport/handler/core_handler.go) and the boot sequence      *)
(* (cmd/main.go).                                                          *)
(*                                                                         *)
(* A configuration is abstracted to the versions of the two tables it was  *)
(* rendered from: Render reads them with two separate queries, so a        *)
(* configuration may mix an older inbounds table with a newer clients      *)
(* table.  The goroutines are: the apply loop, the boot sequence, requests *)
(* to /core/reload (Reloaders) and to /core/start or /core/restart         *)
(* (Starters), and the goroutines that change the database (Writers).      *)
(***************************************************************************)
EXTENDS Naturals

CONSTANTS
  Writers,      \* request goroutines that write the database, then Trigger
  Reloaders,    \* request goroutines of POST /core/reload
  Starters,     \* request goroutines of POST /core/start and /core/restart
  MaxVersion,   \* bound: committed writes per table
  MaxCrashes,   \* bound: crashes of the panel
  Rejected,     \* configurations `sing-box check` refuses
  None          \* absent: no file, no process, no lock holder, no table

Tables   == {"inbounds", "clients"}
Versions == 0 .. MaxVersion
Content  == [Tables -> Versions]
Procs    == {"loop", "boot"} \union Reloaders \union Starters

ASSUME ConstantsAssumption ==
  /\ MaxVersion \in Nat
  /\ MaxCrashes \in Nat
  /\ None \notin Content \union Procs \union Tables
  /\ {"loop", "boot"} \intersect (Reloaders \union Starters) = {}
  /\ Reloaders \intersect Starters = {}

VARIABLES
  db,           \* committed version of each table
  live,         \* content of config.json, or None
  tmp,          \* content of config.json.tmp, or None
  coreCfg,      \* the configuration the tracked core process runs, or None
  token,        \* triggerCh holds its one element
  mu,           \* holder of Applier.mu, or None
  pc,           \* where each goroutine is
  snap,         \* the rows each goroutine's Render has read
  owes,         \* the table a writer has committed and not yet announced
  failed,       \* tables whose newest version an Apply has failed on, since
                \* it was written and announced and an Apply last succeeded
  unannounced,  \* tables written by code that does not call Trigger
  crashes       \* number of crashes so far

vars == <<db, live, tmp, coreCfg, token, mu, pc, snap, owes, failed,
          unannounced, crashes>>

Labels == {"idle", "quiet", "lock", "inbounds", "clients", "write", "check",
           "install", "status", "stop", "start", "launch"}

\* The part of Apply that runs with Applier.mu held.
Critical == {"inbounds", "clients", "write", "check", "install", "status",
             "stop", "start"}

TypeOK ==
  /\ db \in Content
  /\ live \in Content \union {None}
  /\ tmp \in Content \union {None}
  /\ coreCfg \in Content \union {None}
  /\ token \in BOOLEAN
  /\ mu \in Procs \union {None}
  /\ pc \in [Procs -> Labels]
  /\ snap \in [Procs -> Content]
  /\ owes \in [Writers -> Tables \union {None}]
  /\ failed \in SUBSET Tables
  /\ unannounced \in SUBSET Tables
  /\ crashes \in 0 .. MaxCrashes

Zero == [t \in Tables |-> 0]

\* A starting panel: bootCore is about to Apply, nothing else runs.
Booting == [p \in Procs |-> IF p = "boot" THEN "lock" ELSE "idle"]

Init ==
  /\ db = Zero
  /\ live \in {None, db} \ Rejected
  /\ tmp = None
  /\ coreCfg = None
  /\ token = FALSE
  /\ mu = None
  /\ pc = Booting
  /\ snap = [p \in Procs |-> Zero]
  /\ owes = [w \in Writers |-> None]
  /\ failed = {}
  /\ unannounced = {}
  /\ crashes = 0

\* The HTTP server and the scheduler start once bootCore has returned.
Up == pc["boot"] = "idle"

Goto(p, l) == pc' = [pc EXCEPT ![p] = l]

-----------------------------------------------------------------------------
(* Writers.                                                                *)

\* A service commits a change of table t; its notify() comes next.
Commit(w, t) ==
  /\ Up
  /\ owes[w] = None
  /\ db[t] < MaxVersion
  /\ db' = [db EXCEPT ![t] = @ + 1]
  /\ owes' = [owes EXCEPT ![w] = t]
  /\ failed' = failed \ {t}
  /\ UNCHANGED <<live, tmp, coreCfg, token, mu, pc, snap, unannounced,
                 crashes>>

\* Mutant of Trigger: the channel has no buffer, so a send only succeeds
\* while Run is receiving.
TriggerUnbuffered(w) ==
  /\ owes[w] # None
  /\ token' = (pc["loop"] = "idle")
  /\ owes' = [owes EXCEPT ![w] = None]
  /\ failed' = failed \ {owes[w]}
  /\ UNCHANGED <<db, live, tmp, coreCfg, mu, pc, snap, unannounced, crashes>>

\* Trigger: a non-blocking send on a channel of capacity one.
Trigger(w) ==
  /\ owes[w] # None
  /\ token' = TRUE
  /\ owes' = [owes EXCEPT ![w] = None]
  /\ failed' = failed \ {owes[w]}
  /\ UNCHANGED <<db, live, tmp, coreCfg, mu, pc, snap, unannounced, crashes>>

\* The delete_expired task removes clients from the repository directly.
DeleteExpired ==
  /\ Up
  /\ db["clients"] < MaxVersion
  /\ db' = [db EXCEPT !["clients"] = @ + 1]
  /\ unannounced' = unannounced \union {"clients"}
  /\ UNCHANGED <<live, tmp, coreCfg, token, mu, pc, snap, owes, failed,
                 crashes>>

-----------------------------------------------------------------------------
(* The apply loop.                                                         *)

\* Run receives a trigger and enters waitQuiet.
TakeTrigger ==
  /\ pc["loop"] = "idle"
  /\ token
  /\ token' = FALSE
  /\ Goto("loop", "quiet")
  /\ UNCHANGED <<db, live, tmp, coreCfg, mu, snap, owes, failed,
                 unannounced, crashes>>

\* waitQuiet absorbs a further trigger and restarts its timer.
AbsorbTrigger ==
  /\ pc["loop"] = "quiet"
  /\ token
  /\ token' = FALSE
  /\ UNCHANGED <<db, live, tmp, coreCfg, mu, pc, snap, owes, failed,
                 unannounced, crashes>>

\* Mutant of QuietOver: the loop returns to its select without applying.
QuietOverSkips ==
  /\ pc["loop"] = "quiet"
  /\ Goto("loop", IF token THEN "quiet" ELSE "idle")
  /\ UNCHANGED <<db, live, tmp, coreCfg, token, mu, snap, owes, failed,
                 unannounced, crashes>>

\* The debounce timer fires: select may pick it although a trigger waits.
QuietOver ==
  /\ pc["loop"] = "quiet"
  /\ Goto("loop", "lock")
  /\ UNCHANGED <<db, live, tmp, coreCfg, token, mu, snap, owes, failed,
                 unannounced, crashes>>

-----------------------------------------------------------------------------
(* Apply, one action per step another goroutine can observe.               *)

\* Where the caller of Apply continues after a success.
After(p) == IF p \in Starters \union {"boot"} THEN "launch" ELSE "idle"

\* p's Apply has read table t and has not installed it yet.
Holds(p, t) ==
  pc[p] \in {"write", "check", "install"}
            \union (IF t = "inbounds" THEN {"clients"} ELSE {})

\* The tables whose newest version p's Apply would have installed: those it
\* had not read yet, and those it had read as they are.
About(p) == {t \in Tables : Holds(p, t) => snap[p][t] = db[t]}

\* Apply returns: the deferred unlock, and its local variables go away.
Leave(p, ok) ==
  /\ mu' = None
  /\ snap' = [snap EXCEPT ![p] = Zero]
  /\ Goto(p, IF ok THEN After(p) ELSE "idle")
  /\ failed' = IF ok THEN {} ELSE failed \union About(p)

\* Mutant of Lock: Apply is not serialized.
LockIgnored(p) ==
  /\ pc[p] = "lock"
  /\ mu' = p
  /\ Goto(p, "inbounds")
  /\ UNCHANGED <<db, live, tmp, coreCfg, token, snap, owes, failed,
                 unannounced, crashes>>

Lock(p) ==
  /\ pc[p] = "lock"
  /\ mu = None
  /\ mu' = p
  /\ Goto(p, "inbounds")
  /\ UNCHANGED <<db, live, tmp, coreCfg, token, snap, owes, failed,
                 unannounced, crashes>>

\* Render's query on table t succeeds.
Read(p, t, next) ==
  /\ pc[p] = t
  /\ snap' = [snap EXCEPT ![p][t] = db[t]]
  /\ unannounced' = unannounced \ {t}
  /\ Goto(p, next)
  /\ UNCHANGED <<db, live, tmp, coreCfg, token, mu, owes, failed, crashes>>

ReadInbounds(p) == Read(p, "inbounds", "clients")
ReadClients(p)  == Read(p, "clients", "write")

\* A query, MkdirAll or WriteFile fails: only the notifier hears of it.
RenderFails(p) ==
  /\ pc[p] \in {"inbounds", "clients", "write"}
  /\ Leave(p, FALSE)
  /\ UNCHANGED <<db, live, tmp, coreCfg, token, owes, unannounced,
                 crashes>>

WriteTmp(p) ==
  /\ pc[p] = "write"
  /\ tmp' = snap[p]
  /\ Goto(p, "check")
  /\ UNCHANGED <<db, live, coreCfg, token, mu, snap, owes, failed,
                 unannounced, crashes>>

CheckOK(p) ==
  /\ pc[p] = "check"
  /\ tmp \notin Rejected
  /\ Goto(p, "install")
  /\ UNCHANGED <<db, live, tmp, coreCfg, token, mu, snap, owes, failed,
                 unannounced, crashes>>

\* The checker refuses the file, or times out on any file.
CheckFails(p) ==
  /\ pc[p] = "check"
  /\ tmp' = None
  /\ Leave(p, FALSE)
  /\ UNCHANGED <<db, live, coreCfg, token, owes, unannounced, crashes>>

\* Mutant of Install: Apply returns after the rename, without the reload.
InstallReleasesEarly(p) ==
  /\ pc[p] = "install"
  /\ live' = tmp
  /\ tmp' = None
  /\ Leave(p, TRUE)
  /\ UNCHANGED <<db, coreCfg, token, owes, unannounced, crashes>>

\* Rename moves the temporary file over the live one.
Install(p) ==
  /\ pc[p] = "install"
  /\ live' = tmp
  /\ tmp' = None
  /\ Goto(p, "status")
  /\ UNCHANGED <<db, coreCfg, token, mu, snap, owes, failed, unannounced,
                 crashes>>

InstallFails(p) ==
  /\ pc[p] = "install"
  /\ Leave(p, FALSE)
  /\ UNCHANGED <<db, live, tmp, coreCfg, token, owes, unannounced,
                 crashes>>

\* pm.Status: a stopped core is left stopped.
NotRunning(p) ==
  /\ pc[p] = "status"
  /\ coreCfg = None
  /\ Leave(p, TRUE)
  /\ UNCHANGED <<db, live, tmp, coreCfg, token, owes, unannounced,
                 crashes>>

SeesRunning(p) ==
  /\ pc[p] = "status"
  /\ coreCfg # None
  /\ Goto(p, "stop")
  /\ UNCHANGED <<db, live, tmp, coreCfg, token, mu, snap, owes, failed,
                 unannounced, crashes>>

\* Reload of the subprocess manager is Stop, a pause, Start.
ReloadStop(p) ==
  /\ pc[p] = "stop"
  /\ coreCfg' = None
  /\ Goto(p, "start")
  /\ UNCHANGED <<db, live, tmp, token, mu, snap, owes, failed, unannounced,
                 crashes>>

\* Start leaves a running core alone; otherwise the new process reads the
\* live file, or exits at once.
StartCore ==
  IF coreCfg = None THEN coreCfg' \in {None, live} ELSE UNCHANGED coreCfg

\* Apply ignores an error of Reload except for a warning.
ReloadStart(p) ==
  /\ pc[p] = "start"
  /\ StartCore
  /\ Leave(p, TRUE)
  /\ UNCHANGED <<db, live, tmp, token, owes, unannounced, crashes>>

-----------------------------------------------------------------------------
(* The core endpoints, the boot sequence, the core and the panel itself.   *)

ReloadRequest(p) ==
  /\ Up
  /\ p \in Reloaders
  /\ pc[p] = "idle"
  /\ Goto(p, "lock")
  /\ UNCHANGED <<db, live, tmp, coreCfg, token, mu, snap, owes, failed,
                 unannounced, crashes>>

\* ApplyIfMissing: Apply only when there is no file yet, then Start.
StartRequest(p) ==
  /\ Up
  /\ p \in Starters
  /\ pc[p] = "idle"
  /\ Goto(p, IF live = None THEN "lock" ELSE "launch")
  /\ UNCHANGED <<db, live, tmp, coreCfg, token, mu, snap, owes, failed,
                 unannounced, crashes>>

\* pm.Restart stops the core at once and starts it after a pause.
RestartRequest(p) ==
  /\ Up
  /\ p \in Starters
  /\ pc[p] = "idle"
  /\ coreCfg' = None
  /\ Goto(p, "launch")
  /\ UNCHANGED <<db, live, tmp, token, mu, snap, owes, failed, unannounced,
                 crashes>>

\* pm.Start of the boot sequence, of /core/start and of /core/restart.
Launch(p) ==
  /\ pc[p] = "launch"
  /\ StartCore
  /\ Goto(p, "idle")
  /\ UNCHANGED <<db, live, tmp, token, mu, snap, owes, failed, unannounced,
                 crashes>>

\* POST /core/stop, or the core exits by itself and is reaped.
CoreStops ==
  /\ coreCfg # None
  /\ coreCfg' = None
  /\ UNCHANGED <<db, live, tmp, token, mu, pc, snap, owes, failed,
                 unannounced, crashes>>

\* The panel dies, with the core in its control group, and boots again:
\* the database and both files survive, everything in memory is lost.
Crash ==
  /\ crashes < MaxCrashes
  /\ crashes' = crashes + 1
  /\ coreCfg' = None
  /\ token' = FALSE
  /\ mu' = None
  /\ pc' = Booting
  /\ snap' = [p \in Procs |-> Zero]
  /\ owes' = [w \in Writers |-> None]
  /\ failed' = {}
  /\ UNCHANGED <<db, live, tmp, unannounced>>

-----------------------------------------------------------------------------
LoopStep == TakeTrigger \/ AbsorbTrigger \/ QuietOver

ApplyStep(p) ==
  \/ ReadInbounds(p) \/ ReadClients(p) \/ RenderFails(p)
  \/ WriteTmp(p) \/ CheckOK(p) \/ CheckFails(p)
  \/ Install(p) \/ InstallFails(p)
  \/ NotRunning(p) \/ SeesRunning(p) \/ ReloadStop(p) \/ ReloadStart(p)
  \/ Launch(p)

Request(p) == ReloadRequest(p) \/ StartRequest(p) \/ RestartRequest(p)

Next ==
  \/ \E w \in Writers : Trigger(w) \/ \E t \in Tables : Commit(w, t)
  \/ DeleteExpired
  \/ LoopStep
  \/ \E p \in Procs : Lock(p) \/ ApplyStep(p) \/ Request(p)
  \/ CoreStops
  \/ Crash

\* Goroutines that can run do run, and sync.Mutex hands itself over to a
\* waiter that has starved for a millisecond.
Fairness ==
  /\ \A w \in Writers : WF_vars(Trigger(w))
  /\ WF_vars(TakeTrigger)
  /\ WF_vars(QuietOver)
  /\ \A p \in Procs : WF_vars(ApplyStep(p)) /\ SF_vars(Lock(p))

Spec == Init /\ [][Next]_vars
FairSpec == Spec /\ Fairness

-----------------------------------------------------------------------------
(* Properties.                                                             *)

\* An Apply is under way, or certain to start, that has yet to read table t.
WillRead(t) ==
  \/ token
  \/ pc["loop"] = "quiet"
  \/ \E w \in Writers : owes[w] = t
  \/ \E p \in Procs :
       pc[p] \in {"lock", "inbounds"} \union (IF t = "clients" THEN {t} ELSE {})

\* An Apply holds the newest version of table t and has yet to install it.
InHand(t) == \E p \in Procs : Holds(p, t) /\ snap[p][t] = db[t]

Stale(t) == live = None \/ live[t] # db[t]

(* No lost update: whenever the live file does not show the newest version *)
(* of a table, an Apply will still read it or is about to install it, or   *)
(* an Apply that came after the write and its Trigger reported an error on *)
(* that very version, or the change was made by the task that does not     *)
(* call Trigger.  In particular neither the coalescing channel of Trigger, *)
(* nor the debounce, nor a crash between a write and its Trigger, nor an   *)
(* Apply that fails on an older version loses a change (apply.go:75-183,   *)
(* cmd/main.go:426-438).                                                   *)
NoLostUpdate ==
  \A t \in Tables :
    Stale(t) => WillRead(t) \/ InHand(t) \/ t \in failed \union unannounced

(* A tracked core runs the live file whenever no Apply is between rename   *)
(* and Reload, whatever start, stop and restart requests come in between   *)
(* (apply.go:164-178 with process.go:284-357).  The variables keep their   *)
(* types.                                                                  *)
RunningCoreIsLive ==
  TypeOK /\ (mu = None /\ coreCfg # None => coreCfg = live)

\* Nobody has a change of table t left to announce.
Announced(t) == \A w \in Writers : owes[w] # t

(* Every announced version of a table is eventually live, itself or a newer *)
(* one, or an Apply that comes after its Trigger reports an error on the    *)
(* newest version, or it is overtaken by a write nobody announces.  An      *)
(* error from before the Trigger does not count (apply.go:92-183).          *)
EventuallyLive ==
  \A t \in Tables, v \in Versions :
    db[t] = v /\ Announced(t)
      ~> (live # None /\ live[t] >= v) \/ t \in failed \union unannounced

\* The apply path implements the promise of ConfigSync: only checked
\* configurations go live, none is ahead of the database, and no table
\* moves backwards although requests and the loop apply concurrently.
Sync == INSTANCE ConfigSync
          WITH MaxVersion <- MaxVersion, Rejected <- Rejected,
               None <- None, db <- db, live <- live
RefinesConfigSync == Sync!Spec
=============================================================================
