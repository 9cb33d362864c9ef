----------------------------- MODULE CoreProcess -----------------------------
(***************************************************************************)
(* The subprocess manager (internal/services/singbox/process.go), the      *)
(* goroutines that call it and the sing-box processes it starts: requests  *)
(* to /core/start, /core/stop and /core/restart, the status and reload of  *)
(* an Apply, the boot and the shutdown of the panel (cmd/main.go), and a   *)
(* `shilka core` command (cmd/cli.go), which has a manager of its own in   *)
(* another operating system process.                                       *)
(*                                                                         *)
(* Stop signals a process and forgets it without waiting; Start holds the  *)
(* mutex for up to a second to see whether the new process exits at once;  *)
(* Restart is a Stop, an unlocked pause, and a Start.  sing-box is         *)
(* external: it reads config.json, binds its ports if no other process has *)
(* them, and exits when signalled or on its own.                           *)
(***************************************************************************)
EXTENDS Naturals, FiniteSets

CONSTANTS
  Requests,     \* request goroutines of the core endpoints
  Commands,     \* "cli" when a `shilka core` command may run, else empty
  Pids,         \* bound: the processes that are ever started
  MaxVersion,   \* bound: configurations the apply loop installs
  None          \* no process, no lock holder

ASSUME ConstantsAssumption ==
  /\ MaxVersion \in Nat
  /\ Commands \subseteq {"cli"}
  /\ {"loop", "main", "cli"} \intersect Requests = {}
  /\ None \notin Pids \union Requests \union {"loop", "main", "cli"}

Managers == {"panel", "cli"}
Procs    == {"loop", "main"} \union Requests \union Commands
Versions == 0 .. MaxVersion

VARIABLES
  cmd,        \* the process each manager tracks, or None
  mu,         \* the holder of each manager's mutex across steps, or None
  pc,         \* where each goroutine is
  reaping,    \* processes a goroutine of the panel is waiting to reap
  st,         \* the state of each process
  cfg,        \* the configuration each process has read
  owner,      \* the manager that started each process
  signalled,  \* processes that were sent SIGTERM
  live,       \* the version of config.json
  panel       \* "up", "closing" after a shutdown signal, or "exited"

vars == <<cmd, mu, pc, reaping, st, cfg, owner, signalled, live, panel>>
procVars == <<st, cfg, owner, signalled>>

Labels == {"idle", "status", "stop", "rstop", "gap", "start", "wait", "drain",
           "exit"}

\* A zombie has exited and its parent has not yet collected it.
States == {"unused", "exec", "loaded", "serving", "zombie", "gone"}

TypeOK ==
  /\ cmd \in [Managers -> Pids \union {None}]
  /\ mu \in [Managers -> Procs \union {None}]
  /\ pc \in [Procs -> Labels]
  /\ reaping \subseteq Pids
  /\ st \in [Pids -> States]
  /\ cfg \in [Pids -> Versions]
  /\ owner \in [Pids -> Managers]
  /\ signalled \subseteq Pids
  /\ live \in Versions
  /\ panel \in {"up", "closing", "exited"}

\* bootCore has written the first configuration and calls pm.Start.
Init ==
  /\ cmd = [m \in Managers |-> None]
  /\ mu = [m \in Managers |-> None]
  /\ pc = [p \in Procs |-> IF p = "main" THEN "start" ELSE "idle"]
  /\ reaping = {}
  /\ st = [x \in Pids |-> "unused"]
  /\ cfg = [x \in Pids |-> 0]
  /\ owner = [x \in Pids |-> "panel"]
  /\ signalled = {}
  /\ live = 0
  /\ panel = "up"

Manager(p) == IF p = "cli" THEN "cli" ELSE "panel"
Tracked(p) == cmd[Manager(p)]
Free(p)    == mu[Manager(p)] = None
Alive(x)   == st[x] \in {"exec", "loaded", "serving"}

\* The goroutines of the panel end with its process.
Runs(p) == p = "cli" \/ panel # "exited"

At(p, l)   == Runs(p) /\ pc[p] = l
Goto(p, l) == pc' = [pc EXCEPT ![p] = l]
Track(p, x) == cmd' = [cmd EXCEPT ![Manager(p)] = x]

-----------------------------------------------------------------------------
(* What the goroutines set out to do.                                      *)

\* The HTTP server accepts requests once main has finished booting.
Serving == panel = "up" /\ pc["main"] = "idle"

\* POST /core/start, /core/stop or /core/restart.
Request(r) ==
  /\ Serving
  /\ pc[r] = "idle"
  /\ \E l \in {"start", "stop", "rstop"} : Goto(r, l)
  /\ UNCHANGED <<cmd, mu, reaping, procVars, live, panel>>

\* `shilka core start|stop|restart|reload` creates a new manager.
Command ==
  /\ "cli" \in Commands
  /\ pc["cli"] = "idle"
  /\ \E l \in {"start", "stop", "rstop"} : Goto("cli", l)
  /\ cmd' = [cmd EXCEPT !["cli"] = None]
  /\ UNCHANGED <<mu, reaping, procVars, live, panel>>

\* Apply renames the new file into place and asks for the status.
Install ==
  /\ Serving
  /\ pc["loop"] = "idle"
  /\ live < MaxVersion
  /\ live' = live + 1
  /\ Goto("loop", "status")
  /\ UNCHANGED <<cmd, mu, reaping, procVars, panel>>

\* Status reports a tracked process, dead or alive, or any live one that
\* the scan of /proc finds.
Running(p) == Tracked(p) # None \/ \E x \in Pids : Alive(x)

\* Mutant of Status: a core that reports running is not reloaded.
StatusNeverReloads ==
  /\ At("loop", "status")
  /\ Free("loop")
  /\ Goto("loop", "idle")
  /\ UNCHANGED <<cmd, mu, reaping, procVars, live, panel>>

\* Apply reloads a core that is running and leaves a stopped one alone.
Status ==
  /\ At("loop", "status")
  /\ Free("loop")
  /\ Goto("loop", IF Running("loop") THEN "rstop" ELSE "idle")
  /\ UNCHANGED <<cmd, mu, reaping, procVars, live, panel>>

-----------------------------------------------------------------------------
(* The operations of the manager.                                          *)

\* What follows a completed operation; main goes on to exit after its Stop.
Done(p) == Goto(p, IF p = "main" /\ panel = "closing" THEN "exit" ELSE "idle")

\* Stop of nothing succeeds; Restart goes on to its pause.
StopNothing(p) ==
  /\ Runs(p) /\ pc[p] \in {"stop", "rstop"}
  /\ Free(p)
  /\ Tracked(p) = None
  /\ IF pc[p] = "rstop" THEN Goto(p, "gap") ELSE Done(p)
  /\ UNCHANGED <<cmd, mu, reaping, procVars, live, panel>>

\* Mutant of StopSignals: the process is forgotten without the signal.
StopForgets(p) ==
  /\ Runs(p) /\ pc[p] \in {"stop", "rstop"}
  /\ Free(p)
  /\ Tracked(p) # None
  /\ st[Tracked(p)] # "gone"
  /\ Track(p, None)
  /\ IF pc[p] = "rstop" THEN Goto(p, "gap") ELSE Done(p)
  /\ UNCHANGED <<mu, reaping, procVars, live, panel>>

\* Stop signals the tracked process and stops tracking it.
StopSignals(p) ==
  /\ Runs(p) /\ pc[p] \in {"stop", "rstop"}
  /\ Free(p)
  /\ Tracked(p) # None
  /\ st[Tracked(p)] # "gone"
  /\ signalled' = signalled \union {x \in {Tracked(p)} : Alive(x)}
  /\ Track(p, None)
  /\ IF pc[p] = "rstop" THEN Goto(p, "gap") ELSE Done(p)
  /\ UNCHANGED <<mu, reaping, st, cfg, owner, live, panel>>

\* Signal fails on a process that was waited for: Stop and Restart return
\* the error and leave the tracking to reap.
StopFails(p) ==
  /\ Runs(p) /\ pc[p] \in {"stop", "rstop"}
  /\ Free(p)
  /\ Tracked(p) # None
  /\ st[Tracked(p)] = "gone"
  /\ Done(p)
  /\ UNCHANGED <<cmd, mu, reaping, procVars, live, panel>>

\* The pause of Restart is over; the mutex was free meanwhile.
PauseOver(p) ==
  /\ At(p, "gap")
  /\ Goto(p, "start")
  /\ UNCHANGED <<cmd, mu, reaping, procVars, live, panel>>

\* Start of a running core does nothing.
StartRunning(p) ==
  /\ At(p, "start")
  /\ Free(p)
  /\ Tracked(p) # None
  /\ Done(p)
  /\ UNCHANGED <<cmd, mu, reaping, procVars, live, panel>>

\* exec.Cmd.Start fails.
StartFails(p) ==
  /\ At(p, "start")
  /\ Free(p)
  /\ Tracked(p) = None
  /\ Done(p)
  /\ UNCHANGED <<cmd, mu, reaping, procVars, live, panel>>

\* Start runs the binary and waits with the mutex held.
Spawn(p) ==
  /\ At(p, "start")
  /\ Free(p)
  /\ Tracked(p) = None
  /\ \E x \in Pids :
       /\ st[x] = "unused"
       /\ st' = [st EXCEPT ![x] = "exec"]
       /\ owner' = [owner EXCEPT ![x] = Manager(p)]
       /\ Track(p, x)
  /\ mu' = [mu EXCEPT ![Manager(p)] = p]
  /\ Goto(p, "wait")
  /\ UNCHANGED <<reaping, cfg, signalled, live, panel>>

\* The process exits within the second: Start reports it and clears cmd.
ExitsEarly(p) ==
  /\ At(p, "wait")
  /\ st[Tracked(p)] = "gone"
  /\ Track(p, None)
  /\ mu' = [mu EXCEPT ![Manager(p)] = None]
  /\ Done(p)
  /\ UNCHANGED <<reaping, procVars, live, panel>>

\* Mutant of Survives: the process is not reaped later on.
SurvivesUnreaped(p) ==
  /\ At(p, "wait")
  /\ mu' = [mu EXCEPT ![Manager(p)] = None]
  /\ Done(p)
  /\ UNCHANGED <<cmd, reaping, procVars, live, panel>>

\* The second is over: Start succeeds and leaves the process to reap.
Survives(p) ==
  /\ At(p, "wait")
  /\ mu' = [mu EXCEPT ![Manager(p)] = None]
  /\ reaping' = IF p = "cli" THEN reaping ELSE reaping \union {Tracked(p)}
  /\ Done(p)
  /\ UNCHANGED <<cmd, procVars, live, panel>>

\* Mutant of Reap: it does not check that the process is still tracked.
ReapUnchecked(x) ==
  /\ panel # "exited"
  /\ x \in reaping
  /\ st[x] = "gone"
  /\ mu["panel"] = None
  /\ cmd' = [cmd EXCEPT !["panel"] = None]
  /\ reaping' = reaping \ {x}
  /\ UNCHANGED <<mu, pc, procVars, live, panel>>

\* reap: the wait goroutine of process x has delivered its exit.
Reap(x) ==
  /\ panel # "exited"
  /\ x \in reaping
  /\ st[x] = "gone"
  /\ mu["panel"] = None
  /\ cmd' = IF cmd["panel"] = x THEN [cmd EXCEPT !["panel"] = None] ELSE cmd
  /\ reaping' = reaping \ {x}
  /\ UNCHANGED <<mu, pc, procVars, live, panel>>

-----------------------------------------------------------------------------
(* The shutdown of the panel.                                              *)

\* SIGTERM: rootCancel ends the apply loop's select, not its Reload.
ShutdownSignal ==
  /\ Serving
  /\ panel' = "closing"
  /\ Goto("main", "drain")
  /\ UNCHANGED <<cmd, mu, reaping, procVars, live>>

\* server.Shutdown waits for the requests; its limit of ten seconds is
\* longer than the pause and the wait of a restart.
Drained ==
  /\ At("main", "drain")
  /\ \A r \in Requests : pc[r] = "idle"
  /\ Goto("main", "stop")
  /\ UNCHANGED <<cmd, mu, reaping, procVars, live, panel>>

\* main returns once the scheduler has finished its job.
PanelExits ==
  /\ At("main", "exit")
  /\ panel' = "exited"
  /\ UNCHANGED <<cmd, mu, pc, reaping, procVars, live>>

-----------------------------------------------------------------------------
(* sing-box, as the panel sees it.                                         *)

Become(x, s) == st' = [st EXCEPT ![x] = s]

Load(x) ==
  /\ st[x] = "exec"
  /\ Become(x, "loaded")
  /\ cfg' = [cfg EXCEPT ![x] = live]
  /\ UNCHANGED <<cmd, mu, pc, reaping, owner, signalled, live, panel>>

PortsTaken(x) == \E y \in Pids \ {x} : st[y] = "serving"

\* Of a process that has exited only its exit is left to see.
Dies(x) ==
  /\ Become(x, "zombie")
  /\ cfg' = [cfg EXCEPT ![x] = 0]
  /\ owner' = [owner EXCEPT ![x] = "panel"]
  /\ signalled' = signalled \ {x}

Bind(x) ==
  /\ st[x] = "loaded"
  /\ IF PortsTaken(x)
       THEN Dies(x)
       ELSE Become(x, "serving") /\ UNCHANGED <<cfg, owner, signalled>>
  /\ UNCHANGED <<cmd, mu, pc, reaping, live, panel>>

\* A process exits because it was signalled, or crashes.
Exit(x) ==
  /\ Alive(x)
  /\ Dies(x)
  /\ UNCHANGED <<cmd, mu, pc, reaping, live, panel>>

\* The goroutine of cmd.Wait, or init, collects the process.
Collect(x) ==
  /\ st[x] = "zombie"
  /\ Become(x, "gone")
  /\ UNCHANGED <<cmd, mu, pc, reaping, cfg, owner, signalled, live, panel>>

-----------------------------------------------------------------------------
Operation(p) ==
  \/ StopNothing(p) \/ StopSignals(p) \/ StopFails(p)
  \/ PauseOver(p)
  \/ StartRunning(p) \/ StartFails(p) \/ Spawn(p)
  \/ ExitsEarly(p) \/ Survives(p)

Next ==
  \/ \E r \in Requests : Request(r)
  \/ Command \/ Install \/ Status
  \/ \E p \in Procs : Operation(p)
  \/ ShutdownSignal \/ Drained \/ PanelExits
  \/ \E x \in Pids : Reap(x) \/ Load(x) \/ Bind(x) \/ Exit(x) \/ Collect(x)

\* A Start that waits ends, by its timer at the latest, and so gives the
\* mutex back; reap gets the mutex in the end (sync.Mutex is fair); the
\* goroutine of cmd.Wait collects a process that has exited.
Fairness ==
  /\ WF_vars(\E p \in Procs \ {"cli"} : ExitsEarly(p) \/ Survives(p))
  /\ \A x \in Pids : SF_vars(Reap(x)) /\ WF_vars(Collect(x))

Spec == Init /\ [][Next]_vars
FairSpec == Spec /\ Fairness

-----------------------------------------------------------------------------
(* Properties.                                                             *)

(* No process escapes: while the panel runs, every live process it started *)
(* is the tracked one or has been signalled.  A reap that comes after the  *)
(* next Start, a Start after another one, and a Stop in the pause of a     *)
(* Restart must not make the manager forget a live core                    *)
(* (process.go:284-393).  The variables keep their types.                  *)
NoCoreForgotten ==
  /\ TypeOK
  /\ panel # "exited" =>
       \A x \in Pids : Alive(x) /\ owner[x] = "panel"
                         => cmd["panel"] = x \/ x \in signalled

(* When no Apply is under way, a core of the panel that keeps running has  *)
(* read the newest file, in whatever order requests stop, start and        *)
(* restart it around the rename, the status and the reload                 *)
(* (apply.go:164-179 with process.go:284-378).                             *)
CurrentCore ==
  pc["loop"] = "idle" =>
    \A x \in Pids :
      st[x] = "serving" /\ owner[x] = "panel" /\ x \notin signalled
        => cfg[x] = live

(* The status of a dead core clears: a tracked process that exits is       *)
(* eventually no longer tracked, so Status reports it and Start can start  *)
(* another one (process.go:315-325,380-393).                               *)
DeadCoreIsNoticed ==
  \A x \in Pids :
    cmd["panel"] = x /\ ~ Alive(x) ~> cmd["panel"] # x \/ panel = "exited"
=============================================================================
