--------------------------- MODULE CoreProcessProofs ---------------------------
(***************************************************************************)
(* Proofs about CoreProcess, for every set of requests and processes and   *)
(* every number of configurations; and about Notifications, which tells of *)
(* its failures, for every capacity, cooldown, set of limits and bound.    *)
(* All of it holds for any reporters of any causes.                        *)
(***************************************************************************)
EXTENDS CoreProcess, Notifications, TLAPS

USE ConstantsAssumption DEF ConstantsAssumption

\* The holder of a mutex is the one that waits in Start, for a process that
\* it tracks.
LockOK ==
  /\ \A p \in Procs : pc[p] = "wait" =>
       mu[Manager(p)] = p /\ cmd[Manager(p)] \in Pids
  /\ \A m \in Managers : mu[m] # None =>
       Manager(mu[m]) = m /\ pc[mu[m]] = "wait"

\* A process that the manager of the panel must not lose.
Loose(x) ==
  Alive(x) /\ owner[x] = "panel" /\ cmd["panel"] # x /\ x \notin signalled

NoneLoose == panel # "exited" => \A x \in Pids : ~ Loose(x)

\* A process that goes on with an older file.
Stale(x) ==
  /\ st[x] \in {"loaded", "serving"}
  /\ owner[x] = "panel" /\ x \notin signalled /\ cfg[x] # live

Reloading == pc["loop"] \in {"status", "rstop"}

StaleOK == (\E x \in Pids : Stale(x)) => Reloading

\* The inductive invariant.
PInv == TypeOK /\ LockOK /\ NoneLoose /\ StaleOK

-----------------------------------------------------------------------------
(* Where the goroutines are.                                               *)

LEMMA Names ==
  /\ \A p \in Procs : Manager(p) \in Managers /\ p # None
  /\ "loop" \in Procs /\ "main" \in Procs
  /\ Requests \subseteq Procs /\ Commands \subseteq Procs
  /\ \A p \in Procs : Manager(p) = "panel" <=> p # "cli"
  BY DEF Procs, Manager, Managers

LEMMA Went ==
  ASSUME TypeOK, NEW p \in Procs, NEW l \in Labels, Goto(p, l)
  PROVE  /\ pc' \in [Procs -> Labels] /\ pc'[p] = l
         /\ \A q \in Procs : q # p => pc'[q] = pc[q]
  BY DEF TypeOK, Goto

LEMMA DoneWent ==
  ASSUME TypeOK, NEW p \in Procs, Done(p)
  PROVE  /\ pc' \in [Procs -> Labels] /\ pc'[p] \in {"idle", "exit"}
         /\ \A q \in Procs : q # p => pc'[q] = pc[q]
  BY Went DEF Done, Labels

\* A goroutine goes from one label to another with no mutex in its hands.
LEMMA LockSame ==
  ASSUME TypeOK, LockOK, NEW p \in Procs, pc[p] # "wait", pc'[p] # "wait",
         \A q \in Procs : q # p => pc'[q] = pc[q],
         mu' = mu,
         \A m \in Managers : mu[m] # None => cmd'[m] = cmd[m]
  PROVE  LockOK'
  <1>1. \A q \in Procs : pc'[q] = "wait" => q # p /\ pc[q] = "wait"
    OBVIOUS
  <1>2. ASSUME NEW q \in Procs, pc'[q] = "wait"
        PROVE  mu'[Manager(q)] = q /\ cmd'[Manager(q)] \in Pids
    <2>1. pc[q] = "wait" /\ mu[Manager(q)] = q /\ cmd[Manager(q)] \in Pids
      BY <1>1, <1>2 DEF LockOK
    <2>2. QED
      BY <2>1, Names
  <1>3. ASSUME NEW m \in Managers, mu'[m] # None
        PROVE  Manager(mu'[m]) = m /\ pc'[mu'[m]] = "wait"
    <2>1. mu[m] # None /\ Manager(mu[m]) = m /\ pc[mu[m]] = "wait"
          /\ mu[m] \in Procs
      BY <1>3 DEF LockOK, TypeOK
    <2>2. QED
      BY <2>1
  <1>4. QED
    BY <1>2, <1>3 DEF LockOK, Manager

\* Nobody moves.
LEMMA LockStill ==
  ASSUME LockOK, pc' = pc, mu' = mu, cmd' = cmd
  PROVE  LockOK'
  BY DEF LockOK, Manager

\* The processes are as they were.
LEMMA LooseSame ==
  ASSUME NoneLoose, UNCHANGED <<st, owner, signalled, panel>>,
         cmd'["panel"] = cmd["panel"]
  PROVE  NoneLoose'
  BY DEF NoneLoose, Loose, Alive

LEMMA StaleSame ==
  ASSUME StaleOK, UNCHANGED <<st, owner, signalled, cfg, live>>,
         Reloading => Reloading'
  PROVE  StaleOK'
  BY DEF StaleOK, Stale

\* While the loop is not about to stop the core, nothing is stale.
LEMMA NotReloading ==
  ASSUME StaleOK, ~ Reloading
  PROVE  \A x \in Pids : ~ Stale(x)
  BY DEF StaleOK

-----------------------------------------------------------------------------
(* Intentions.                                                             *)

\* A request, or a command with a manager of its own, sets out.
LEMMA SetOut ==
  ASSUME PInv, NEW p \in Procs, p # "loop", pc[p] \in {"idle", "drain"},
         NEW l \in Labels, l # "wait", Goto(p, l),
         UNCHANGED <<mu, reaping, st, cfg, owner, signalled, live>>,
         panel' \in {"up", "closing", "exited"},
         panel' # "exited" => panel # "exited",
         \/ cmd' = cmd
         \/ p = "cli" /\ cmd' = [cmd EXCEPT !["cli"] = None]
  PROVE  PInv'
  <1> USE DEF PInv
  <1>1. /\ pc' \in [Procs -> Labels] /\ pc'[p] = l
        /\ \A q \in Procs : q # p => pc'[q] = pc[q]
    BY Went
  <1>2. cmd' \in [Managers -> Pids \union {None}] /\ cmd'["panel"] = cmd["panel"]
    BY DEF TypeOK, Managers
  <1>3. TypeOK'
    BY <1>1, <1>2 DEF TypeOK
  <1>4. ASSUME NEW m \in Managers, mu[m] # None PROVE cmd'[m] = cmd[m]
    <2>1. CASE p = "cli"
      <3>1. mu["cli"] = None
        BY <2>1 DEF LockOK, TypeOK, Manager, Managers
      <3>2. QED
        BY <1>4, <3>1 DEF TypeOK, Managers
    <2>2. CASE p # "cli"
      BY <2>2
    <2>3. QED
      BY <2>1, <2>2
  <1>5. pc[p] # "wait" /\ pc'[p] # "wait"
    BY <1>1
  <1>6. LockOK'
    BY <1>1, <1>4, <1>5, LockSame
  <1>7. NoneLoose'
    BY <1>2 DEF NoneLoose, Loose, Alive
  <1>8. Reloading => Reloading'
    BY <1>1, Names DEF Reloading
  <1>9. StaleOK'
    BY <1>8, StaleSame
  <1>10. QED
    BY <1>3, <1>6, <1>7, <1>9

LEMMA IntendStep ==
  ASSUME PInv,
         \/ \E r \in Requests : Request(r)
         \/ Command \/ ShutdownSignal \/ Drained
  PROVE  PInv'
  <1>1. ASSUME NEW r \in Requests, Request(r) PROVE PInv'
    <2>1. PICK l \in {"start", "stop", "rstop"} : Goto(r, l)
      BY <1>1 DEF Request
    <2>2. r \in Procs /\ r # "loop"
      BY DEF Procs
    <2>3. /\ pc[r] = "idle" /\ panel' = panel /\ cmd' = cmd
          /\ UNCHANGED <<mu, reaping, st, cfg, owner, signalled, live>>
      BY <1>1 DEF Request, procVars
    <2>4. QED
      BY <2>1, <2>2, <2>3, SetOut DEF Labels, PInv, TypeOK
  <1>2. CASE Command
    <2>1. PICK l \in {"start", "stop", "rstop"} : Goto("cli", l)
      BY <1>2 DEF Command
    <2>2. "cli" \in Procs
      BY <1>2 DEF Command, Procs
    <2>3. /\ pc["cli"] = "idle" /\ panel' = panel
          /\ cmd' = [cmd EXCEPT !["cli"] = None]
          /\ UNCHANGED <<mu, reaping, st, cfg, owner, signalled, live>>
      BY <1>2 DEF Command, procVars
    <2>4. QED
      BY <2>1, <2>2, <2>3, SetOut DEF Labels, PInv, TypeOK
  <1>3. CASE ShutdownSignal
    <2>1. /\ Goto("main", "drain") /\ pc["main"] = "idle"
          /\ panel = "up" /\ panel' = "closing" /\ cmd' = cmd
          /\ UNCHANGED <<mu, reaping, st, cfg, owner, signalled, live>>
      BY <1>3 DEF ShutdownSignal, Serving, procVars
    <2>2. QED
      BY <2>1, Names, SetOut DEF Labels
  <1>4. CASE Drained
    <2>1. /\ Goto("main", "stop") /\ pc["main"] = "drain"
          /\ panel' = panel /\ cmd' = cmd
          /\ UNCHANGED <<mu, reaping, st, cfg, owner, signalled, live>>
      BY <1>4 DEF Drained, At, procVars
    <2>2. QED
      BY <2>1, Names, SetOut DEF Labels, PInv, TypeOK
  <1>5. QED
    BY <1>1, <1>2, <1>3, <1>4

\* A new file is in place: the loop is about to reload what is stale.
LEMMA InstallStep ==
  ASSUME PInv, Install
  PROVE  PInv'
  <1> USE DEF PInv
  <1>1. /\ pc["loop"] = "idle" /\ live < MaxVersion /\ live' = live + 1
        /\ Goto("loop", "status")
        /\ UNCHANGED <<cmd, mu, reaping, st, cfg, owner, signalled, panel>>
    BY DEF Install, procVars
  <1>2. /\ pc' \in [Procs -> Labels] /\ pc'["loop"] = "status"
        /\ \A q \in Procs : q # "loop" => pc'[q] = pc[q]
    BY <1>1, Names, Went DEF Labels
  <1>3. live' \in Versions
    BY <1>1 DEF TypeOK, Versions
  <1>4. TypeOK'
    BY <1>1, <1>2, <1>3 DEF TypeOK
  <1>5. LockOK'
    BY <1>1, <1>2, Names, LockSame
  <1>6. NoneLoose'
    BY <1>1, LooseSame
  <1>7. StaleOK'
    BY <1>2 DEF StaleOK, Reloading
  <1>8. QED
    BY <1>4, <1>5, <1>6, <1>7

\* Nothing runs: nothing is stale.
LEMMA StatusStep ==
  ASSUME PInv, Status
  PROVE  PInv'
  <1> USE DEF PInv
  <1> DEFINE l == IF Running("loop") THEN "rstop" ELSE "idle"
  <1>1. /\ pc["loop"] = "status" /\ Goto("loop", l)
        /\ UNCHANGED <<cmd, mu, reaping, st, cfg, owner, signalled, live,
                       panel>>
    BY DEF Status, At, procVars
  <1>2. /\ pc' \in [Procs -> Labels] /\ pc'["loop"] = l
        /\ \A q \in Procs : q # "loop" => pc'[q] = pc[q]
    BY <1>1, Names, Went DEF Labels
  <1>3. TypeOK'
    BY <1>1, <1>2 DEF TypeOK
  <1>4. LockOK'
    BY <1>1, <1>2, Names, LockSame
  <1>5. NoneLoose'
    BY <1>1, LooseSame
  <1>6. StaleOK'
    <2>1. CASE Running("loop")
      BY <1>2, <2>1 DEF StaleOK, Reloading
    <2>2. CASE ~ Running("loop")
      BY <1>1, <2>2 DEF Running, Alive, StaleOK, Stale
    <2>3. QED
      BY <2>1, <2>2
  <1>7. QED
    BY <1>3, <1>4, <1>5, <1>6

-----------------------------------------------------------------------------
(* The operations of the manager.                                          *)

\* An operation moves on and leaves everything else; the loop, when it does
\* not reload any more, has no stale process behind it.
LEMMA MovesOn ==
  ASSUME PInv, NEW p \in Procs, pc[p] # "wait",
         pc' \in [Procs -> Labels], pc'[p] # "wait",
         \A q \in Procs : q # p => pc'[q] = pc[q],
         UNCHANGED <<cmd, mu, reaping, st, cfg, owner, signalled, live, panel>>,
         p = "loop" => ~ Reloading \/ \A x \in Pids : ~ Stale(x)
  PROVE  PInv'
  <1> USE DEF PInv
  <1>1. TypeOK'
    BY DEF TypeOK
  <1>2. LockOK'
    BY LockSame
  <1>3. NoneLoose'
    BY LooseSame
  <1>4. StaleOK'
    <2>1. CASE p = "loop"
      <3>1. \A x \in Pids : ~ Stale(x)
        BY <2>1, NotReloading
      <3>2. QED
        BY <3>1 DEF StaleOK, Stale
    <2>2. CASE p # "loop"
      <3>1. pc'["loop"] = pc["loop"]
        BY <2>2, Names
      <3>2. QED
        BY <3>1, StaleSame DEF Reloading
    <2>3. QED
      BY <2>1, <2>2
  <1>5. QED
    BY <1>1, <1>2, <1>3, <1>4

\* When nothing alive is tracked, what is stale is signalled already.
LEMMA NoneStale ==
  ASSUME PInv, panel # "exited",
         cmd["panel"] = None \/ ~ Alive(cmd["panel"])
  PROVE  \A x \in Pids : ~ Stale(x)
  BY DEF PInv, NoneLoose, Loose, Stale, Alive

\* Where an operation goes when it is over, or when Restart goes on.
LEMMA NextLabel ==
  ASSUME TypeOK, NEW p \in Procs,
         IF pc[p] = "rstop" THEN Goto(p, "gap") ELSE Done(p)
  PROVE  /\ pc' \in [Procs -> Labels] /\ pc'[p] # "wait"
         /\ \A q \in Procs : q # p => pc'[q] = pc[q]
  BY Went, DoneWent DEF Labels

LEMMA StopNothingStep ==
  ASSUME PInv, NEW p \in Procs, StopNothing(p) \/ StopFails(p)
  PROVE  PInv'
  <1>1. /\ Runs(p) /\ pc[p] \in {"stop", "rstop"}
        /\ Tracked(p) = None \/ st[Tracked(p)] = "gone"
        /\ UNCHANGED <<cmd, mu, reaping, st, cfg, owner, signalled, live,
                       panel>>
    BY DEF StopNothing, StopFails, procVars
  <1>2. /\ pc' \in [Procs -> Labels] /\ pc'[p] # "wait"
        /\ \A q \in Procs : q # p => pc'[q] = pc[q]
    BY NextLabel, DoneWent DEF StopNothing, StopFails, PInv
  <1>3. p = "loop" => \A x \in Pids : ~ Stale(x)
    BY <1>1, NoneStale DEF Runs, Tracked, Manager, Alive
  <1>4. QED
    BY <1>1, <1>2, <1>3, MovesOn

LEMMA StopSignalsStep ==
  ASSUME PInv, NEW p \in Procs, StopSignals(p)
  PROVE  PInv'
  <1> USE DEF PInv
  <1> DEFINE y == Tracked(p)
             m == Manager(p)
  <1>1. /\ Runs(p) /\ pc[p] \in {"stop", "rstop"} /\ mu[m] = None
        /\ y # None
        /\ signalled' = signalled \union {x \in {y} : Alive(x)}
        /\ cmd' = [cmd EXCEPT ![m] = None]
        /\ UNCHANGED <<mu, reaping, st, cfg, owner, live, panel>>
    BY DEF StopSignals, Free, Track
  <1>2. /\ pc' \in [Procs -> Labels] /\ pc'[p] # "wait"
        /\ \A q \in Procs : q # p => pc'[q] = pc[q]
    BY NextLabel DEF StopSignals
  <1>3. m \in Managers /\ y = cmd[m] /\ y \in Pids
    BY <1>1, Names DEF Tracked, TypeOK
  <1>4. TypeOK'
    BY <1>1, <1>2, <1>3 DEF TypeOK
  <1>5. /\ cmd'[m] = None
        /\ \A n \in Managers : n # m => cmd'[n] = cmd[n]
    BY <1>1, <1>3 DEF TypeOK
  <1>6. LockOK'
    BY <1>1, <1>2, <1>3, <1>5, LockSame
  <1>7. \A x \in Pids : x \in signalled => x \in signalled'
    BY <1>1
  <1>8. Alive(y) => y \in signalled'
    BY <1>1
  <1>9. NoneLoose'
    <2> SUFFICES ASSUME panel' # "exited", NEW x \in Pids, Loose(x)'
                 PROVE  FALSE
      BY DEF NoneLoose
    <2>1. Alive(x) /\ owner[x] = "panel" /\ x \notin signalled
      BY <1>1, <1>7 DEF Loose, Alive
    <2>2. cmd["panel"] = x
      BY <1>1, <2>1 DEF NoneLoose, Loose
    <2>3. m = "panel" /\ x = y
      BY <1>3, <1>5, <2>2 DEF Loose, Managers
    <2>4. QED
      BY <1>8, <2>1, <2>3 DEF Loose
  <1>10. StaleOK'
    <2>1. CASE p = "loop"
      <3>1. panel # "exited" /\ m = "panel"
        BY <1>1, <2>1 DEF Runs, Manager
      <3>2. ASSUME NEW x \in Pids, Stale(x)' PROVE FALSE
        <4>1. Alive(x) /\ owner[x] = "panel" /\ x \notin signalled
              /\ x \notin signalled'
          BY <1>1, <1>7, <3>2 DEF Stale, Alive
        <4>2. x = y
          BY <1>3, <3>1, <4>1 DEF NoneLoose, Loose
        <4>3. QED
          BY <1>8, <4>1, <4>2
      <3>3. QED
        BY <3>2 DEF StaleOK
    <2>2. CASE p # "loop"
      <3>1. pc'["loop"] = pc["loop"]
        BY <1>2, <2>2, Names
      <3>2. \A x \in Pids : Stale(x)' => Stale(x)
        BY <1>1, <1>7 DEF Stale
      <3>3. QED
        BY <3>1, <3>2 DEF StaleOK, Reloading
    <2>3. QED
      BY <2>1, <2>2
  <1>11. QED
    BY <1>4, <1>6, <1>9, <1>10

LEMMA PassStep ==
  ASSUME PInv, NEW p \in Procs,
         PauseOver(p) \/ StartRunning(p) \/ StartFails(p)
  PROVE  PInv'
  <1>1. /\ pc[p] \in {"gap", "start"}
        /\ UNCHANGED <<cmd, mu, reaping, st, cfg, owner, signalled, live,
                       panel>>
    BY DEF PauseOver, StartRunning, StartFails, At, procVars
  <1>2. /\ pc' \in [Procs -> Labels] /\ pc'[p] # "wait"
        /\ \A q \in Procs : q # p => pc'[q] = pc[q]
    <2>1. CASE PauseOver(p)
      BY <2>1, Went DEF PauseOver, PInv, Labels
    <2>2. CASE StartRunning(p) \/ StartFails(p)
      BY <2>2, DoneWent DEF StartRunning, StartFails, PInv
    <2>3. QED
      BY <2>1, <2>2
  <1>3. p = "loop" => ~ Reloading
    BY <1>1 DEF Reloading
  <1>4. QED
    BY <1>1, <1>2, <1>3, MovesOn

\* Before a Start nothing alive was tracked, so nothing is lost.
LEMMA SpawnStep ==
  ASSUME PInv, NEW p \in Procs, Spawn(p)
  PROVE  PInv'
  <1> USE DEF PInv
  <1> DEFINE m == Manager(p)
  <1>1. PICK x \in Pids : /\ st[x] = "unused"
                          /\ st' = [st EXCEPT ![x] = "exec"]
                          /\ owner' = [owner EXCEPT ![x] = m]
                          /\ cmd' = [cmd EXCEPT ![m] = x]
    BY DEF Spawn, Track
  <1>2. /\ pc[p] = "start" /\ mu[m] = None /\ cmd[m] = None
        /\ mu' = [mu EXCEPT ![m] = p] /\ Goto(p, "wait")
        /\ UNCHANGED <<reaping, cfg, signalled, live, panel>>
    BY DEF Spawn, At, Free, Tracked
  <1>3. /\ pc' \in [Procs -> Labels] /\ pc'[p] = "wait"
        /\ \A q \in Procs : q # p => pc'[q] = pc[q]
    BY <1>2, Went DEF Labels
  <1>4. m \in Managers /\ p # None /\ x # None
    BY Names
  <1>5. TypeOK'
    <2>1. st' \in [Pids -> States] /\ owner' \in [Pids -> Managers]
      BY <1>1, <1>4 DEF TypeOK, States
    <2>2. cmd' \in [Managers -> Pids \union {None}]
          /\ mu' \in [Managers -> Procs \union {None}]
      BY <1>1, <1>2, <1>4 DEF TypeOK
    <2>3. QED
      BY <1>2, <1>3, <2>1, <2>2 DEF TypeOK
  <1>6. /\ cmd'[m] = x /\ mu'[m] = p
        /\ \A n \in Managers : n # m => cmd'[n] = cmd[n] /\ mu'[n] = mu[n]
    BY <1>1, <1>2, <1>4 DEF TypeOK
  <1>7. LockOK'
    <2>1. ASSUME NEW q \in Procs, pc'[q] = "wait"
          PROVE  mu'[Manager(q)] = q /\ cmd'[Manager(q)] \in Pids
      <3>1. CASE q = p
        BY <1>6, <3>1
      <3>2. CASE q # p
        <4>1. mu[Manager(q)] = q /\ cmd[Manager(q)] \in Pids
          BY <1>3, <2>1, <3>2 DEF LockOK
        <4>2. Manager(q) \in Managers /\ Manager(q) # m
          BY <1>2, <4>1, Names
        <4>3. QED
          BY <1>6, <4>1, <4>2
      <3>3. QED
        BY <3>1, <3>2
    <2>2. ASSUME NEW n \in Managers, mu'[n] # None
          PROVE  Manager(mu'[n]) = n /\ pc'[mu'[n]] = "wait"
      <3>1. CASE n = m
        BY <1>3, <1>6, <3>1
      <3>2. CASE n # m
        <4>1. /\ mu'[n] = mu[n] /\ Manager(mu[n]) = n
              /\ pc[mu[n]] = "wait" /\ mu[n] \in Procs
          BY <1>6, <2>2, <3>2 DEF LockOK, TypeOK
        <4>2. mu[n] # p
          BY <1>2, <4>1
        <4>3. QED
          BY <1>3, <4>1, <4>2
      <3>3. QED
        BY <3>1, <3>2
    <2>3. QED
      BY <2>1, <2>2 DEF LockOK, Manager
  <1>8. ASSUME NEW y \in Pids, y # x
        PROVE  st'[y] = st[y] /\ owner'[y] = owner[y]
    BY <1>1, <1>8 DEF TypeOK
  <1>9. NoneLoose'
    <2> SUFFICES ASSUME panel' # "exited", NEW y \in Pids, Loose(y)'
                 PROVE  FALSE
      BY DEF NoneLoose
    <2>1. CASE y = x
      <3>1. owner'[x] = m
        BY <1>1 DEF TypeOK
      <3>2. m = "panel"
        BY <2>1, <3>1 DEF Loose
      <3>3. QED
        BY <1>6, <2>1, <3>2 DEF Loose
    <2>2. CASE y # x
      <3>1. /\ Alive(y) /\ owner[y] = "panel" /\ y \notin signalled
            /\ cmd'["panel"] # y
        BY <1>2, <1>8, <2>2 DEF Loose, Alive
      <3>2. cmd["panel"] = y
        BY <1>2, <3>1 DEF NoneLoose, Loose
      <3>3. m = "panel"
        BY <1>6, <3>1, <3>2 DEF Managers
      <3>4. QED
        BY <1>2, <1>4, <3>2, <3>3
    <2>3. QED
      BY <2>1, <2>2
  <1>10. StaleOK'
    <2>1. \A y \in Pids : Stale(y)' => Stale(y)
      <3>1. st'[x] = "exec"
        BY <1>1 DEF TypeOK
      <3>2. QED
        BY <1>2, <1>8, <3>1 DEF Stale
    <2>2. Reloading => Reloading'
      BY <1>2, <1>3, Names DEF Reloading
    <2>3. QED
      BY <2>1, <2>2 DEF StaleOK
  <1>11. QED
    BY <1>5, <1>7, <1>9, <1>10

\* The mutex is given back by the only one that can have it.
LEMMA Unlocked ==
  ASSUME TypeOK, LockOK, NEW p \in Procs, pc[p] = "wait", pc'[p] # "wait",
         \A q \in Procs : q # p => pc'[q] = pc[q],
         mu' = [mu EXCEPT ![Manager(p)] = None],
         \A m \in Managers : m # Manager(p) => cmd'[m] = cmd[m]
  PROVE  LockOK'
  <1>1. /\ mu'[Manager(p)] = None
        /\ \A m \in Managers : m # Manager(p) => mu'[m] = mu[m]
    BY Names DEF TypeOK
  <1>2. ASSUME NEW q \in Procs, pc'[q] = "wait"
        PROVE  mu'[Manager(q)] = q /\ cmd'[Manager(q)] \in Pids
    <2>1. q # p /\ mu[Manager(q)] = q /\ cmd[Manager(q)] \in Pids
      BY <1>2 DEF LockOK
    <2>2. mu[Manager(p)] = p
      BY DEF LockOK
    <2>3. Manager(q) \in Managers /\ Manager(q) # Manager(p)
      BY <2>1, <2>2, Names
    <2>4. QED
      BY <1>1, <2>1, <2>3
  <1>3. ASSUME NEW m \in Managers, mu'[m] # None
        PROVE  Manager(mu'[m]) = m /\ pc'[mu'[m]] = "wait"
    <2>1. m # Manager(p) /\ mu'[m] = mu[m]
      BY <1>1, <1>3
    <2>2. Manager(mu[m]) = m /\ pc[mu[m]] = "wait" /\ mu[m] \in Procs
      BY <1>3, <2>1 DEF LockOK, TypeOK
    <2>3. mu[m] # p
      BY <2>1, <2>2
    <2>4. QED
      BY <2>1, <2>2, <2>3
  <1>4. QED
    BY <1>2, <1>3 DEF LockOK, Manager

LEMMA ExitsEarlyStep ==
  ASSUME PInv, NEW p \in Procs, ExitsEarly(p)
  PROVE  PInv'
  <1> USE DEF PInv
  <1> DEFINE m == Manager(p)
  <1>1. /\ pc[p] = "wait" /\ st[cmd[m]] = "gone" /\ Done(p)
        /\ cmd' = [cmd EXCEPT ![m] = None]
        /\ mu' = [mu EXCEPT ![m] = None]
        /\ UNCHANGED <<reaping, st, cfg, owner, signalled, live, panel>>
    BY DEF ExitsEarly, At, Track, Tracked, procVars
  <1>2. /\ pc' \in [Procs -> Labels] /\ pc'[p] \in {"idle", "exit"}
        /\ \A q \in Procs : q # p => pc'[q] = pc[q]
    BY <1>1, DoneWent
  <1>3. m \in Managers
    BY Names
  <1>4. TypeOK'
    BY <1>1, <1>2, <1>3 DEF TypeOK
  <1>5. cmd'[m] = None /\ \A n \in Managers : n # m => cmd'[n] = cmd[n]
    BY <1>1, <1>3 DEF TypeOK
  <1>6. LockOK'
    BY <1>1, <1>2, <1>5, Unlocked
  <1>7. NoneLoose'
    <2> SUFFICES ASSUME panel' # "exited", NEW y \in Pids, Loose(y)'
                 PROVE  FALSE
      BY DEF NoneLoose
    <2>1. Alive(y) /\ owner[y] = "panel" /\ y \notin signalled
      BY <1>1 DEF Loose, Alive
    <2>2. cmd["panel"] = y
      BY <1>1, <2>1 DEF NoneLoose, Loose
    <2>3. m = "panel"
      BY <1>5, <2>2 DEF Loose, Managers
    <2>4. QED
      BY <1>1, <2>1, <2>2, <2>3 DEF Alive
  <1>8. StaleOK'
    <2>1. Reloading => Reloading'
      BY <1>1, <1>2, Names DEF Reloading
    <2>2. QED
      BY <1>1, <2>1, StaleSame
  <1>9. QED
    BY <1>4, <1>6, <1>7, <1>8

LEMMA SurvivesStep ==
  ASSUME PInv, NEW p \in Procs, Survives(p)
  PROVE  PInv'
  <1> USE DEF PInv
  <1> DEFINE m == Manager(p)
  <1>1. /\ pc[p] = "wait" /\ Done(p)
        /\ mu' = [mu EXCEPT ![m] = None]
        /\ reaping' = IF p = "cli" THEN reaping ELSE reaping \union {cmd[m]}
        /\ UNCHANGED <<cmd, st, cfg, owner, signalled, live, panel>>
    BY DEF Survives, At, Tracked, procVars
  <1>2. /\ pc' \in [Procs -> Labels] /\ pc'[p] \in {"idle", "exit"}
        /\ \A q \in Procs : q # p => pc'[q] = pc[q]
    BY <1>1, DoneWent
  <1>3. m \in Managers /\ cmd[m] \in Pids
    BY <1>1, Names DEF LockOK
  <1>4. reaping' \subseteq Pids
    BY <1>1, <1>3 DEF TypeOK
  <1>5. TypeOK'
    BY <1>1, <1>2, <1>3, <1>4 DEF TypeOK
  <1>6. LockOK'
    BY <1>1, <1>2, Unlocked
  <1>7. NoneLoose'
    BY <1>1, LooseSame
  <1>8. Reloading => Reloading'
    BY <1>1, <1>2, Names DEF Reloading
  <1>9. StaleOK'
    BY <1>1, <1>8, StaleSame
  <1>10. QED
    BY <1>5, <1>6, <1>7, <1>9

\* A reap that comes late finds another process tracked, and leaves it.
LEMMA ReapStep ==
  ASSUME PInv, NEW x \in Pids, Reap(x)
  PROVE  PInv'
  <1> USE DEF PInv
  <1>1. /\ st[x] = "gone" /\ mu["panel"] = None
        /\ cmd' = IF cmd["panel"] = x THEN [cmd EXCEPT !["panel"] = None]
                                      ELSE cmd
        /\ reaping' = reaping \ {x}
        /\ UNCHANGED <<mu, pc, st, cfg, owner, signalled, live, panel>>
    BY DEF Reap, procVars
  <1>2. "panel" \in Managers
    BY DEF Managers
  <1>3. /\ cmd' \in [Managers -> Pids \union {None}]
        /\ \A n \in Managers : n # "panel" => cmd'[n] = cmd[n]
        /\ \A y \in Pids : y # x /\ cmd["panel"] = y => cmd'["panel"] = y
    BY <1>1, <1>2 DEF TypeOK
  <1>4. TypeOK'
    BY <1>1, <1>3 DEF TypeOK
  <1>5. LockOK'
    <2>1. ASSUME NEW q \in Procs, pc'[q] = "wait"
          PROVE  mu'[Manager(q)] = q /\ cmd'[Manager(q)] \in Pids
      <3>1. mu[Manager(q)] = q /\ cmd[Manager(q)] \in Pids /\ q # None
        BY <1>1, <2>1, Names DEF LockOK
      <3>2. Manager(q) \in Managers /\ Manager(q) # "panel"
        BY <1>1, <3>1, Names
      <3>3. QED
        BY <1>1, <1>3, <3>1, <3>2
    <2>2. QED
      BY <1>1, <2>1 DEF LockOK, Manager
  <1>6. NoneLoose'
    <2> SUFFICES ASSUME panel' # "exited", NEW y \in Pids, Loose(y)'
                 PROVE  FALSE
      BY DEF NoneLoose
    <2>1. Alive(y) /\ owner[y] = "panel" /\ y \notin signalled
      BY <1>1 DEF Loose, Alive
    <2>2. cmd["panel"] = y /\ y # x
      BY <1>1, <2>1 DEF NoneLoose, Loose, Alive
    <2>3. QED
      BY <1>3, <2>2 DEF Loose
  <1>7. StaleOK'
    BY <1>1, StaleSame DEF Reloading
  <1>8. QED
    BY <1>4, <1>5, <1>6, <1>7

LEMMA PanelExitsStep ==
  ASSUME PInv, PanelExits
  PROVE  PInv'
  <1> USE DEF PInv
  <1>1. /\ panel' = "exited"
        /\ UNCHANGED <<cmd, mu, pc, reaping, st, cfg, owner, signalled, live>>
    BY DEF PanelExits, procVars
  <1>2. TypeOK' /\ LockOK' /\ NoneLoose'
    BY <1>1, LockStill DEF TypeOK, NoneLoose
  <1>3. StaleOK'
    BY <1>1, StaleSame DEF Reloading
  <1>4. QED
    BY <1>2, <1>3

-----------------------------------------------------------------------------
(* The processes.                                                          *)

\* A step of one process, after which it is neither loose nor stale unless
\* it was.
LEMMA ProcessMoves ==
  ASSUME PInv, NEW x \in Pids,
         UNCHANGED <<cmd, mu, pc, reaping, live, panel>>,
         st' \in [Pids -> States], cfg' \in [Pids -> Versions],
         owner' \in [Pids -> Managers], signalled' \subseteq Pids,
         \A y \in Pids : y # x =>
           /\ st'[y] = st[y] /\ cfg'[y] = cfg[y] /\ owner'[y] = owner[y]
           /\ y \in signalled' <=> y \in signalled,
         Loose(x)' => Loose(x),
         Stale(x)' => Stale(x)
  PROVE  PInv'
  <1> USE DEF PInv
  <1>1. TypeOK'
    BY DEF TypeOK
  <1>2. LockOK'
    BY LockStill
  <1>3. ASSUME NEW y \in Pids, y # x
        PROVE  (Loose(y)' => Loose(y)) /\ (Stale(y)' => Stale(y))
    BY <1>3 DEF Loose, Stale, Alive
  <1>4. NoneLoose'
    BY <1>3 DEF NoneLoose
  <1>5. StaleOK'
    BY <1>3 DEF StaleOK, Reloading
  <1>6. QED
    BY <1>1, <1>2, <1>4, <1>5

LEMMA ProcessStep ==
  ASSUME PInv, NEW x \in Pids, Load(x) \/ Bind(x) \/ Exit(x) \/ Collect(x)
  PROVE  PInv'
  <1> USE DEF PInv
  <1>1. CASE Load(x)
    <2>1. /\ st[x] = "exec" /\ st' = [st EXCEPT ![x] = "loaded"]
          /\ cfg' = [cfg EXCEPT ![x] = live]
          /\ UNCHANGED <<cmd, mu, pc, reaping, owner, signalled, live, panel>>
      BY <1>1 DEF Load, Become
    <2>2. st' \in [Pids -> States] /\ cfg' \in [Pids -> Versions]
      BY <2>1 DEF TypeOK, States
    <2>3. \A y \in Pids : y # x => st'[y] = st[y] /\ cfg'[y] = cfg[y]
      BY <2>1 DEF TypeOK
    <2>4. cfg'[x] = live'
      BY <2>1 DEF TypeOK
    <2>5. (Loose(x)' => Loose(x)) /\ ~ Stale(x)'
      BY <2>1, <2>4 DEF Loose, Alive, Stale
    <2>6. owner' \in [Pids -> Managers] /\ signalled' \subseteq Pids
      BY <2>1 DEF TypeOK
    <2>7. QED
      BY <2>1, <2>2, <2>3, <2>5, <2>6, ProcessMoves
  <1>2. ASSUME Dies(x), UNCHANGED <<cmd, mu, pc, reaping, live, panel>>
        PROVE  PInv'
    <2>1. /\ st' = [st EXCEPT ![x] = "zombie"]
          /\ cfg' = [cfg EXCEPT ![x] = 0]
          /\ owner' = [owner EXCEPT ![x] = "panel"]
          /\ signalled' = signalled \ {x}
      BY <1>2 DEF Dies, Become
    <2>2. 0 \in Versions
      BY DEF Versions
    <2>3. /\ st' \in [Pids -> States] /\ cfg' \in [Pids -> Versions]
          /\ owner' \in [Pids -> Managers] /\ signalled' \subseteq Pids
      BY <2>1, <2>2 DEF TypeOK, States, Managers
    <2>4. \A y \in Pids : y # x =>
            /\ st'[y] = st[y] /\ cfg'[y] = cfg[y] /\ owner'[y] = owner[y]
            /\ y \in signalled' <=> y \in signalled
      BY <2>1 DEF TypeOK
    <2>5. st'[x] = "zombie"
      BY <2>1 DEF TypeOK
    <2>6. ~ Loose(x)' /\ ~ Stale(x)'
      BY <2>5 DEF Loose, Alive, Stale
    <2>7. QED
      BY <1>2, <2>3, <2>4, <2>6, ProcessMoves
  <1>3. CASE Bind(x)
    <2>1. UNCHANGED <<cmd, mu, pc, reaping, live, panel>>
      BY <1>3 DEF Bind
    <2>2. CASE PortsTaken(x)
      BY <1>2, <1>3, <2>1, <2>2 DEF Bind
    <2>3. CASE ~ PortsTaken(x)
      <3>1. /\ st[x] = "loaded" /\ st' = [st EXCEPT ![x] = "serving"]
            /\ UNCHANGED <<cfg, owner, signalled>>
        BY <1>3, <2>3 DEF Bind, Become
      <3>2. /\ st' \in [Pids -> States]
            /\ \A y \in Pids : y # x => st'[y] = st[y]
        BY <3>1 DEF TypeOK, States
      <3>3. (Loose(x)' => Loose(x)) /\ (Stale(x)' => Stale(x))
        BY <2>1, <3>1 DEF Loose, Alive, Stale
      <3>4. /\ cfg' \in [Pids -> Versions] /\ owner' \in [Pids -> Managers]
            /\ signalled' \subseteq Pids
        BY <3>1 DEF TypeOK
      <3>5. QED
        BY <2>1, <3>1, <3>2, <3>3, <3>4, ProcessMoves
    <2>4. QED
      BY <2>2, <2>3
  <1>4. CASE Exit(x)
    BY <1>2, <1>4 DEF Exit
  <1>5. CASE Collect(x)
    <2>1. /\ st' = [st EXCEPT ![x] = "gone"]
          /\ UNCHANGED <<cmd, mu, pc, reaping, cfg, owner, signalled, live,
                         panel>>
      BY <1>5 DEF Collect, Become
    <2>2. /\ st' \in [Pids -> States] /\ st'[x] = "gone"
          /\ \A y \in Pids : y # x => st'[y] = st[y]
      BY <2>1 DEF TypeOK, States
    <2>3. ~ Loose(x)' /\ ~ Stale(x)'
      BY <2>2 DEF Loose, Alive, Stale
    <2>4. /\ cfg' \in [Pids -> Versions] /\ owner' \in [Pids -> Managers]
          /\ signalled' \subseteq Pids
      BY <2>1 DEF TypeOK
    <2>5. QED
      BY <2>1, <2>2, <2>3, <2>4, ProcessMoves
  <1>6. QED
    BY <1>1, <1>3, <1>4, <1>5

-----------------------------------------------------------------------------
(* Together.                                                               *)

LEMMA PInvInit == Init => PInv
  <1> SUFFICES ASSUME Init PROVE PInv
    OBVIOUS
  <1>1. \A p \in Procs : pc[p] \in {"start", "idle"}
    BY DEF Init
  <1>2. pc \in [Procs -> Labels]
    BY DEF Init, Labels
  <1>3. \A x \in Pids : st[x] = "unused"
    BY DEF Init
  <1>4. TypeOK
    BY <1>2 DEF Init, TypeOK, States, Versions, Managers
  <1>5. LockOK
    BY <1>1 DEF Init, LockOK
  <1>6. NoneLoose /\ StaleOK
    BY <1>3 DEF NoneLoose, StaleOK, Loose, Stale, Alive
  <1>7. QED
    BY <1>4, <1>5, <1>6 DEF PInv

LEMMA PInvStep == PInv /\ [Next]_vars => PInv'
  <1> SUFFICES ASSUME PInv, [Next]_vars PROVE PInv'
    OBVIOUS
  <1>1. CASE \/ \E r \in Requests : Request(r)
             \/ Command \/ ShutdownSignal \/ Drained
    BY <1>1, IntendStep
  <1>2. CASE Install \/ Status \/ PanelExits
    BY <1>2, InstallStep, StatusStep, PanelExitsStep
  <1>3. ASSUME NEW p \in Procs, Operation(p) PROVE PInv'
    BY <1>3, StopNothingStep, StopSignalsStep, PassStep, SpawnStep,
       ExitsEarlyStep, SurvivesStep DEF Operation
  <1>4. ASSUME NEW x \in Pids,
               Reap(x) \/ Load(x) \/ Bind(x) \/ Exit(x) \/ Collect(x)
        PROVE  PInv'
    BY <1>4, ReapStep, ProcessStep
  <1>5. CASE UNCHANGED vars
    <2>1. UNCHANGED <<cmd, mu, pc, reaping, st, cfg, owner, signalled, live,
                      panel>>
      BY <1>5 DEF vars
    <2>2. TypeOK' /\ LockOK' /\ NoneLoose' /\ StaleOK'
      BY <2>1, LockStill, LooseSame, StaleSame DEF PInv, TypeOK, Reloading
    <2>3. QED
      BY <2>2 DEF PInv
  <1>6. QED
    BY <1>1, <1>2, <1>3, <1>4, <1>5 DEF Next

LEMMA AlwaysPInv == Spec => []PInv
  BY PInvInit, PInvStep, PTL DEF Spec

(* No live process that the panel has started is forgotten without a       *)
(* signal, and the variables keep their types (process.go:284-393).        *)
THEOREM NoneIsForgotten == Spec => []NoCoreForgotten
  <1>1. PInv => NoCoreForgotten
    BY DEF PInv, NoneLoose, Loose, NoCoreForgotten
  <1>2. QED
    BY <1>1, AlwaysPInv, PTL

(* With no Apply under way, a core that keeps running has read the newest  *)
(* file (apply.go:164-179 with process.go:284-378).                        *)
THEOREM TheCoreIsCurrent == Spec => []CurrentCore
  <1>1. PInv => CurrentCore
    BY DEF PInv, StaleOK, Stale, Reloading, CurrentCore
  <1>2. QED
    BY <1>1, AlwaysPInv, PTL

\* Somebody of the panel is going to see the exit of x: a reap, or the
\* Start that waits with the mutex in its hands.
Watching(x) ==
  \/ x \in reaping
  \/ \E p \in Procs \ {"cli"} : pc[p] = "wait" /\ mu["panel"] = p

\* What the panel tracks was started and is watched.
Watched ==
  panel # "exited" =>
    \A x \in Pids : cmd["panel"] = x => st[x] # "unused" /\ Watching(x)

LEMMA WatchedSame ==
  ASSUME Watched, cmd'["panel"] = cmd["panel"], mu'["panel"] = mu["panel"],
         reaping \subseteq reaping', panel' # "exited" => panel # "exited",
         \A p \in Procs \ {"cli"} : pc[p] = "wait" => pc'[p] = "wait",
         \A x \in Pids : st[x] # "unused" => st'[x] # "unused"
  PROVE  Watched'
  <1>1. ASSUME NEW x \in Pids, panel' # "exited", cmd'["panel"] = x
        PROVE  st'[x] # "unused" /\ Watching(x)'
    <2>1. st[x] # "unused" /\ Watching(x)
      BY <1>1 DEF Watched
    <2>2. QED
      BY <2>1 DEF Watching
  <1>2. QED
    BY <1>1 DEF Watched

LEMMA WatchedNone ==
  ASSUME cmd'["panel"] = None
  PROVE  Watched'
  BY DEF Watched

\* A goroutine that waits stays where it is while another one moves.
LEMMA WatchedMoves ==
  ASSUME TypeOK, Watched, NEW p \in Procs, pc[p] # "wait" \/ p = "cli",
         \A q \in Procs : q # p => pc'[q] = pc[q],
         cmd'["panel"] = cmd["panel"], mu'["panel"] = mu["panel"],
         UNCHANGED <<reaping, st>>, panel' # "exited" => panel # "exited"
  PROVE  Watched'
  BY WatchedSame

LEMMA StartsWatched ==
  ASSUME PInv, Watched, NEW p \in Procs, Spawn(p)
  PROVE  Watched'
  <1>1. PICK x \in Pids : /\ st[x] = "unused"
                          /\ st' = [st EXCEPT ![x] = "exec"]
                          /\ Track(p, x)
    BY DEF Spawn
  <1>2. /\ \A q \in Procs : q # p => pc'[q] = pc[q]
        /\ pc'[p] = "wait" /\ pc[p] = "start"
    BY Went DEF Spawn, At, PInv, Labels
  <1>3. /\ \A y \in Pids : st[y] # "unused" => st'[y] # "unused"
        /\ st'[x] # "unused"
    BY <1>1 DEF PInv, TypeOK
  <1>4. UNCHANGED <<reaping, panel>> /\ mu' = [mu EXCEPT ![Manager(p)] = p]
    BY DEF Spawn
  <1>5. CASE p = "cli"
    <2>1. cmd'["panel"] = cmd["panel"] /\ mu'["panel"] = mu["panel"]
      BY <1>1, <1>4, <1>5 DEF PInv, TypeOK, Track, Manager, Managers
    <2>2. QED
      BY <1>2, <1>3, <1>4, <1>5, <2>1, WatchedSame
  <1>6. CASE p # "cli"
    <2>1. cmd'["panel"] = x /\ mu'["panel"] = p
      BY <1>1, <1>4, <1>6 DEF PInv, TypeOK, Track, Manager, Managers
    <2>2. Watching(x)'
      BY <1>2, <1>6, <2>1 DEF Watching
    <2>3. QED
      BY <1>3, <2>1, <2>2 DEF Watched
  <1>7. QED
    BY <1>5, <1>6

LEMMA WaitEndsWatched ==
  ASSUME PInv, Watched, NEW p \in Procs, ExitsEarly(p) \/ Survives(p)
  PROVE  Watched'
  <1>1. /\ \A q \in Procs : q # p => pc'[q] = pc[q]
        /\ UNCHANGED <<st, panel>> /\ reaping \subseteq reaping'
        /\ mu' = [mu EXCEPT ![Manager(p)] = None]
    BY DoneWent DEF PInv, ExitsEarly, Survives, procVars
  <1>2. CASE p = "cli"
    <2>1. cmd'["panel"] = cmd["panel"] /\ mu'["panel"] = mu["panel"]
      BY <1>1, <1>2
      DEF PInv, TypeOK, ExitsEarly, Survives, Track, Manager, Managers
    <2>2. QED
      BY <1>1, <1>2, <2>1, WatchedSame
  <1>3. CASE p # "cli" /\ ExitsEarly(p)
    <2>1. cmd'["panel"] = None
      BY <1>3 DEF PInv, TypeOK, ExitsEarly, Track, Manager, Managers
    <2>2. QED
      BY <2>1, WatchedNone
  <1>4. CASE p # "cli" /\ Survives(p)
    <2>1. cmd' = cmd /\ reaping' = reaping \union {cmd["panel"]}
      BY <1>4 DEF Survives, Tracked, Manager
    <2>2. QED
      BY <1>1, <2>1 DEF Watched, Watching
  <1>5. QED
    BY <1>2, <1>3, <1>4

\* Stop forgets what it tracks; what else a goroutine does with the mutex
\* free leaves the tracking alone.
LEMMA OperationWatched ==
  ASSUME PInv, Watched, NEW p \in Procs, Operation(p)
  PROVE  Watched'
  <1> USE DEF PInv
  <1>1. CASE StopNothing(p) \/ StopFails(p) \/ PauseOver(p) \/ StartRunning(p)
             \/ StartFails(p)
    <2>1. pc[p] # "wait" /\ UNCHANGED <<cmd, mu, reaping, st, panel>>
      BY <1>1
      DEF StopNothing, StopFails, PauseOver, StartRunning, StartFails, At,
          procVars
    <2>2. \A q \in Procs : q # p => pc'[q] = pc[q]
      BY <1>1, Went, DoneWent
      DEF StopNothing, StopFails, PauseOver, StartRunning, StartFails, Labels
    <2>3. QED
      BY <2>1, <2>2, WatchedMoves
  <1>2. CASE StopSignals(p)
    <2>1. CASE p = "cli"
      <3>1. cmd'["panel"] = cmd["panel"] /\ UNCHANGED <<mu, reaping, st, panel>>
        BY <1>2, <2>1 DEF TypeOK, StopSignals, Track, Manager, Managers
      <3>2. \A q \in Procs : q # p => pc'[q] = pc[q]
        BY <1>2, Went, DoneWent DEF StopSignals, Labels
      <3>3. QED
        BY <2>1, <3>1, <3>2, WatchedMoves
    <2>2. CASE p # "cli"
      <3>1. cmd'["panel"] = None
        BY <1>2, <2>2 DEF TypeOK, StopSignals, Track, Manager, Managers
      <3>2. QED
        BY <3>1, WatchedNone
    <2>3. QED
      BY <2>1, <2>2
  <1>3. CASE Spawn(p)
    BY <1>3, StartsWatched
  <1>4. CASE ExitsEarly(p) \/ Survives(p)
    BY <1>4, WaitEndsWatched
  <1>5. QED
    BY <1>1, <1>2, <1>3, <1>4 DEF Operation

\* What was started is never unused again, and what is dead stays dead.
LEMMA ProcessGoesOn ==
  ASSUME PInv, [Next]_vars, NEW x \in Pids
  PROVE  /\ st[x] # "unused" => st'[x] # "unused"
         /\ st[x] = "zombie" => st'[x] \in {"zombie", "gone"}
         /\ st[x] = "gone" => st'[x] = "gone"
  <1> USE DEF PInv, TypeOK
  <1>1. ASSUME NEW y \in Pids,
               Reap(y) \/ Load(y) \/ Bind(y) \/ Exit(y) \/ Collect(y)
        PROVE  \/ st' = st
               \/ /\ st[y] # "gone" /\ \E s \in States \ {"unused"} : Become(y, s)
                  /\ st[y] = "zombie" => st'[y] = "gone"
    BY <1>1
    DEF Reap, Load, Bind, Exit, Collect, Dies, Become, Alive, States, procVars
  <1>2. ASSUME NEW p \in Procs, Operation(p)
        PROVE  \/ st' = st
               \/ \E y \in Pids : st[y] = "unused" /\ Become(y, "exec")
    BY <1>2
    DEF Operation, StopNothing, StopSignals, StopFails, PauseOver, StartRunning,
        StartFails, Spawn, ExitsEarly, Survives, Become, procVars
  <1>3. \/ st' = st
        \/ \E p \in Procs : Operation(p)
        \/ \E y \in Pids : Reap(y) \/ Load(y) \/ Bind(y) \/ Exit(y) \/ Collect(y)
    BY DEF Next, vars, Request, Command, Install, Status, ShutdownSignal,
           Drained, PanelExits, procVars
  <1>4. QED
    BY <1>1, <1>2, <1>3 DEF Become

LEMMA WatchedStep ==
  ASSUME PInv, Watched, [Next]_vars
  PROVE  Watched'
  <1> USE DEF PInv
  <1>1. ASSUME NEW p \in Procs, pc[p] # "wait", NEW l \in Labels, Goto(p, l),
               cmd'["panel"] = cmd["panel"], UNCHANGED <<mu, reaping, st>>,
               panel' # "exited" => panel # "exited"
        PROVE  Watched'
    BY <1>1, Went, WatchedMoves
  <1>2. ASSUME NEW r \in Requests, Request(r)
        PROVE  Watched'
    BY <1>1, <1>2, Names DEF Request, Labels, procVars
  <1>3. CASE Command
    <2>1. "cli" \in Procs /\ cmd'["panel"] = cmd["panel"]
      BY <1>3, Names DEF Command, TypeOK, Managers
    <2>2. QED
      BY <1>1, <1>3, <2>1 DEF Command, Labels, procVars
  <1>4. CASE Install
    BY <1>1, <1>4, Names DEF Install, Labels, procVars
  <1>5. CASE Status
    BY <1>1, <1>5, Names DEF Status, At, Labels, procVars
  <1>6. CASE \E p \in Procs : Operation(p)
    BY <1>6, OperationWatched
  <1>7. CASE ShutdownSignal
    BY <1>1, <1>7, Names DEF ShutdownSignal, Serving, Labels, procVars
  <1>8. CASE Drained
    BY <1>1, <1>8, Names DEF Drained, At, Labels, procVars
  <1>9. CASE PanelExits
    BY <1>9 DEF PanelExits, Watched
  <1>10. ASSUME NEW x \in Pids, Reap(x)
         PROVE  Watched'
    <2>1. CASE cmd["panel"] = x
      <3>1. cmd'["panel"] = None
        BY <1>10, <2>1 DEF Reap, TypeOK, Managers
      <3>2. QED
        BY <3>1, WatchedNone
    <2>2. CASE cmd["panel"] # x
      BY <1>10, <2>2 DEF Reap, Watched, Watching, procVars
    <2>3. QED
      BY <2>1, <2>2
  <1>11. ASSUME NEW x \in Pids, Load(x) \/ Bind(x) \/ Exit(x) \/ Collect(x)
         PROVE  Watched'
    <2>1. UNCHANGED <<cmd, mu, pc, reaping, panel>>
      BY <1>11 DEF Load, Bind, Exit, Collect
    <2>2. QED
      BY <2>1, ProcessGoesOn, WatchedSame
  <1>12. CASE UNCHANGED vars
    BY <1>12, WatchedSame DEF vars
  <1>13. QED
    BY <1>2, <1>3, <1>4, <1>5, <1>6, <1>7, <1>8, <1>9, <1>10, <1>11, <1>12
    DEF Next

(* The process that a running panel tracks is watched, alive or dead: the  *)
(* Start that started it still waits, or a goroutine is there to reap it   *)
(* (process.go:300-325,380-393).                                           *)
THEOREM TrackedIsWatched == Spec => []Watched
  <1>1. Init => Watched
    BY WatchedNone DEF Init, Watched, Managers
  <1>2. PInv /\ Watched /\ [Next]_vars => Watched'
    BY WatchedStep
  <1>3. QED
    BY <1>1, <1>2, AlwaysPInv, PTL DEF Spec

(* A dead core is on its way out: as long as the panel runs and tracks it, *)
(* it stays dead, it stays collected once it is, and the goroutine that is *)
(* to reap it stays until it has.  With TrackedIsWatched this is what      *)
(* DeadCoreIsNoticed needs besides the fairness of the waits and of the    *)
(* mutex (process.go:315-325,380-393).                                     *)
THEOREM DeadStaysDead ==
  Spec => [][\A x \in Pids :
               panel # "exited" /\ cmd["panel"] = x /\ ~ Alive(x) =>
                 \/ cmd'["panel"] # x
                 \/ panel' = "exited"
                 \/ /\ ~ Alive(x)'
                    /\ st[x] = "gone" => st'[x] = "gone"
                    /\ x \in reaping => x \in reaping']_vars
  <1>1. ASSUME PInv, Watched, [Next]_vars, NEW x \in Pids,
               panel # "exited", cmd["panel"] = x, ~ Alive(x)
        PROVE  \/ cmd'["panel"] # x
               \/ ~ Alive(x)' /\ (st[x] = "gone" => st'[x] = "gone")
                  /\ (x \in reaping => x \in reaping')
    <2>1. st[x] \in {"zombie", "gone"}
      BY <1>1 DEF Watched, PInv, TypeOK, Alive, States
    <2>2. ~ Alive(x)' /\ (st[x] = "gone" => st'[x] = "gone")
      BY <1>1, <2>1, ProcessGoesOn DEF Alive
    <2>3. ASSUME x \in reaping, x \notin reaping'
          PROVE  cmd'["panel"] # x
      <3>1. \A y \in Pids : Reap(y) => y = x
        BY <1>1, <2>3 DEF Reap
      <3>2. PICK y \in Pids : Reap(y)
        BY <1>1, <2>3
        DEF Next, vars, Request, Command, Install, Status, ShutdownSignal,
            Drained, PanelExits, Operation, StopNothing, StopSignals, StopFails,
            PauseOver, StartRunning, StartFails, Spawn, ExitsEarly, Survives,
            Load, Bind, Exit, Collect
      <3>3. Reap(x)
        BY <3>1, <3>2
      <3>4. cmd'["panel"] = None
        BY <1>1, <3>3 DEF Reap, PInv, TypeOK, Managers
      <3>5. QED
        BY <3>4
    <2>4. QED
      BY <2>2, <2>3
  <1>2. PInv /\ Watched /\ [Next]_vars =>
          [\A x \in Pids :
             panel # "exited" /\ cmd["panel"] = x /\ ~ Alive(x) =>
               \/ cmd'["panel"] # x
               \/ panel' = "exited"
               \/ /\ ~ Alive(x)'
                  /\ st[x] = "gone" => st'[x] = "gone"
                  /\ x \in reaping => x \in reaping']_vars
    BY <1>1
  <1>3. QED
    BY <1>2, AlwaysPInv, TrackedIsWatched, PTL DEF Spec

-----------------------------------------------------------------------------
(* Notifications.                                                          *)

USE NoticesAssumption DEF NoticesAssumption

Notice  == [limit : Limits, level : {1, 2}]
Message == Events \union {"failure"}
Tick    == [at : {"quota", "expiry", "end"}, saving : BOOLEAN,
            level : [Events -> Levels], limit : [Events -> Limits]]

ClientOK ==
  /\ active \in BOOLEAN /\ enabled \in BOOLEAN
  /\ level \in [Events -> Levels]
  /\ limit \in [Events -> Limits]

StateOK ==
  /\ row \in [Events -> Notice \union {NoState}]
  /\ fault \in [cause : Causes, at : 0 .. MaxTime] \union {NoState}

QueueOK ==
  /\ queue \in Seq(Message)
  /\ Len(queue) <= Capacity

TickOK == tick \in Tick \union {NoState}

Doing == [cause : Causes, saving : BOOLEAN, late : BOOLEAN]

ReportOK ==
  report \in [Reporters -> Doing \union {NoState}]

HistoryOK ==
  /\ now \in 0 .. MaxTime
  /\ told \in [Events -> [limit : Limits, level : Levels]]
  /\ said \in [cause : Causes, at : 0 .. MaxTime] \union {NoState}
  /\ unsaved \subseteq Events \union {"failure"}
  /\ edits \in 0 .. MaxEdits /\ crashes \in 0 .. MaxCrashes
  /\ reports \in 0 .. MaxAll

Typed ==
  ClientOK /\ StateOK /\ QueueOK /\ TickOK /\ ReportOK /\ HistoryOK

\* A record is of the last notice, and the last notice is on record.
RecordOK ==
  \A e \in Events : e \notin unsaved =>
    /\ row[e] # NoState => told[e] = row[e]
    /\ told[e].level > 0 => row[e] # NoState /\ told[e] = row[e]

\* What a tick is about to record is what it has just told.
SavingOK ==
  tick # NoState /\ tick.saving =>
    /\ tick.at \in Events
    /\ tick.level[tick.at] > 0
    /\ told[tick.at] = Observed(tick.at)

\* The inductive invariant.
NInv == Typed /\ RecordOK /\ SavingOK

-----------------------------------------------------------------------------
(* Types.                                                                  *)

LEMMA GoToType ==
  ASSUME TickOK, tick # NoState, NEW l \in {"quota", "expiry", "end"}, GoTo(l)
  PROVE  TickOK' /\ (tick' # NoState => ~ tick'.saving)
  BY DEF TickOK, GoTo, Tick

\* Taking a message, or putting one where there is room.
LEMMA QueueTakes ==
  ASSUME QueueOK, queue # <<>>, queue' = Tail(queue)
  PROVE  QueueOK'
  <1>1. Tail(queue) \in Seq(Message) /\ Len(Tail(queue)) = Len(queue) - 1
    BY DEF QueueOK
  <1>2. Len(queue) \in Nat
    BY DEF QueueOK
  <1>3. QED
    BY <1>1, <1>2 DEF QueueOK

LEMMA QueuePuts ==
  ASSUME QueueOK, HasRoom, NEW m \in Message, queue' = Append(queue, m)
  PROVE  QueueOK'
  <1>1. Append(queue, m) \in Seq(Message)
        /\ Len(Append(queue, m)) = Len(queue) + 1
    BY DEF QueueOK
  <1>2. Len(queue) \in Nat /\ Len(queue) < Capacity
    BY DEF QueueOK, HasRoom
  <1>3. QED
    BY <1>1, <1>2 DEF QueueOK

\* What a tick has observed can be recorded.
LEMMA ObservedType ==
  ASSUME TickOK, tick # NoState, NEW e \in Events
  PROVE  /\ Observed(e) \in [limit : Limits, level : Levels]
         /\ tick.level[e] > 0 => Observed(e) \in Notice /\ tick.level[e] \in {1, 2}
         /\ Observed(e).level = tick.level[e]
         /\ Observed(e).limit = tick.limit[e]
  BY DEF TickOK, Tick, Observed, Notice, Levels

LEMMA ObservesEvent ==
  ASSUME NEW e \in Events
  PROVE  Following(e) \in {"quota", "expiry", "end"}
  BY DEF Following

\* A step that leaves the records, the history and the tick alone.
LEMMA RecordsSame ==
  ASSUME RecordOK, row' = row, told' = told,
         \A e \in Events : e \in unsaved => e \in unsaved'
  PROVE  RecordOK'
  BY DEF RecordOK

LEMMA SavingSame ==
  ASSUME SavingOK, tick' = tick, told' = told
  PROVE  SavingOK'
  BY DEF SavingOK, Observed

LEMMA NothingSaved ==
  ASSUME tick' # NoState => ~ tick'.saving
  PROVE  SavingOK'
  BY DEF SavingOK

-----------------------------------------------------------------------------
(* The queue and the tick.                                                 *)

LEMMA DeliverStep ==
  ASSUME NInv, Deliver
  PROVE  NInv'
  <1> USE DEF NInv, Typed
  <1>1. /\ queue # <<>> /\ queue' = Tail(queue)
        /\ UNCHANGED <<active, level, limit, enabled, row, fault, tick,
                       report, now, told, said, unsaved, edits, crashes,
                       reports>>
    BY DEF Deliver, client, states, history, bounds
  <1>2. QueueOK'
    BY <1>1, QueueTakes
  <1>3. ClientOK' /\ StateOK' /\ TickOK' /\ ReportOK' /\ HistoryOK'
    BY <1>1 DEF ClientOK, StateOK, TickOK, ReportOK, HistoryOK
  <1>4. RecordOK' /\ SavingOK'
    BY <1>1, RecordsSame, SavingSame
  <1>5. QED
    BY <1>2, <1>3, <1>4

LEMMA ListStep ==
  ASSUME NInv, List
  PROVE  NInv'
  <1> USE DEF NInv, Typed
  <1>1. /\ tick' = [at |-> "quota", saving |-> FALSE, level |-> level,
                    limit |-> limit]
        /\ UNCHANGED <<active, level, limit, enabled, row, fault, queue,
                       report, now, told, said, unsaved, edits, crashes,
                       reports>>
    BY DEF List, client, states, history, bounds
  <1>2. TickOK' /\ ~ tick'.saving
    BY <1>1 DEF TickOK, Tick, ClientOK
  <1>3. ClientOK' /\ StateOK' /\ QueueOK' /\ ReportOK' /\ HistoryOK'
    BY <1>1 DEF ClientOK, StateOK, QueueOK, ReportOK, HistoryOK
  <1>4. RecordOK' /\ SavingOK'
    BY <1>1, <1>2, RecordsSame, NothingSaved
  <1>5. QED
    BY <1>2, <1>3, <1>4

\* A failing read, or nothing to tell: the tick goes on.
LEMMA TickPassStep ==
  ASSUME NInv, NEW e \in Events, ReadFails(e) \/ Skip(e)
  PROVE  NInv'
  <1> USE DEF NInv, Typed
  <1>1. PICK l \in {"quota", "expiry", "end"} : GoTo(l)
    BY ObservesEvent DEF ReadFails, Skip
  <1>2. /\ tick # NoState
        /\ UNCHANGED <<active, level, limit, enabled, row, fault, queue,
                       report, now, told, said, unsaved, edits, crashes,
                       reports>>
    BY DEF ReadFails, Skip, Observes, client, states, history, bounds
  <1>3. TickOK' /\ SavingOK'
    BY <1>1, <1>2, GoToType, NothingSaved
  <1>4. ClientOK' /\ StateOK' /\ QueueOK' /\ ReportOK' /\ HistoryOK'
    BY <1>2 DEF ClientOK, StateOK, QueueOK, ReportOK, HistoryOK
  <1>5. RecordOK'
    BY <1>2, RecordsSame
  <1>6. QED
    BY <1>3, <1>4, <1>5

LEMMA FallsStep ==
  ASSUME NInv, NEW e \in Events, Falls(e)
  PROVE  NInv'
  <1> USE DEF NInv, Typed
  <1>1. /\ tick # NoState /\ tick.level[e] = 0
        /\ row' = [row EXCEPT ![e] = NoState]
        /\ told' = [told EXCEPT ![e] = Observed(e)]
        /\ GoTo(Following(e))
        /\ UNCHANGED <<active, level, limit, enabled, fault, queue, report,
                       now, said, unsaved, edits, crashes, reports>>
    BY DEF Falls, Observes, client, bounds
  <1>2. TickOK' /\ SavingOK'
    BY <1>1, ObservesEvent, GoToType, NothingSaved
  <1>3. /\ Observed(e) \in [limit : Limits, level : Levels]
        /\ Observed(e).level = 0
    BY <1>1, ObservedType
  <1>4. StateOK'
    BY <1>1 DEF StateOK
  <1>5. told' \in [Events -> [limit : Limits, level : Levels]]
    BY <1>1, <1>3 DEF HistoryOK
  <1>6. HistoryOK'
    BY <1>1, <1>5 DEF HistoryOK
  <1>7. ClientOK' /\ QueueOK' /\ ReportOK'
    BY <1>1 DEF ClientOK, QueueOK, ReportOK
  <1>8. row'[e] = NoState /\ told'[e].level = 0
    BY <1>1, <1>3 DEF StateOK, HistoryOK
  <1>9. \A f \in Events : f # e => row'[f] = row[f] /\ told'[f] = told[f]
    BY <1>1 DEF StateOK, HistoryOK
  <1>10. RecordOK'
    BY <1>1, <1>8, <1>9 DEF RecordOK
  <1>11. QED
    BY <1>2, <1>4, <1>6, <1>7, <1>10

LEMMA TellStep ==
  ASSUME NInv, NEW e \in Events, Tell(e)
  PROVE  NInv'
  <1> USE DEF NInv, Typed
  <1>1. /\ tick # NoState /\ tick.at = e /\ tick.level[e] > 0 /\ HasRoom
        /\ queue' = Append(queue, e)
        /\ told' = [told EXCEPT ![e] = Observed(e)]
        /\ unsaved' = unsaved \union {e}
        /\ tick' = [tick EXCEPT !.saving = TRUE]
        /\ UNCHANGED <<active, level, limit, enabled, row, fault, report,
                       now, said, edits, crashes, reports>>
    BY DEF Tell, Observes, client, states, bounds
  <1>2. /\ Observed(e) \in [limit : Limits, level : Levels]
        /\ tick.level[e] \in {1, 2}
    BY <1>1, ObservedType
  <1>3. QueueOK'
    BY <1>1, <1>2, QueuePuts DEF Message
  <1>4. tick' \in Tick /\ tick'.at = e
        /\ tick'.level = tick.level /\ tick'.limit = tick.limit
    BY <1>1 DEF TickOK, Tick
  <1>5. told' \in [Events -> [limit : Limits, level : Levels]]
        /\ told'[e] = Observed(e)
        /\ \A f \in Events : f # e => told'[f] = told[f]
    BY <1>1, <1>2 DEF HistoryOK
  <1>6. HistoryOK'
    BY <1>1, <1>5 DEF HistoryOK
  <1>7. ClientOK' /\ StateOK' /\ ReportOK' /\ TickOK'
    BY <1>1, <1>4 DEF ClientOK, StateOK, ReportOK, TickOK
  <1>8. RecordOK'
    BY <1>1, <1>5 DEF RecordOK
  <1>9. SavingOK'
    BY <1>1, <1>4, <1>5 DEF SavingOK, Observed
  <1>10. QED
    BY <1>3, <1>6, <1>7, <1>8, <1>9

LEMMA SaveStep ==
  ASSUME NInv, Save
  PROVE  NInv'
  <1> USE DEF NInv, Typed
  <1> DEFINE e == tick.at
  <1>1. /\ tick # NoState /\ tick.saving
        /\ UNCHANGED <<active, level, limit, enabled, fault, queue, report,
                       now, told, said, edits, crashes, reports>>
    BY DEF Save, client, bounds
  <1>2. e \in Events /\ tick.level[e] > 0 /\ told[e] = Observed(e)
    BY <1>1 DEF SavingOK
  <1>3. Observed(e) \in Notice
    BY <1>1, <1>2, ObservedType
  <1>4. ClientOK' /\ QueueOK' /\ ReportOK'
    BY <1>1 DEF ClientOK, QueueOK, ReportOK
  <1>5. CASE /\ row' = [row EXCEPT ![e] = Observed(e)]
             /\ unsaved' = unsaved \ {e}
             /\ GoTo(Following(e))
    <2>1. TickOK' /\ SavingOK'
      BY <1>1, <1>2, <1>5, ObservesEvent, GoToType, NothingSaved
    <2>2. StateOK' /\ HistoryOK'
      BY <1>1, <1>2, <1>3, <1>5 DEF StateOK, HistoryOK
    <2>3. /\ row'[e] = Observed(e) /\ told'[e] = Observed(e)
          /\ \A f \in Events : f # e =>
               /\ row'[f] = row[f] /\ told'[f] = told[f]
               /\ f \in unsaved' <=> f \in unsaved
      BY <1>1, <1>2, <1>5 DEF StateOK
    <2>4. row'[e] # NoState
      BY <1>3, <2>3 DEF Notice
    <2>5. RecordOK'
      BY <2>3, <2>4 DEF RecordOK
    <2>6. QED
      BY <1>4, <2>1, <2>2, <2>5
  <1>6. CASE GoTo("end") /\ UNCHANGED <<row, unsaved>>
    <2>1. TickOK' /\ SavingOK'
      BY <1>1, <1>6, GoToType, NothingSaved
    <2>2. StateOK' /\ HistoryOK' /\ RecordOK'
      BY <1>1, <1>6, RecordsSame DEF StateOK, HistoryOK
    <2>3. QED
      BY <1>4, <2>1, <2>2
  <1>7. QED
    BY <1>5, <1>6 DEF Save

LEMMA EndTickStep ==
  ASSUME NInv, EndTick
  PROVE  NInv'
  <1> USE DEF NInv, Typed
  <1>1. /\ active' = (active /\ \A e \in Events : tick.level[e] < 2)
        /\ tick' = NoState
        /\ UNCHANGED <<level, limit, enabled, row, fault, queue, report,
                       now, told, said, unsaved, edits, crashes, reports>>
    BY DEF EndTick, states, history, bounds
  <1>2. active' \in BOOLEAN
    BY <1>1 DEF ClientOK
  <1>3. ClientOK' /\ StateOK' /\ QueueOK' /\ TickOK' /\ ReportOK' /\ HistoryOK'
    BY <1>1, <1>2 DEF ClientOK, StateOK, QueueOK, TickOK, ReportOK, HistoryOK
  <1>4. RecordOK' /\ SavingOK'
    BY <1>1, RecordsSame, NothingSaved
  <1>5. QED
    BY <1>3, <1>4

-----------------------------------------------------------------------------
(* The reporters.                                                          *)

LEMMA ReportStep ==
  ASSUME NInv, NEW r \in Reporters, NEW c \in Causes, Report(r, c)
  PROVE  NInv'
  <1> USE DEF NInv, Typed
  <1> DEFINE new == [cause |-> c, saving |-> FALSE, late |-> FALSE]
  <1>1. /\ UNCHANGED <<active, level, limit, enabled, row, fault, queue, tick,
                       now, told, said, unsaved, edits, crashes>>
        /\ report' = [report EXCEPT ![r] = new]
        /\ 2 * edits + crashes + reports + 1 <= MaxAll
        /\ reports' = reports + 1
    BY DEF Report, Room, client, states, history
  <1>2. ReportOK'
    BY <1>1 DEF ReportOK, Doing
  <1>3. reports' \in 0 .. MaxAll
    BY <1>1, NoticesAssumption DEF HistoryOK
  <1>4. HistoryOK'
    BY <1>1, <1>3 DEF HistoryOK
  <1>5. ClientOK' /\ StateOK' /\ QueueOK' /\ TickOK'
    BY <1>1 DEF ClientOK, StateOK, QueueOK, TickOK
  <1>6. RecordOK' /\ SavingOK'
    BY <1>1, RecordsSame, SavingSame
  <1>7. QED
    BY <1>2, <1>4, <1>5, <1>6

LEMMA QueueFullStep ==
  ASSUME NInv, NEW r \in Reporters, QueueFull(r)
  PROVE  NInv'
  <1> USE DEF NInv, Typed
  <1>1. /\ UNCHANGED <<active, level, limit, enabled, row, fault, queue, tick,
                       now, told, said, unsaved, edits, crashes, reports>>
        /\ report' = [report EXCEPT ![r] = NoState]
    BY DEF QueueFull, client, states, history, bounds
  <1>2. ReportOK'
    BY <1>1 DEF ReportOK
  <1>3. ClientOK' /\ StateOK' /\ QueueOK' /\ TickOK' /\ HistoryOK'
    BY <1>1 DEF ClientOK, StateOK, QueueOK, TickOK, HistoryOK
  <1>4. RecordOK' /\ SavingOK'
    BY <1>1, RecordsSame, SavingSame
  <1>5. QED
    BY <1>2, <1>3, <1>4

\* What becomes of the others when one tells or records a failure.
LEMMA OthersAreLate ==
  ASSUME ReportOK, NEW r \in Reporters, NEW mine \in Doing \union {NoState},
         report' = AndOthersLate(r, mine)
  PROVE  /\ ReportOK'
         /\ report'[r] = mine
         /\ \A s \in Reporters : s # r =>
              \/ report'[s] = report[s]
                 /\ (report[s] = NoState \/ report[s].saving)
              \/ report'[s].late
  <1>1. ASSUME NEW s \in Reporters, s # r,
               ~ (report[s] = NoState \/ report[s].saving)
        PROVE  /\ report'[s] = [report[s] EXCEPT !.late = TRUE]
               /\ report'[s] \in Doing /\ report'[s].late
    BY <1>1 DEF ReportOK, AndOthersLate, Doing
  <1>2. ASSUME NEW s \in Reporters, s # r,
               report[s] = NoState \/ report[s].saving
        PROVE  report'[s] = report[s]
    BY <1>2 DEF AndOthersLate
  <1>3. report'[r] = mine
    BY DEF AndOthersLate
  <1>4. \A s \in Reporters : report'[s] \in Doing \union {NoState}
    BY <1>1, <1>2, <1>3 DEF ReportOK
  <1>5. ReportOK'
    BY <1>4 DEF ReportOK, AndOthersLate
  <1>6. QED
    BY <1>1, <1>2, <1>3, <1>5

LEMMA EnqueueStep ==
  ASSUME NInv, NEW r \in Reporters, Enqueue(r)
  PROVE  NInv'
  <1> USE DEF NInv, Typed
  <1> DEFINE c == report[r].cause
             mine == [report[r] EXCEPT !.saving = TRUE, !.late = FALSE]
  <1>1. /\ report[r] # NoState /\ HasRoom
        /\ queue' = Append(queue, "failure")
        /\ said' = [cause |-> c, at |-> now]
        /\ unsaved' = unsaved \union {"failure"}
        /\ report' = AndOthersLate(r, mine)
        /\ UNCHANGED <<active, level, limit, enabled, row, fault, tick, now,
                       told, edits, crashes, reports>>
    BY DEF Enqueue, client, states, bounds
  <1>2. report[r] \in Doing
    BY <1>1 DEF ReportOK
  <1>3. c \in Causes /\ mine \in Doing
    BY <1>2 DEF Doing
  <1>4. QueueOK'
    BY <1>1, <1>3, QueuePuts DEF Message
  <1>5. ReportOK'
    BY <1>1, <1>3, OthersAreLate
  <1>6. HistoryOK'
    BY <1>1, <1>3 DEF HistoryOK
  <1>7. ClientOK' /\ StateOK' /\ TickOK'
    BY <1>1 DEF ClientOK, StateOK, TickOK
  <1>8. RecordOK' /\ SavingOK'
    BY <1>1, RecordsSame, SavingSame
  <1>9. QED
    BY <1>4, <1>5, <1>6, <1>7, <1>8

LEMMA SaveFaultStep ==
  ASSUME NInv, NEW r \in Reporters, SaveFault(r)
  PROVE  NInv'
  <1> USE DEF NInv, Typed
  <1>1. /\ report[r] # NoState
        /\ UNCHANGED <<active, level, limit, enabled, row, queue, tick, now,
                       told, said, edits, crashes, reports>>
        /\ \/ /\ fault' = [cause |-> report[r].cause, at |-> now]
              /\ report' = AndOthersLate(r, NoState)
              /\ \/ unsaved' = unsaved \ {"failure"}
                 \/ unsaved' = unsaved \union {"failure"}
           \/ /\ report' = [report EXCEPT ![r] = NoState]
              /\ UNCHANGED <<fault, unsaved>>
    BY DEF SaveFault, client, bounds
  <1>2. report[r].cause \in Causes
    BY <1>1 DEF ReportOK, Doing
  <1>3. ReportOK'
    <2>1. CASE report' = [report EXCEPT ![r] = NoState]
      BY <2>1 DEF ReportOK
    <2>2. CASE report' = AndOthersLate(r, NoState)
      BY <2>2, OthersAreLate
    <2>3. QED
      BY <1>1, <2>1, <2>2
  <1>4. fault' \in [cause : Causes, at : 0 .. MaxTime] \union {NoState}
    BY <1>1, <1>2 DEF StateOK, HistoryOK
  <1>5. StateOK' /\ HistoryOK'
    BY <1>1, <1>4 DEF StateOK, HistoryOK
  <1>6. ClientOK' /\ QueueOK' /\ TickOK'
    BY <1>1 DEF ClientOK, QueueOK, TickOK
  <1>7. \A e \in Events : e \in unsaved => e \in unsaved'
    BY <1>1 DEF Events
  <1>8. RecordOK' /\ SavingOK'
    BY <1>1, <1>7, RecordsSame, SavingSame
  <1>9. QED
    BY <1>3, <1>5, <1>6, <1>8

-----------------------------------------------------------------------------
(* The surroundings.                                                       *)

\* Traffic, edits, the settings and the clock.
LEMMA AroundStep ==
  ASSUME NInv,
         \/ \E e \in Events : Rise(e)
         \/ Edit \/ Switch \/ Clock
  PROVE  NInv'
  <1> USE DEF NInv, Typed
  <1>1. UNCHANGED <<row, fault, queue, tick, report, told, said, unsaved,
                    crashes, reports>>
    BY DEF Rise, Edit, Switch, Clock, states, history, bounds
  <1>2. ClientOK'
    <2>1. ASSUME NEW e \in Events, Rise(e) PROVE ClientOK'
      BY <2>1 DEF Rise, ClientOK
    <2>2. CASE Edit
      <3>1. level' \in [Events -> Levels] /\ limit' \in [Events -> Limits]
        BY <2>2 DEF Edit, ClientOK, Levels, Events
      <3>2. active' \in BOOLEAN
        BY <2>2 DEF Edit, ClientOK
      <3>3. QED
        BY <2>2, <3>1, <3>2 DEF Edit, ClientOK
    <2>3. CASE Switch
      <3>1. enabled' \in BOOLEAN
        BY <2>3 DEF Switch, ClientOK
      <3>2. QED
        BY <2>3, <3>1 DEF Switch, ClientOK, client
    <2>4. CASE Clock
      BY <2>4 DEF Clock, ClientOK, client
    <2>5. QED
      BY <2>1, <2>2, <2>3, <2>4
  <1>3. now' \in 0 .. MaxTime /\ edits' \in 0 .. MaxEdits
    BY DEF Rise, Edit, Switch, Clock, bounds, HistoryOK
  <1>4. HistoryOK'
    BY <1>1, <1>3 DEF HistoryOK
  <1>5. StateOK' /\ QueueOK' /\ TickOK' /\ ReportOK'
    BY <1>1 DEF StateOK, QueueOK, TickOK, ReportOK
  <1>6. RecordOK' /\ SavingOK'
    BY <1>1, RecordsSame, SavingSame
  <1>7. QED
    BY <1>2, <1>4, <1>5, <1>6

LEMMA CrashStep ==
  ASSUME NInv, Crash
  PROVE  NInv'
  <1> USE DEF NInv, Typed
  <1>1. /\ crashes < MaxCrashes /\ crashes' = crashes + 1
        /\ queue' = <<>> /\ tick' = NoState
        /\ report' = [r \in Reporters |-> NoState]
        /\ UNCHANGED <<active, level, limit, enabled, row, fault, now, told,
                       said, unsaved, edits, reports>>
    BY DEF Crash, client, states, history
  <1>2. QueueOK'
    BY <1>1 DEF QueueOK
  <1>3. HistoryOK'
    BY <1>1 DEF HistoryOK
  <1>4. ClientOK' /\ StateOK' /\ TickOK' /\ ReportOK'
    BY <1>1 DEF ClientOK, StateOK, TickOK, ReportOK
  <1>5. RecordOK' /\ SavingOK'
    BY <1>1, RecordsSame, NothingSaved
  <1>6. QED
    BY <1>2, <1>3, <1>4, <1>5

-----------------------------------------------------------------------------
(* Together.                                                               *)

LEMMA NInvInit == NoticesInit => NInv
  <1> SUFFICES ASSUME NoticesInit PROVE NInv
    OBVIOUS
  <1>1. (CHOOSE l \in Limits : TRUE) \in Limits
    OBVIOUS
  <1>2. level \in [Events -> Levels] /\ limit \in [Events -> Limits]
    BY <1>1 DEF NoticesInit, Levels
  <1>3. ClientOK
    BY <1>2 DEF NoticesInit, ClientOK
  <1>4. StateOK /\ TickOK /\ ReportOK
    BY DEF NoticesInit, StateOK, TickOK, ReportOK
  <1>5. QueueOK
    BY DEF NoticesInit, QueueOK
  <1>6. HistoryOK
    BY <1>2 DEF NoticesInit, HistoryOK, Levels
  <1>7. RecordOK /\ SavingOK
    BY DEF NoticesInit, RecordOK, SavingOK
  <1>8. QED
    BY <1>3, <1>4, <1>5, <1>6, <1>7 DEF NInv, Typed

LEMMA NInvStep == NInv /\ [NoticesNext]_noticeVars => NInv'
  <1> SUFFICES ASSUME NInv, [NoticesNext]_noticeVars PROVE NInv'
    OBVIOUS
  <1>1. CASE Deliver \/ List \/ Save \/ EndTick
    BY <1>1, DeliverStep, ListStep, SaveStep, EndTickStep
  <1>2. ASSUME NEW e \in Events,
               ReadFails(e) \/ Falls(e) \/ Skip(e) \/ Tell(e) \/ Rise(e)
        PROVE  NInv'
    BY <1>2, TickPassStep, FallsStep, TellStep, AroundStep
  <1>3. ASSUME NEW r \in Reporters, NEW c \in Causes, Report(r, c)
        PROVE  NInv'
    BY <1>3, ReportStep
  <1>4. ASSUME NEW r \in Reporters, Enqueue(r) \/ QueueFull(r) \/ SaveFault(r)
        PROVE  NInv'
    BY <1>4, QueueFullStep, EnqueueStep, SaveFaultStep
  <1>5. CASE Edit \/ Switch \/ Clock \/ Crash
    BY <1>5, AroundStep, CrashStep
  <1>6. CASE UNCHANGED noticeVars
    <2>1. UNCHANGED <<active, level, limit, enabled, row, fault, queue, tick,
                      report, now, told, said, unsaved, edits, crashes,
                       reports>>
      BY <1>6 DEF noticeVars, client, states, history, bounds
    <2>2. Typed'
      BY <2>1 DEF NInv, Typed, ClientOK, StateOK, QueueOK, TickOK, ReportOK,
         HistoryOK
    <2>3. RecordOK' /\ SavingOK'
      BY <2>1, RecordsSame, SavingSame DEF NInv
    <2>4. QED
      BY <2>2, <2>3 DEF NInv
  <1>7. QED
    BY <1>1, <1>2, <1>3, <1>4, <1>5, <1>6 DEF NoticesNext

LEMMA AlwaysNInv == NoticesSpec => []NInv
  BY NInvInit, NInvStep, PTL DEF NoticesSpec

(* A notice is held back only when it was told: a record never stands for  *)
(* a higher level, another limit or an earlier cycle, whatever failed or   *)
(* crashed in between (service.go:309-319).  The variables keep their      *)
(* types.                                                                  *)
THEOREM WhatIsHeldBackWasTold == NoticesSpec => []NothingSwallowed
  <1>1. ASSUME NInv PROVE NothingSwallowed
    <2>1. \A i \in DOMAIN queue : queue[i] \in Message
      BY <1>1 DEF NInv, Typed, QueueOK
    <2>2. NoticesTypeOK
      BY <1>1, <2>1 DEF NInv, Typed, NoticesTypeOK, ClientOK, StateOK, QueueOK,
         TickOK, ReportOK, HistoryOK, Notice, Message, Tick, Doing
    <2>3. ASSUME NEW e \in Events, tick # NoState, tick.at = e,
                 tick.level[e] > 0, Recorded(e)
          PROVE  \/ /\ told[e].limit = tick.limit[e]
                    /\ told[e].level >= tick.level[e]
                 \/ e \in unsaved
      BY <1>1, <2>3 DEF NInv, RecordOK, Recorded
    <2>4. QED
      BY <2>2, <2>3 DEF NothingSwallowed
  <1>2. QED
    BY <1>1, AlwaysNInv, PTL

-----------------------------------------------------------------------------
(* Nothing is told twice.                                                  *)

\* The failure told last is on record, with a time no earlier, or its record
\* is lost; and what a reporter is about to tell was not told just now, unless
\* others came in between.
Mute(c) == said # NoState /\ said.cause = c /\ now - said.at < Cooldown

FaultOK ==
  /\ said # NoState => said.at <= now
  /\ said # NoState /\ "failure" \notin unsaved =>
       fault # NoState /\ fault.cause = said.cause /\ said.at <= fault.at
  /\ \A r \in Reporters :
       report[r] # NoState /\ ~ report[r].saving /\ ~ report[r].late
         => "failure" \in unsaved \/ ~ Mute(report[r].cause)

LEMMA FaultSame ==
  ASSUME FaultOK, UNCHANGED <<fault, said, now>>,
         "failure" \in unsaved <=> "failure" \in unsaved',
         \A r \in Reporters : report'[r] = report[r] \/ report'[r] = NoState
  PROVE  FaultOK'
  BY DEF FaultOK, Mute

LEMMA FaultClock ==
  ASSUME NInv, FaultOK, Clock
  PROVE  FaultOK'
  <1>1. now' = now + 1 /\ UNCHANGED <<fault, said, unsaved, report>>
    BY DEF Clock, states, history
  <1>2. now \in Nat /\ Cooldown \in Nat /\ (said # NoState => said.at \in Nat)
    BY NoticesAssumption DEF NInv, Typed, HistoryOK
  <1>3. \A c : Mute(c)' => Mute(c)
    BY <1>1, <1>2 DEF Mute
  <1>4. said' # NoState => said'.at <= now'
    BY <1>1, <1>2 DEF FaultOK
  <1>5. QED
    BY <1>1, <1>3, <1>4 DEF FaultOK

\* A failure on record, not cooling down, was told long enough ago.
LEMMA FaultReport ==
  ASSUME NInv, FaultOK, NEW r \in Reporters, NEW c \in Causes, Report(r, c)
  PROVE  FaultOK'
  <1> DEFINE new == [cause |-> c, saving |-> FALSE, late |-> FALSE]
  <1>1. /\ ~ CoolsDown(c)
        /\ report' = [report EXCEPT ![r] = new]
        /\ UNCHANGED <<fault, said, now, unsaved>>
    BY DEF Report, states, history
  <1>2. "failure" \notin unsaved => ~ Mute(c)
    <2> SUFFICES ASSUME "failure" \notin unsaved, Mute(c) PROVE FALSE
      OBVIOUS
    <2>1. /\ said # NoState /\ said.cause = c /\ now - said.at < Cooldown
          /\ fault # NoState /\ fault.cause = c /\ said.at <= fault.at
      BY DEF Mute, FaultOK
    <2>2. ~ (now - fault.at < Cooldown)
      BY <1>1, <2>1 DEF CoolsDown
    <2>3. /\ now \in Nat /\ said.at \in Nat /\ fault.at \in Nat
          /\ Cooldown \in Nat
      BY <2>1, NoticesAssumption DEF NInv, Typed, HistoryOK, StateOK
    <2>4. QED
      BY <2>1, <2>2, <2>3
  <1>3. \A s \in Reporters : s # r => report'[s] = report[s]
    BY <1>1 DEF NInv, Typed, ReportOK
  <1>4. report'[r].cause = c
    BY <1>1 DEF NInv, Typed, ReportOK
  <1>5. \A s \in Reporters :
          report'[s] # NoState /\ ~ report'[s].saving /\ ~ report'[s].late
            => "failure" \in unsaved \/ ~ Mute(report'[s].cause)
    BY <1>2, <1>3, <1>4 DEF FaultOK
  <1>6. \A d : Mute(d)' <=> Mute(d)
    BY <1>1 DEF Mute
  <1>7. QED
    BY <1>1, <1>5, <1>6 DEF FaultOK

LEMMA FaultEnqueue ==
  ASSUME NInv, FaultOK, NEW r \in Reporters, Enqueue(r)
  PROVE  FaultOK'
  <1> DEFINE mine == [report[r] EXCEPT !.saving = TRUE, !.late = FALSE]
  <1>1. /\ report[r] # NoState
        /\ said' = [cause |-> report[r].cause, at |-> now]
        /\ unsaved' = unsaved \union {"failure"}
        /\ now' = now
    BY DEF Enqueue
  <1>2. said'.at <= now'
    BY <1>1 DEF NInv, Typed, HistoryOK
  <1>3. "failure" \in unsaved'
    BY <1>1
  <1>4. QED
    BY <1>2, <1>3 DEF FaultOK

LEMMA FaultSave ==
  ASSUME NInv, FaultOK, NEW r \in Reporters, SaveFault(r)
  PROVE  FaultOK'
  <1> USE DEF NInv, Typed
  <1>1. report[r] # NoState /\ UNCHANGED <<now, said>>
    BY DEF SaveFault
  <1>2. CASE /\ report' = [report EXCEPT ![r] = NoState]
             /\ UNCHANGED <<fault, unsaved>>
    <2>1. \A s \in Reporters : report'[s] = report[s] \/ report'[s] = NoState
      BY <1>2 DEF ReportOK
    <2>2. QED
      BY <1>1, <1>2, <2>1, FaultSame
  <1>3. CASE /\ fault' = [cause |-> report[r].cause, at |-> now]
             /\ unsaved' = IF said.cause = report[r].cause
                             THEN unsaved \ {"failure"}
                             ELSE unsaved \union {"failure"}
             /\ report' = AndOthersLate(r, NoState)
    <2>1. \A s \in Reporters :
            ~ (report'[s] # NoState /\ ~ report'[s].saving /\ ~ report'[s].late)
      <3>1. report'[r] = NoState
        BY <1>3, OthersAreLate
      <3>2. ASSUME NEW s \in Reporters, s # r
            PROVE  report'[s] = NoState \/ report'[s].saving \/ report'[s].late
        BY <1>3, <3>2, OthersAreLate
      <3>3. QED
        BY <3>1, <3>2
    <2>2. report[r].cause \in Causes /\ now \in 0 .. MaxTime
      BY <1>1 DEF ReportOK, Doing, HistoryOK
    <2>3. fault' # NoState
      BY <1>3, <2>2, NoticesAssumption
    <2>4. ASSUME said # NoState, "failure" \notin unsaved'
          PROVE  fault'.cause = said.cause /\ said.at <= fault'.at
      <3>1. said.cause = report[r].cause
        BY <1>3, <2>4
      <3>2. fault'.cause = report[r].cause /\ fault'.at = now
        BY <1>3
      <3>3. QED
        BY <2>4, <3>1, <3>2 DEF FaultOK
    <2>5. said' # NoState => said'.at <= now'
      BY <1>1 DEF FaultOK
    <2>6. QED
      BY <1>1, <2>1, <2>3, <2>4, <2>5 DEF FaultOK
  <1>4. QED
    BY <1>2, <1>3 DEF SaveFault

LEMMA FaultStep ==
  ASSUME NInv, FaultOK, [NoticesNext]_noticeVars
  PROVE  FaultOK'
  <1> USE DEF NInv, Typed
  <1>1. CASE \/ Deliver \/ List \/ EndTick \/ Edit \/ Switch \/ UNCHANGED noticeVars
             \/ \E e \in Events : \/ ReadFails(e) \/ Falls(e) \/ Skip(e)
                                  \/ Tell(e) \/ Rise(e)
    <2>1. /\ UNCHANGED <<fault, said, now, report>>
          /\ "failure" \in unsaved <=> "failure" \in unsaved'
      BY <1>1 DEF Deliver, List, EndTick, Edit, Switch, ReadFails, Falls, Skip,
         Tell, Rise, noticeVars, states, history, bounds, Events
    <2>2. QED
      BY <2>1, FaultSame
  <1>2. CASE Save
    <2>1. tick.at \in Events
      BY <1>2 DEF Save, SavingOK
    <2>2. UNCHANGED <<fault, said, now, report>>
      BY <1>2 DEF Save
    <2>3. "failure" \in unsaved <=> "failure" \in unsaved'
      BY <1>2, <2>1 DEF Save, Events
    <2>4. QED
      BY <2>2, <2>3, FaultSame
  <1>3. CASE Crash
    <2>1. UNCHANGED <<fault, said, now, unsaved>>
      BY <1>3 DEF Crash, states, history
    <2>2. \A r \in Reporters : report'[r] = NoState
      BY <1>3 DEF Crash
    <2>3. QED
      BY <2>1, <2>2, FaultSame
  <1>4. ASSUME NEW r \in Reporters, QueueFull(r) PROVE FaultOK'
    <2>1. /\ report' = [report EXCEPT ![r] = NoState]
          /\ UNCHANGED <<fault, said, now, unsaved>>
      BY <1>4 DEF QueueFull, states, history
    <2>2. \A s \in Reporters : report'[s] = report[s] \/ report'[s] = NoState
      BY <2>1 DEF ReportOK
    <2>3. QED
      BY <2>1, <2>2, FaultSame
  <1>5. ASSUME NEW r \in Reporters,
               \/ \E c \in Causes : Report(r, c)
               \/ Enqueue(r) \/ QueueFull(r) \/ SaveFault(r)
        PROVE  FaultOK'
    BY <1>4, <1>5, FaultReport, FaultEnqueue, FaultSave
  <1>6. CASE Clock
    BY <1>6, FaultClock
  <1>7. QED
    BY <1>1, <1>2, <1>3, <1>5, <1>6 DEF NoticesNext

\* What a step may not do.
TellsAnew ==
  \A e \in Events :
    Tell(e) /\ told[e].limit = tick.limit[e]
      => told[e].level < tick.level[e] \/ e \in unsaved

FailsAnew ==
  \A r \in Reporters :
    Enqueue(r) /\ said # NoState /\ said.cause = report[r].cause
      => \/ now - said.at >= Cooldown
         \/ "failure" \in unsaved \/ report[r].late

\* A level that is told again was not on record.
LEMMA TellIsNew == NInv => TellsAnew
  <1> SUFFICES ASSUME NInv, NEW e \in Events, Tell(e),
                      told[e].limit = tick.limit[e], e \notin unsaved
               PROVE  told[e].level < tick.level[e]
    BY DEF TellsAnew
  <1>1. tick # NoState /\ tick.level[e] > 0 /\ ~ Recorded(e)
    BY DEF Tell, Observes
  <1>2. tick.level[e] \in Levels /\ told[e].level \in Levels
    BY <1>1 DEF NInv, Typed, TickOK, Tick, HistoryOK
  <1>3. CASE told[e].level = 0
    BY <1>1, <1>3
  <1>4. CASE told[e].level > 0
    <2>1. row[e] # NoState /\ row[e] = told[e]
      BY <1>4 DEF NInv, RecordOK
    <2>2. ~ (row[e].level >= tick.level[e])
      BY <1>1, <2>1 DEF Recorded
    <2>3. QED
      BY <1>2, <2>1, <2>2 DEF Levels
  <1>5. QED
    BY <1>2, <1>3, <1>4 DEF Levels

LEMMA FailIsNew == NInv /\ FaultOK => FailsAnew
  <1> SUFFICES ASSUME NInv, FaultOK, NEW r \in Reporters, Enqueue(r),
                      said # NoState, said.cause = report[r].cause,
                      "failure" \notin unsaved, ~ report[r].late
               PROVE  now - said.at >= Cooldown
    BY DEF FailsAnew
  <1>1. report[r] # NoState /\ ~ report[r].saving
    BY DEF Enqueue
  <1>2. ~ Mute(report[r].cause)
    BY <1>1 DEF FaultOK
  <1>3. now \in Nat /\ said.at \in Nat /\ Cooldown \in Nat
    BY NoticesAssumption DEF NInv, Typed, HistoryOK
  <1>4. QED
    BY <1>2, <1>3 DEF Mute

(* No level is told twice in a cycle, and the failure told last is not told *)
(* again in the cooldown, whatever goroutines report whatever causes,      *)
(* unless the record was lost or is of another cause, or another goroutine *)
(* told or recorded a failure after this one had looked                    *)
(* (service.go:267-320).                                                   *)
THEOREM NothingIsRepeated == NoticesSpec => NoRepeat
  <1> DEFINE A == /\ \A e \in Events :
                        Tell(e) /\ told[e].limit = tick.limit[e]
                          => told[e].level < tick.level[e] \/ e \in unsaved
                  /\ \A r \in Reporters :
                        Enqueue(r) /\ said # NoState
                          /\ said.cause = report[r].cause
                          => \/ now - said.at >= Cooldown
                             \/ "failure" \in unsaved \/ report[r].late
  <1>1. NoticesInit => FaultOK
    BY DEF NoticesInit, FaultOK
  <1>2. NoticesSpec => [](NInv /\ FaultOK)
    BY <1>1, NInvInit, NInvStep, FaultStep, PTL DEF NoticesSpec
  <1>3. NInv /\ FaultOK => A
    BY TellIsNew, FailIsNew DEF TellsAnew, FailsAnew
  <1>4. [][A]_noticeVars <=> NoRepeat
    BY DEF NoRepeat
  <1> HIDE DEF A
  <1>5. QED
    BY <1>2, <1>3, <1>4, PTL
=============================================================================
