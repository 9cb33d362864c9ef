-------------------------- MODULE ConfigApplyProofs --------------------------
(***************************************************************************)
(* Proofs about ConfigApply, for every set of goroutines, every bound and  *)
(* every set of refused configurations.                                    *)
(***************************************************************************)
EXTENDS ConfigApply, TLAPS

\* What a preservation proof unfolds besides the action itself.
USE ConstantsAssumption DEF ConstantsAssumption

(***************************************************************************)
(* The type invariant: every step keeps every variable in its domain.      *)
(***************************************************************************)
LEMMA TypeInit == Init => TypeOK
<1> SUFFICES ASSUME Init PROVE TypeOK
  OBVIOUS
<1>1. Zero \in Content /\ Booting \in [Procs -> Labels]
  BY DEF Zero, Booting, Content, Versions, Tables, Labels, Procs
<1>2. snap \in [Procs -> Content] /\ owes \in [Writers -> Tables \union {None}]
  BY <1>1 DEF Init
<1>3. crashes \in 0 .. MaxCrashes /\ db \in Content /\ live \in Content \union {None}
  BY <1>1 DEF Init
<1>4. QED
  BY <1>1, <1>2, <1>3 DEF Init, TypeOK

LEMMA TypeStep == TypeOK /\ [Next]_vars => TypeOK'
<1> SUFFICES ASSUME TypeOK, [Next]_vars PROVE TypeOK'
  OBVIOUS
<1> USE DEF TypeOK
<1>0. /\ \A t \in Tables : db[t] \in Nat /\ db[t] <= MaxVersion
      /\ Zero \in Content
      /\ Booting \in [Procs -> Labels]
  BY DEF Content, Versions, Tables, Zero, Booting, Labels, Procs
<1>1. ASSUME NEW w \in Writers, Trigger(w) PROVE TypeOK'
  BY <1>1 DEF Trigger
<1>2. ASSUME NEW w \in Writers, NEW t \in Tables, Commit(w, t) PROVE TypeOK'
  <2>1. db' \in Content
    BY <1>0, <1>2 DEF Commit, Content, Versions
  <2>2. QED
    BY <1>2, <2>1 DEF Commit
<1>3. CASE DeleteExpired
  <2>1. db' \in Content /\ unannounced' \in SUBSET Tables
    BY <1>0, <1>3 DEF DeleteExpired, Content, Versions, Tables
  <2>2. QED
    BY <1>3, <2>1 DEF DeleteExpired
<1>4. CASE LoopStep
  BY <1>4 DEF LoopStep, TakeTrigger, AbsorbTrigger, QuietOver, Goto, Labels
<1>5. ASSUME NEW p \in Procs, Lock(p) PROVE TypeOK'
  BY <1>5 DEF Lock, Goto, Labels
<1>6. ASSUME NEW p \in Procs, ApplyStep(p) PROVE TypeOK'
  <2> USE DEF Goto, Labels
  <2>1. \A t \in Tables : [snap EXCEPT ![p][t] = db[t]] \in [Procs -> Content]
    BY <1>0 DEF Content, Versions
  <2>2. CASE ReadInbounds(p) \/ ReadClients(p)
    BY <2>1, <2>2 DEF ReadInbounds, ReadClients, Read, Tables
  <2>3. CASE RenderFails(p) \/ CheckFails(p) \/ InstallFails(p) \/ NotRunning(p)
    <3>1. \E ok \in BOOLEAN : Leave(p, ok)
      BY <2>3 DEF RenderFails, CheckFails, InstallFails, NotRunning
    <3>2. mu' = None /\ failed' \in SUBSET Tables
      BY <3>1 DEF Leave, About
    <3>3. snap' \in [Procs -> Content] /\ pc' \in [Procs -> Labels]
      BY <1>0, <3>1 DEF Leave, After
    <3>4. QED
      BY <2>3, <3>2, <3>3 DEF RenderFails, CheckFails, InstallFails, NotRunning
  <2>4. CASE WriteTmp(p) \/ CheckOK(p) \/ Install(p)
    BY <2>4 DEF WriteTmp, CheckOK, Install
  <2>5. CASE SeesRunning(p) \/ ReloadStop(p)
    BY <2>5 DEF SeesRunning, ReloadStop
  <2>6. CASE ReloadStart(p)
    <3>1. Leave(p, TRUE) /\ coreCfg' \in Content \union {None}
      BY <2>6 DEF ReloadStart, StartCore
    <3>2. mu' = None /\ failed' \in SUBSET Tables
      BY <3>1 DEF Leave, About
    <3>3. snap' \in [Procs -> Content] /\ pc' \in [Procs -> Labels]
      BY <1>0, <3>1 DEF Leave, After
    <3>4. QED
      BY <2>6, <3>1, <3>2, <3>3 DEF ReloadStart
  <2>7. CASE Launch(p)
    BY <2>7 DEF Launch, StartCore
  <2>8. QED
    BY <1>6, <2>2, <2>3, <2>4, <2>5, <2>6, <2>7 DEF ApplyStep
<1>7. ASSUME NEW p \in Procs, Request(p) PROVE TypeOK'
  BY <1>7 DEF Request, ReloadRequest, StartRequest, RestartRequest, Goto, Labels
<1>8. CASE CoreStops
  BY <1>8 DEF CoreStops
<1>9. CASE Crash
  <2>1. snap' \in [Procs -> Content] /\ owes' \in [Writers -> Tables \union {None}]
    BY <1>0, <1>9 DEF Crash
  <2>2. crashes' \in 0 .. MaxCrashes /\ mu' \in Procs \union {None}
    BY <1>9 DEF Crash
  <2>3. QED
    BY <1>0, <1>9, <2>1, <2>2 DEF Crash
<1>10. CASE UNCHANGED vars
  BY <1>10 DEF vars
<1>11. QED
  BY <1>1, <1>2, <1>3, <1>4, <1>5, <1>6, <1>7, <1>8, <1>9, <1>10 DEF Next

THEOREM TypeCorrect == Spec => []TypeOK
  BY TypeInit, TypeStep, PTL DEF Spec

-----------------------------------------------------------------------------
(***************************************************************************)
(* The inductive invariant.  NoLostUpdate alone is not inductive: when an  *)
(* Apply finishes, what it installed may already be old, and then somebody *)
(* must still be due to read the newer version.  The invariant says so of  *)
(* every snapshot from the moment it is read.                              *)
(***************************************************************************)

\* The newest version of t is shown, or somebody will still read it.
Covered(v, t) == v = db[t] \/ WillRead(t) \/ t \in unannounced

\* Applier.mu protects the body of Apply.
MutexOK == \A p \in Procs : pc[p] \in Critical <=> mu = p

\* What an Apply holds lies between the live file and the database.
SnapOK ==
  \A p \in Procs, t \in Tables : Holds(p, t) =>
    /\ snap[p][t] <= db[t]
    /\ live # None => live[t] <= snap[p][t]
    /\ Covered(snap[p][t], t)

\* The temporary file is the one this Apply wrote, and was checked.
TmpOK ==
  \A p \in Procs :
    /\ pc[p] \in {"check", "install"} => tmp = snap[p]
    /\ pc[p] = "install" => tmp \notin Rejected

\* The live file was checked and is not ahead of the database.
LiveOK ==
  live # None => live \notin Rejected /\ \A t \in Tables : live[t] <= db[t]

\* After the rename, what is live is covered.
FreshOK ==
  \A p \in Procs : pc[p] \in {"status", "stop", "start"} =>
    live # None /\ \A t \in Tables : Covered(live[t], t)

\* Only an Apply between rename and Reload leaves an older core running.
CoreOK ==
  coreCfg \in {None, live} \/ \E p \in Procs : pc[p] \in {"status", "stop"}

IInv ==
  /\ TypeOK /\ MutexOK /\ SnapOK /\ TmpOK /\ LiveOK /\ FreshOK /\ CoreOK
  /\ NoLostUpdate

\* Goroutine p reads table t in this step.
Reads(p, t) ==
  \/ t = "inbounds" /\ ReadInbounds(p)
  \/ t = "clients" /\ ReadClients(p)

LEMMA IInvInit == Init => IInv
<1> SUFFICES ASSUME Init PROVE IInv
  OBVIOUS
<1>1. TypeOK
  BY TypeInit
<1>2. pc = Booting /\ mu = None /\ coreCfg = None
  BY DEF Init
<1>3. \A p \in Procs : pc[p] \in {"idle", "lock"} /\ mu # p
  BY <1>2 DEF Booting
<1>4. MutexOK /\ SnapOK /\ TmpOK /\ FreshOK /\ CoreOK
  BY <1>2, <1>3 DEF MutexOK, SnapOK, TmpOK, FreshOK, CoreOK, Critical, Holds
<1>5. LiveOK
  BY DEF Init, LiveOK, Zero
<1>6. NoLostUpdate
  <2>1. pc["boot"] = "lock" /\ "boot" \in Procs
    BY <1>2 DEF Booting, Procs
  <2>2. QED
    BY <2>1 DEF NoLostUpdate, WillRead
<1>7. QED
  BY <1>1, <1>4, <1>5, <1>6 DEF IInv

(***************************************************************************)
(* A table somebody is due to read stays so until it is read, or until an  *)
(* Apply fails before it gets there.                                       *)
(***************************************************************************)
LEMMA WillReadKept ==
  ASSUME TypeOK, [Next]_vars, NEW t \in Tables, WillRead(t),
         \A p \in Procs : ~ Reads(p, t) /\ (RenderFails(p) => Holds(p, t))
  PROVE  WillRead(t)'
<1> USE DEF TypeOK, WillRead, Goto
<1>0. t \in {"inbounds", "clients"} /\ t # None
  BY DEF Tables
<1> DEFINE Beyond(p) ==
      /\ pc[p] \notin {"quiet", "lock", "inbounds", "clients"}
      /\ \A q \in Procs \ {p} : pc'[q] = pc[q]
      /\ token' = token /\ owes' = owes
<1>a. ASSUME NEW p \in Procs, Beyond(p) PROVE WillRead(t)'
  <2>1. \A q \in Procs : q # p => pc'[q] = pc[q]
    BY <1>a
  <2>2. CASE token \/ \E w \in Writers : owes[w] = t
    BY <1>a, <2>2
  <2>3. CASE pc["loop"] = "quiet"
    BY <1>a, <2>1, <2>3 DEF Procs
  <2>4. ASSUME NEW q \in Procs,
               pc[q] \in {"lock", "inbounds"} \union (IF t = "clients" THEN {t} ELSE {})
        PROVE  WillRead(t)'
    BY <1>a, <2>1, <2>4
  <2>5. QED
    BY <2>2, <2>3, <2>4
<1> HIDE DEF Beyond
<1>1. ASSUME NEW w \in Writers, Trigger(w) PROVE WillRead(t)'
  BY <1>1 DEF Trigger
<1>2. ASSUME NEW w \in Writers, NEW u \in Tables, Commit(w, u) PROVE WillRead(t)'
  BY <1>0, <1>2 DEF Commit
<1>3. CASE DeleteExpired
  BY <1>3 DEF DeleteExpired
<1>4. CASE LoopStep
  <2>1. "loop" \in Procs
    BY DEF Procs
  <2>2. CASE TakeTrigger
    BY <2>1, <2>2 DEF TakeTrigger
  <2>3. CASE AbsorbTrigger
    BY <2>3 DEF AbsorbTrigger
  <2>4. CASE QuietOver
    BY <2>1, <2>4 DEF QuietOver
  <2>5. QED
    BY <1>4, <2>2, <2>3, <2>4 DEF LoopStep
<1>5. ASSUME NEW p \in Procs, Lock(p) PROVE WillRead(t)'
  BY <1>5 DEF Lock
<1>6. ASSUME NEW p \in Procs, ApplyStep(p) PROVE WillRead(t)'
  <2>1. CASE ReadInbounds(p)
    <3>1. t = "clients"
      BY <1>0, <2>1 DEF Reads
    <3>2. pc[p] = "inbounds" /\ pc' = [pc EXCEPT ![p] = "clients"]
          /\ token' = token /\ owes' = owes
      BY <2>1 DEF ReadInbounds, Read
    <3>3. QED
      BY <3>1, <3>2
  <2>2. CASE ReadClients(p)
    <3>1. t = "inbounds"
      BY <1>0, <2>2 DEF Reads
    <3>2. pc[p] = "clients" /\ pc' = [pc EXCEPT ![p] = "write"]
          /\ token' = token /\ owes' = owes
      BY <2>2 DEF ReadClients, Read
    <3>3. QED
      BY <3>1, <3>2
  <2>7. CASE RenderFails(p)
    <3>1. Holds(p, t)
      BY <2>7
    <3>2. /\ pc[p] \notin {"quiet", "lock", "inbounds"}
          /\ pc[p] = "clients" => t = "inbounds"
          /\ token' = token /\ owes' = owes
          /\ \A q \in Procs \ {p} : pc'[q] = pc[q]
      BY <1>0, <2>7, <3>1 DEF RenderFails, Leave, Holds
    <3>3. CASE pc["loop"] = "quiet"
      BY <3>2, <3>3 DEF Procs
    <3>4. CASE pc["loop"] # "quiet"
      BY <3>2, <3>4
    <3>5. QED
      BY <3>3, <3>4
  <2>3. CASE WriteTmp(p) \/ CheckOK(p) \/ CheckFails(p)
    <3>1. Beyond(p)
      BY <2>3 DEF WriteTmp, CheckOK, CheckFails, Leave, Beyond
    <3>2. QED
      BY <1>a, <3>1
  <2>4. CASE Install(p) \/ InstallFails(p) \/ NotRunning(p)
    <3>1. Beyond(p)
      BY <2>4 DEF Install, InstallFails, NotRunning, Leave, Beyond
    <3>2. QED
      BY <1>a, <3>1
  <2>5. CASE SeesRunning(p) \/ ReloadStop(p) \/ ReloadStart(p) \/ Launch(p)
    <3>1. Beyond(p)
      BY <2>5 DEF SeesRunning, ReloadStop, ReloadStart, Launch, Leave, Beyond
    <3>2. QED
      BY <1>a, <3>1
  <2>6. QED
    BY <1>6, <2>1, <2>2, <2>3, <2>4, <2>5, <2>7 DEF ApplyStep
<1>7. ASSUME NEW p \in Procs, Request(p) PROVE WillRead(t)'
  <2>1. Beyond(p)
    BY <1>7 DEF Request, ReloadRequest, StartRequest, RestartRequest, Beyond
  <2>2. QED
    BY <1>a, <2>1
<1>8. CASE CoreStops
  BY <1>8 DEF CoreStops
<1>9. CASE Crash
  <2>1. "boot" \in Procs /\ pc'["boot"] = "lock"
    BY <1>9 DEF Crash, Booting, Procs
  <2>2. QED
    BY <2>1
<1>10. CASE UNCHANGED vars
  BY <1>10 DEF vars
<1>11. QED
  BY <1>1, <1>2, <1>3, <1>4, <1>5, <1>6, <1>7, <1>8, <1>9, <1>10 DEF Next

\* A version that was covered stays covered until somebody reads the table.
LEMMA CoveredKept ==
  ASSUME TypeOK, [Next]_vars, NEW t \in Tables, NEW v, Covered(v, t),
         \A p \in Procs : ~ Reads(p, t) /\ ~ RenderFails(p)
  PROVE  v = db'[t] \/ WillRead(t)' \/ t \in unannounced'
<1>1. CASE WillRead(t)
  BY <1>1, WillReadKept
<1>2. CASE t \in unannounced
  <2>1. ASSUME NEW p \in Procs, ReadInbounds(p) \/ ReadClients(p)
        PROVE  t \in unannounced'
    BY <1>2, <2>1 DEF ReadInbounds, ReadClients, Read, Reads
  <2>2. CASE \A p \in Procs : ~ ReadInbounds(p) /\ ~ ReadClients(p)
    <3>1. unannounced \subseteq unannounced'
      <4>1. ASSUME NEW p \in Procs, ApplyStep(p) PROVE unannounced' = unannounced
        BY <2>2, <4>1 DEF ApplyStep, RenderFails, WriteTmp, CheckOK,
           CheckFails, Install, InstallFails, NotRunning, SeesRunning,
           ReloadStop, ReloadStart, Launch
      <4>2. QED
        BY <4>1 DEF Next, vars, Trigger, Commit, DeleteExpired, LoopStep,
           TakeTrigger, AbsorbTrigger, QuietOver, Lock, Request,
           ReloadRequest, StartRequest, RestartRequest, CoreStops, Crash
    <3>2. QED
      BY <1>2, <3>1
  <2>3. QED
    BY <2>1, <2>2
<1>3. CASE v = db[t]
  <2>1. ASSUME NEW w \in Writers, NEW u \in Tables, Commit(w, u)
        PROVE  db'[t] = db[t] \/ WillRead(t)'
    BY <2>1 DEF Commit, TypeOK, Content, WillRead
  <2>2. CASE DeleteExpired
    BY <1>3, <2>2 DEF DeleteExpired, TypeOK, Content
  <2>3. CASE ~ DeleteExpired /\ \A w \in Writers, u \in Tables : ~ Commit(w, u)
    <3>1. db' = db
      <4>1. ASSUME NEW p \in Procs, ApplyStep(p) PROVE db' = db
        BY <4>1 DEF ApplyStep, RenderFails, ReadInbounds, ReadClients, Read,
           WriteTmp, CheckOK, CheckFails, Install, InstallFails, NotRunning,
           SeesRunning, ReloadStop, ReloadStart, Launch
      <4>2. QED
        BY <2>3, <4>1 DEF Next, vars, Trigger, LoopStep, TakeTrigger,
           AbsorbTrigger, QuietOver, Lock, Request, ReloadRequest,
           StartRequest, RestartRequest, CoreStops, Crash
    <3>2. QED
      BY <1>3, <3>1
  <2>4. QED
    BY <1>3, <2>1, <2>2, <2>3
<1>4. QED
  BY <1>1, <1>2, <1>3 DEF Covered

-----------------------------------------------------------------------------
(***************************************************************************)
(* Preservation, one lemma for each conjunct of the invariant.             *)
(***************************************************************************)

\* The steps outside Apply change neither Apply's data nor its place in it.
LEMMA OutsideApply ==
  ASSUME TypeOK, [Next]_vars, ~ Crash,
         \A p \in Procs : ~ Lock(p) /\ (ApplyStep(p) => Launch(p))
  PROVE  /\ UNCHANGED <<live, tmp, mu, snap>>
         /\ \A p \in Procs : pc'[p] \in Critical \/ pc[p] \in Critical
                             => pc'[p] = pc[p]
<1> USE DEF TypeOK, Critical, Goto
<1>1. ASSUME NEW w \in Writers, Trigger(w) \/ \E t \in Tables : Commit(w, t)
      PROVE  UNCHANGED <<live, tmp, mu, snap, pc>>
  BY <1>1 DEF Trigger, Commit
<1>2. CASE DeleteExpired \/ CoreStops \/ UNCHANGED vars
  BY <1>2 DEF DeleteExpired, CoreStops, vars
<1>3. CASE LoopStep
  BY <1>3 DEF LoopStep, TakeTrigger, AbsorbTrigger, QuietOver
<1>4. ASSUME NEW p \in Procs, Launch(p) \/ Request(p)
      PROVE  /\ UNCHANGED <<live, tmp, mu, snap>>
             /\ pc[p] \notin Critical
             /\ \E l : l \notin Critical /\ pc' = [pc EXCEPT ![p] = l]
  BY <1>4 DEF Launch, Request, ReloadRequest, StartRequest, RestartRequest
<1>5. ASSUME NEW p \in Procs, Launch(p) \/ Request(p)
      PROVE  /\ UNCHANGED <<live, tmp, mu, snap>>
             /\ \A q \in Procs : pc'[q] \in Critical \/ pc[q] \in Critical
                                 => pc'[q] = pc[q]
  BY <1>4, <1>5
<1>6. QED
  BY <1>1, <1>2, <1>3, <1>5 DEF Next

LEMMA MutexStep == TypeOK /\ MutexOK /\ [Next]_vars => MutexOK'
<1> SUFFICES ASSUME TypeOK, MutexOK, [Next]_vars PROVE MutexOK'
  OBVIOUS
<1> USE DEF TypeOK, MutexOK, Critical, Goto
<1>1. ASSUME NEW p \in Procs, Lock(p) PROVE MutexOK'
  BY <1>1 DEF Lock
<1>2. ASSUME NEW p \in Procs, ApplyStep(p), ~ Launch(p) PROVE MutexOK'
  <2>1. CASE \E l \in Critical : Goto(p, l) /\ pc[p] \in Critical /\ mu' = mu
    BY <2>1
  <2>2. CASE pc[p] \in Critical /\ \E ok \in BOOLEAN : Leave(p, ok)
    <3>1. mu = p /\ mu' = None /\ p # None
      BY <2>2 DEF Leave
    <3>2. pc'[p] \notin Critical /\ \A q \in Procs \ {p} : pc'[q] = pc[q]
      BY <2>2 DEF Leave, After
    <3>3. QED
      BY <3>1, <3>2
  <2>3. CASE ReadInbounds(p) \/ ReadClients(p) \/ WriteTmp(p) \/ CheckOK(p)
    BY <2>1, <2>3 DEF ReadInbounds, ReadClients, Read, WriteTmp, CheckOK
  <2>4. CASE Install(p) \/ SeesRunning(p) \/ ReloadStop(p)
    BY <2>1, <2>4 DEF Install, SeesRunning, ReloadStop
  <2>5. CASE RenderFails(p) \/ CheckFails(p) \/ InstallFails(p)
    BY <2>2, <2>5 DEF RenderFails, CheckFails, InstallFails
  <2>6. CASE NotRunning(p) \/ ReloadStart(p)
    BY <2>2, <2>6 DEF NotRunning, ReloadStart
  <2>7. QED
    BY <1>2, <2>3, <2>4, <2>5, <2>6 DEF ApplyStep
<1>3. CASE Crash
  BY <1>3 DEF Crash, Booting
<1>4. CASE ~ Crash /\ \A p \in Procs : ~ Lock(p) /\ (ApplyStep(p) => Launch(p))
  BY <1>4, OutsideApply
<1>5. QED
  BY <1>1, <1>2, <1>3, <1>4

(***************************************************************************)
(* While p holds what it has read of t, the live file does not move, and   *)
(* nobody else reads or fails.                                             *)
(***************************************************************************)
LEMMA HoldsFrame ==
  ASSUME TypeOK, MutexOK, [Next]_vars, NEW p \in Procs, NEW t \in Tables,
         Holds(p, t)', ~ Reads(p, t)
  PROVE  /\ Holds(p, t)
         /\ snap'[p][t] = snap[p][t]
         /\ live' = live
         /\ \A q \in Procs : ~ Reads(q, t) /\ ~ RenderFails(q)
<1> USE DEF TypeOK, Holds, Goto
<1>0. t \in {"inbounds", "clients"} /\ "inbounds" # "clients"
  BY DEF Tables
<1>1. ASSUME NEW q \in Procs, ApplyStep(q), ~ Launch(q) PROVE q = p
  <2>1. pc[q] \in Critical
    BY <1>1 DEF ApplyStep, RenderFails, ReadInbounds, ReadClients, Read,
       WriteTmp, CheckOK, CheckFails, Install, InstallFails, NotRunning,
       SeesRunning, ReloadStop, ReloadStart, Critical
  <2>2. q # p => pc'[p] = pc[p]
    BY <1>1 DEF ApplyStep, RenderFails, ReadInbounds, ReadClients, Read,
       WriteTmp, CheckOK, CheckFails, Install, InstallFails, NotRunning,
       SeesRunning, ReloadStop, ReloadStart, Leave
  <2>3. pc'[p] \in Critical
    BY <1>0 DEF Critical
  <2>4. QED
    BY <2>1, <2>2, <2>3 DEF MutexOK
<1>2. ASSUME ApplyStep(p), ~ Launch(p)
      PROVE  /\ ~ RenderFails(p) /\ Holds(p, t)
             /\ snap'[p][t] = snap[p][t] /\ live' = live
  <2>1. ASSUME NEW ok \in BOOLEAN, Leave(p, ok) PROVE FALSE
    BY <1>0, <2>1 DEF Leave, After
  <2>2. CASE ReadInbounds(p)
    BY <1>0, <2>2 DEF ReadInbounds, Read, Reads
  <2>3. CASE ReadClients(p)
    <3>1. t = "inbounds"
      BY <1>0, <2>3 DEF Reads
    <3>2. pc[p] = "clients" /\ live' = live
          /\ snap' = [snap EXCEPT ![p] = [snap[p] EXCEPT !["clients"] = db["clients"]]]
      BY <2>3 DEF ReadClients, Read
    <3>3. snap[p] \in [Tables -> Versions]
      BY DEF Content
    <3>4. ~ RenderFails(p)
      BY <1>0, <2>3 DEF ReadClients, Read, RenderFails, Leave, After
    <3>5. QED
      BY <1>0, <3>1, <3>2, <3>3, <3>4
  <2>4. CASE WriteTmp(p) \/ CheckOK(p)
    <3>1. ~ RenderFails(p)
      BY <2>1 DEF RenderFails
    <3>2. QED
      BY <2>4, <3>1 DEF WriteTmp, CheckOK
  <2>5. CASE Install(p) \/ SeesRunning(p) \/ ReloadStop(p)
    BY <1>0, <2>5 DEF Install, SeesRunning, ReloadStop
  <2>6. CASE RenderFails(p) \/ CheckFails(p) \/ InstallFails(p)
    BY <2>1, <2>6 DEF RenderFails, CheckFails, InstallFails
  <2>7. CASE NotRunning(p) \/ ReloadStart(p)
    BY <2>1, <2>7 DEF NotRunning, ReloadStart
  <2>8. QED
    BY <1>2, <2>2, <2>3, <2>4, <2>5, <2>6, <2>7 DEF ApplyStep
<1>3. CASE \E q \in Procs : ApplyStep(q) /\ ~ Launch(q)
  <2>1. ApplyStep(p) /\ ~ Launch(p)
    BY <1>1, <1>3
  <2>2. ASSUME NEW q \in Procs, Reads(q, t) \/ RenderFails(q)
        PROVE  q = p
    <3>1. ApplyStep(q)
      BY <2>2 DEF Reads, ApplyStep
    <3>2. ~ Launch(q)
      BY <2>2 DEF Reads, ReadInbounds, ReadClients, Read, RenderFails, Launch
    <3>3. QED
      BY <1>1, <3>1, <3>2
  <2>3. QED
    BY <1>2, <2>1, <2>2
<1>4. ASSUME NEW q \in Procs, Lock(q)
      PROVE  Holds(p, t) /\ snap' = snap /\ live' = live
  BY <1>0, <1>4 DEF Lock
<1>5. ~ Crash
  BY <1>0 DEF Crash, Booting
<1>6. CASE \A q \in Procs : ApplyStep(q) => Launch(q)
  <2>1. \A q \in Procs : ~ Reads(q, t) /\ ~ RenderFails(q)
    BY <1>6 DEF ApplyStep, Reads, ReadInbounds, ReadClients, Read, RenderFails, Launch
  <2>2. pc'[p] \in Critical
    BY <1>0 DEF Critical
  <2>3. CASE \A q \in Procs : ~ Lock(q)
    BY <1>5, <1>6, <2>1, <2>2, <2>3, OutsideApply
  <2>4. QED
    BY <1>4, <2>1, <2>3
<1>7. QED
  BY <1>3, <1>6

\* The database only moves forward.
LEMMA DbForward ==
  ASSUME TypeOK, [Next]_vars, NEW t \in Tables
  PROVE  db[t] \in Nat /\ db'[t] \in Nat /\ db[t] <= db'[t]
<1>1. db[t] \in Nat
  BY DEF TypeOK, Content, Versions
<1>2. ASSUME NEW w \in Writers, NEW u \in Tables, Commit(w, u)
      PROVE  db'[t] = db[t] \/ db'[t] = db[t] + 1
  BY <1>2 DEF Commit, TypeOK, Content
<1>3. CASE DeleteExpired
  BY <1>1, <1>3 DEF DeleteExpired, TypeOK, Content
<1>4. CASE ~ DeleteExpired /\ \A w \in Writers, u \in Tables : ~ Commit(w, u)
  <2>1. ASSUME NEW p \in Procs, ApplyStep(p) PROVE db' = db
    BY <2>1 DEF ApplyStep, RenderFails, ReadInbounds, ReadClients, Read,
       WriteTmp, CheckOK, CheckFails, Install, InstallFails, NotRunning,
       SeesRunning, ReloadStop, ReloadStart, Launch
  <2>2. db' = db
    BY <1>4, <2>1 DEF Next, vars, Trigger, LoopStep, TakeTrigger,
       AbsorbTrigger, QuietOver, Lock, Request, ReloadRequest,
       StartRequest, RestartRequest, CoreStops, Crash
  <2>3. QED
    BY <1>1, <2>2
<1>5. QED
  BY <1>1, <1>2, <1>3, <1>4

LEMMA SnapStep == IInv /\ [Next]_vars => SnapOK'
<1> SUFFICES ASSUME IInv, [Next]_vars, NEW p \in Procs, NEW t \in Tables,
                    Holds(p, t)'
             PROVE  /\ snap'[p][t] <= db'[t]
                    /\ live' # None => live'[t] <= snap'[p][t]
                    /\ Covered(snap[p][t], t)'
  BY DEF SnapOK
<1>0. TypeOK /\ MutexOK /\ SnapOK /\ LiveOK
  BY DEF IInv
<1>1. CASE Reads(p, t)
  <2>1. snap'[p][t] = db[t] /\ db' = db /\ live' = live
    BY <1>0, <1>1 DEF Reads, ReadInbounds, ReadClients, Read, TypeOK, Content
  <2>2. QED
    BY <1>0, <2>1, DbForward DEF LiveOK, Covered
<1>2. CASE ~ Reads(p, t)
  <2>1. /\ Holds(p, t) /\ snap'[p][t] = snap[p][t] /\ live' = live
        /\ \A q \in Procs : ~ Reads(q, t) /\ ~ RenderFails(q)
    BY <1>0, <1>2, HoldsFrame
  <2>2. /\ snap[p][t] <= db[t] /\ Covered(snap[p][t], t)
        /\ live # None => live[t] <= snap[p][t]
    BY <1>0, <2>1 DEF SnapOK
  <2>3. snap[p][t] \in Nat
    BY <1>0 DEF TypeOK, Content, Versions
  <2>4. snap[p][t] = db'[t] \/ WillRead(t)' \/ t \in unannounced'
    BY <1>0, <2>1, <2>2, CoveredKept
  <2>5. QED
    BY <1>0, <2>1, <2>2, <2>3, <2>4, DbForward DEF Covered
<1>3. QED
  BY <1>1, <1>2

\* Only the holder of the mutex touches the files.
LEMMA FilesFrame ==
  ASSUME TypeOK, MutexOK, [Next]_vars, NEW p \in Procs,
         pc[p] \in Critical, pc'[p] = pc[p] \/ ~ ApplyStep(p)
  PROVE  \/ Crash
         \/ (UNCHANGED <<live, tmp, snap>> /\ pc'[p] = pc[p])
<1>1. CASE \E q \in Procs : ApplyStep(q) /\ ~ Launch(q)
  <2> PICK q \in Procs : ApplyStep(q) /\ ~ Launch(q)
    BY <1>1
  <2>1. pc[q] \in Critical
    BY DEF ApplyStep, RenderFails, ReadInbounds, ReadClients, Read,
       WriteTmp, CheckOK, CheckFails, Install, InstallFails, NotRunning,
       SeesRunning, ReloadStop, ReloadStart, Critical
  <2>2. q = p
    BY <2>1 DEF MutexOK
  <2>3. \A ok \in BOOLEAN : Leave(p, ok) => pc'[p] \notin Critical
    BY DEF Leave, After, Goto, Critical, TypeOK
  <2>4. pc'[p] # pc[p]
    BY <2>2, <2>3 DEF ApplyStep, RenderFails, ReadInbounds, ReadClients, Read,
       WriteTmp, CheckOK, CheckFails, Install, InstallFails, NotRunning,
       SeesRunning, ReloadStop, ReloadStart, Critical, Goto, TypeOK
  <2>5. QED
    BY <2>2, <2>4
<1>2. ASSUME NEW q \in Procs, Lock(q)
      PROVE  UNCHANGED <<live, tmp, snap>> /\ pc'[p] = pc[p]
  BY <1>2 DEF Lock, Goto, TypeOK, Critical
<1>3. CASE ~ Crash /\ \A q \in Procs : ~ Lock(q) /\ (ApplyStep(q) => Launch(q))
  BY <1>3, OutsideApply
<1>4. QED
  BY <1>1, <1>2, <1>3

LEMMA TmpStep == IInv /\ [Next]_vars => TmpOK'
<1> SUFFICES ASSUME IInv, [Next]_vars, NEW p \in Procs,
                    pc'[p] \in {"check", "install"}
             PROVE  /\ tmp' = snap'[p]
                    /\ pc'[p] = "install" => tmp' \notin Rejected
  BY DEF TmpOK
<1>0. TypeOK /\ MutexOK /\ TmpOK
  BY DEF IInv
<1>1. CASE WriteTmp(p)
  BY <1>0, <1>1 DEF WriteTmp, Goto, TypeOK
<1>2. CASE CheckOK(p)
  BY <1>0, <1>2 DEF CheckOK, Goto, TypeOK, TmpOK
<1>3. CASE ~ WriteTmp(p) /\ ~ CheckOK(p)
  <2>1. ~ ApplyStep(p)
    BY <1>0, <1>3 DEF ApplyStep, RenderFails, ReadInbounds, ReadClients, Read,
       CheckFails, Install, InstallFails, NotRunning, SeesRunning, ReloadStop,
       ReloadStart, Launch, Leave, After, Goto, TypeOK
  <2>2. ~ Crash
    BY DEF Crash, Booting
  <2>3. CASE pc[p] \in Critical
    BY <1>0, <2>1, <2>2, <2>3, FilesFrame DEF TmpOK
  <2>4. CASE pc[p] \notin Critical
    <3>1. ~ Lock(p)
      BY <1>0 DEF Lock, Goto, TypeOK
    <3>2. \E q \in Procs : Lock(q) \/ (ApplyStep(q) /\ ~ Launch(q))
      <4>1. CASE \A q \in Procs : ~ Lock(q) /\ (ApplyStep(q) => Launch(q))
        <5>1. pc'[p] \in Critical => pc'[p] = pc[p]
          BY <1>0, <2>2, <4>1, OutsideApply
        <5>2. QED
          BY <2>4, <5>1 DEF Critical
      <4>2. QED
        BY <4>1
    <3>3. PICK q \in Procs : Lock(q) \/ (ApplyStep(q) /\ ~ Launch(q))
      BY <3>2
    <3>4. q # p => pc'[p] = pc[p]
      BY <1>0, <3>3 DEF Lock, ApplyStep, RenderFails, ReadInbounds, ReadClients,
         Read, WriteTmp, CheckOK, CheckFails, Install, InstallFails, NotRunning,
         SeesRunning, ReloadStop, ReloadStart, Leave, Goto, TypeOK
    <3>5. QED
      BY <2>1, <2>4, <3>1, <3>3, <3>4 DEF Critical
  <2>5. QED
    BY <2>3, <2>4
<1>4. QED
  BY <1>1, <1>2, <1>3

LEMMA LiveChanges ==
  ASSUME TypeOK, [Next]_vars
  PROVE  live' = live \/ \E p \in Procs : Install(p)
<1>1. ASSUME NEW p \in Procs, ApplyStep(p) PROVE live' = live \/ Install(p)
  BY <1>1 DEF ApplyStep, RenderFails, ReadInbounds, ReadClients, Read,
     WriteTmp, CheckOK, CheckFails, InstallFails, NotRunning,
     SeesRunning, ReloadStop, ReloadStart, Launch
<1>2. QED
  BY <1>1 DEF Next, vars, Trigger, Commit, DeleteExpired, LoopStep, TakeTrigger,
     AbsorbTrigger, QuietOver, Lock, Request, ReloadRequest, StartRequest,
     RestartRequest, CoreStops, Crash

\* What Install makes live is what the Apply holds of both tables.
LEMMA InstallFacts ==
  ASSUME IInv, NEW p \in Procs, Install(p)
  PROVE  /\ live' = snap[p] /\ live' # None /\ live' \notin Rejected
         /\ db' = db
         /\ \A t \in Tables : /\ snap[p][t] <= db[t]
                              /\ live # None => live[t] <= snap[p][t]
                              /\ Covered(snap[p][t], t)
<1>1. live' = snap[p] /\ live' \notin Rejected /\ db' = db
  BY DEF IInv, TmpOK, Install
<1>2. \A t \in Tables : Holds(p, t)
  BY DEF Install, Holds
<1>3. snap[p] \in Content
  BY DEF IInv, TypeOK
<1>4. QED
  BY <1>1, <1>2, <1>3 DEF IInv, SnapOK

LEMMA NobodyReads ==
  ASSUME MutexOK, NEW p \in Procs, pc[p] \in {"install", "status", "stop", "start"}
  PROVE  \A q \in Procs, t \in Tables : ~ Reads(q, t) /\ ~ RenderFails(q)
BY DEF MutexOK, Critical, Reads, ReadInbounds, ReadClients, Read, RenderFails

LEMMA LiveStep == IInv /\ [Next]_vars => LiveOK'
<1> SUFFICES ASSUME IInv, [Next]_vars PROVE LiveOK'
  OBVIOUS
<1>0. TypeOK /\ LiveOK
  BY DEF IInv
<1>1. CASE live' = live
  <2>1. live # None => \A t \in Tables : live[t] \in Nat
    BY <1>0 DEF TypeOK, Content, Versions
  <2>2. QED
    BY <1>0, <1>1, <2>1, DbForward DEF LiveOK
<1>2. ASSUME NEW p \in Procs, Install(p) PROVE LiveOK'
  BY <1>2, InstallFacts DEF LiveOK
<1>3. QED
  BY <1>0, <1>1, <1>2, LiveChanges

LEMMA FreshStep == IInv /\ [Next]_vars => FreshOK'
<1> SUFFICES ASSUME IInv, [Next]_vars, NEW p \in Procs,
                    pc'[p] \in {"status", "stop", "start"}
             PROVE  live' # None /\ \A t \in Tables : Covered(live[t], t)'
  BY DEF FreshOK
<1>0. TypeOK /\ MutexOK /\ FreshOK
  BY DEF IInv
<1>1. CASE Install(p)
  <2>1. pc[p] = "install"
    BY <1>1 DEF Install
  <2>2. ASSUME NEW t \in Tables PROVE Covered(live[t], t)'
    <3>1. snap[p][t] = db'[t] \/ WillRead(t)' \/ t \in unannounced'
      BY <1>0, <1>1, <2>1, InstallFacts, NobodyReads, CoveredKept
    <3>2. QED
      BY <1>1, <3>1, InstallFacts DEF Covered
  <2>3. QED
    BY <1>1, <2>2, InstallFacts
<1>2. CASE ~ Install(p)
  <2>1. pc[p] \in {"status", "stop", "start"} /\ live' = live
    <3>1. CASE SeesRunning(p) \/ ReloadStop(p)
      BY <3>1 DEF SeesRunning, ReloadStop
    <3>2. CASE ~ SeesRunning(p) /\ ~ ReloadStop(p)
      <4>1. ~ ApplyStep(p)
        BY <1>0, <1>2, <3>2 DEF ApplyStep, RenderFails, ReadInbounds, ReadClients,
           Read, WriteTmp, CheckOK, CheckFails, InstallFails, NotRunning,
           ReloadStart, Launch, Leave, After, Goto, TypeOK
      <4>2. ~ Crash
        BY DEF Crash, Booting
      <4>3. CASE pc[p] \in Critical
        BY <1>0, <4>1, <4>2, <4>3, FilesFrame
      <4>4. CASE pc[p] \notin Critical
        <5>1. ~ Lock(p)
          BY <1>0 DEF Lock, Goto, TypeOK
        <5>2. CASE \A q \in Procs : ~ Lock(q) /\ (ApplyStep(q) => Launch(q))
          <6>1. pc'[p] \in Critical => pc'[p] = pc[p]
            BY <1>0, <4>2, <5>2, OutsideApply
          <6>2. QED
            BY <4>4, <6>1 DEF Critical
        <5>3. ASSUME NEW q \in Procs, Lock(q) \/ (ApplyStep(q) /\ ~ Launch(q))
              PROVE  q # p => pc'[p] = pc[p]
          BY <1>0, <5>3 DEF Lock, ApplyStep, RenderFails, ReadInbounds,
             ReadClients, Read, WriteTmp, CheckOK, CheckFails, Install,
             InstallFails, NotRunning, SeesRunning, ReloadStop, ReloadStart,
             Leave, Goto, TypeOK
        <5>4. QED
          BY <4>1, <4>4, <5>1, <5>2, <5>3 DEF Critical
      <4>5. QED
        BY <4>3, <4>4
    <3>3. QED
      BY <3>1, <3>2
  <2>2. ASSUME NEW t \in Tables PROVE Covered(live[t], t)'
    <3>1. Covered(live[t], t)
      BY <1>0, <2>1 DEF FreshOK
    <3>2. live[t] = db'[t] \/ WillRead(t)' \/ t \in unannounced'
      BY <1>0, <2>1, <3>1, NobodyReads, CoveredKept
    <3>3. QED
      BY <2>1, <3>2 DEF Covered
  <2>3. QED
    BY <1>0, <2>1, <2>2 DEF FreshOK
<1>3. QED
  BY <1>1, <1>2

LEMMA CoreStep == IInv /\ [Next]_vars => CoreOK'
<1> SUFFICES ASSUME IInv, [Next]_vars PROVE CoreOK'
  OBVIOUS
<1>0. TypeOK /\ MutexOK /\ CoreOK
  BY DEF IInv
<1> DEFINE Reloading(p) == pc[p] \in {"status", "stop"}
<1>1. CASE coreCfg' = None
  BY <1>1 DEF CoreOK
<1>2. ASSUME NEW p \in Procs, Install(p) \/ SeesRunning(p) PROVE CoreOK'
  BY <1>0, <1>2 DEF Install, SeesRunning, Goto, CoreOK, TypeOK
<1>3. ASSUME NEW p \in Procs, ReloadStart(p) PROVE CoreOK'
  <2>1. \A q \in Procs : ~ Reloading(q)
    BY <1>0, <1>3 DEF ReloadStart, MutexOK, Critical
  <2>2. QED
    BY <1>0, <1>3, <2>1 DEF CoreOK, ReloadStart, StartCore
<1>4. ASSUME NEW p \in Procs, Launch(p) PROVE CoreOK'
  <2>1. \A q \in Procs : Reloading(q) => Reloading(q)'
    BY <1>0, <1>4 DEF Launch, Goto, TypeOK
  <2>2. QED
    BY <1>0, <1>4, <2>1 DEF CoreOK, Launch, StartCore
<1>5. ASSUME NEW p \in Procs, ApplyStep(p),
             ~ Install(p), ~ SeesRunning(p), ~ ReloadStart(p), ~ Launch(p),
             coreCfg' # None
      PROVE  CoreOK'
  <2>1. /\ coreCfg' = coreCfg /\ live' = live
        /\ ~ Reloading(p) /\ \A q \in Procs \ {p} : pc'[q] = pc[q]
    BY <1>0, <1>5 DEF ApplyStep, RenderFails, ReadInbounds, ReadClients, Read,
       WriteTmp, CheckOK, CheckFails, InstallFails, NotRunning, ReloadStop,
       Leave, Goto, TypeOK
  <2>2. QED
    BY <1>0, <2>1 DEF CoreOK
<1>6. ASSUME NEW p \in Procs, Lock(p) PROVE CoreOK'
  BY <1>0, <1>6 DEF Lock, Goto, TypeOK, CoreOK
<1>7. CASE ~ Crash /\ \A p \in Procs : ~ Lock(p) /\ (ApplyStep(p) => Launch(p))
  <2>1. live' = live /\ \A q \in Procs : Reloading(q) => Reloading(q)'
    BY <1>0, <1>7, OutsideApply DEF Critical
  <2>2. CASE coreCfg' = coreCfg
    BY <1>0, <2>1, <2>2 DEF CoreOK
  <2>3. CASE \E p \in Procs : Launch(p)
    BY <1>4, <2>3
  <2>4. CASE \A p \in Procs : ~ Launch(p)
    <3>1. coreCfg' = coreCfg \/ coreCfg' = None
      BY <1>7, <2>4 DEF Next, vars, Trigger, Commit, DeleteExpired, LoopStep,
         TakeTrigger, AbsorbTrigger, QuietOver, Request, ReloadRequest,
         StartRequest, RestartRequest, CoreStops
    <3>2. QED
      BY <1>1, <2>2, <3>1
  <2>5. QED
    BY <2>3, <2>4
<1>8. CASE Crash
  BY <1>1, <1>8 DEF Crash
<1>9. QED
  BY <1>1, <1>2, <1>3, <1>4, <1>5, <1>6, <1>7, <1>8

LEMMA NoLostStep == IInv /\ [Next]_vars => NoLostUpdate'
<1> SUFFICES ASSUME IInv, [Next]_vars, NEW t \in Tables, Stale(t)'
             PROVE  (WillRead(t) \/ InHand(t) \/ t \in failed \/ t \in unannounced)'
  BY DEF NoLostUpdate
<1>0. /\ TypeOK /\ MutexOK /\ SnapOK /\ FreshOK /\ NoLostUpdate
      /\ t \in {"inbounds", "clients"}
  BY DEF IInv, Tables
<1>1. CASE Crash
  <2>1. "boot" \in Procs /\ pc'["boot"] = "lock"
    BY <1>1 DEF Crash, Booting, Procs
  <2>2. QED
    BY <2>1 DEF WillRead
<1>2. ASSUME NEW p \in Procs, Reads(p, t) PROVE InHand(t)'
  <2>1. snap'[p][t] = db'[t]
    BY <1>0, <1>2 DEF Reads, ReadInbounds, ReadClients, Read, TypeOK, Content
  <2>2. pc'[p] = (IF t = "inbounds" THEN "clients" ELSE "write")
    BY <1>0, <1>2 DEF Reads, ReadInbounds, ReadClients, Read, Goto, TypeOK
  <2>3. QED
    BY <1>0, <2>1, <2>2 DEF InHand, Holds
<1>3. ASSUME NEW p \in Procs, RenderFails(p) \/ CheckFails(p) \/ InstallFails(p)
      PROVE  (WillRead(t) \/ t \in failed \/ t \in unannounced)'
  <2>1. failed' = failed \union About(p) /\ unannounced' = unannounced
    BY <1>3 DEF RenderFails, CheckFails, InstallFails, Leave
  <2>2. CASE t \in About(p)
    BY <2>1, <2>2
  <2>3. CASE t \notin About(p)
    <3>1. Holds(p, t) /\ snap[p][t] # db[t]
      BY <2>3 DEF About
    <3>2. WillRead(t) \/ t \in unannounced
      BY <1>0, <3>1 DEF SnapOK, Covered
    <3>3. \A q \in Procs : ~ Reads(q, t) /\ (RenderFails(q) => Holds(q, t))
      <4>1. pc[p] \in Critical
        BY <3>1 DEF Holds, Critical
      <4>2. \A q \in Procs : pc[q] \in Critical => q = p
        BY <1>0, <4>1 DEF MutexOK
      <4>3. ~ Reads(p, t)
        BY <1>0, <3>1 DEF Reads, ReadInbounds, ReadClients, Read, Holds
      <4>4. ASSUME NEW q \in Procs, Reads(q, t) \/ RenderFails(q)
            PROVE  q = p
        BY <4>2, <4>4 DEF Reads, ReadInbounds, ReadClients, Read, RenderFails,
           Critical
      <4>5. QED
        BY <3>1, <4>3, <4>4
    <3>4. QED
      BY <1>0, <2>1, <3>2, <3>3, WillReadKept
  <2>4. QED
    BY <2>2, <2>3
<1>4. ASSUME NEW p \in Procs, Install(p) \/ NotRunning(p) \/ ReloadStart(p)
      PROVE  (WillRead(t) \/ t \in unannounced)'
  <2>1. \A q \in Procs : ~ Reads(q, t) /\ ~ RenderFails(q)
    BY <1>0, <1>4, NobodyReads DEF Install, NotRunning, ReloadStart
  <2>2. live' # None /\ Covered(live'[t], t)
    <3>1. CASE Install(p)
      BY <3>1, InstallFacts
    <3>2. CASE NotRunning(p) \/ ReloadStart(p)
      BY <1>0, <3>2 DEF FreshOK, NotRunning, ReloadStart
    <3>3. QED
      BY <1>4, <3>1, <3>2
  <2>3. live'[t] = db'[t] \/ WillRead(t)' \/ t \in unannounced'
    <3>1. CASE live'[t] = db[t]
      <4>1. db[t] = db'[t] \/ WillRead(t)' \/ t \in unannounced'
        BY <1>0, <2>1, CoveredKept DEF Covered
      <4>2. QED
        BY <3>1, <4>1
    <3>2. CASE WillRead(t) \/ t \in unannounced
      <4>1. CASE WillRead(t)
        BY <1>0, <2>1, <4>1, WillReadKept
      <4>2. CASE t \in unannounced
        <5>1. unannounced' = unannounced
          BY <1>4 DEF Install, NotRunning, ReloadStart
        <5>2. QED
          BY <4>2, <5>1
      <4>3. QED
        BY <3>2, <4>1, <4>2
    <3>3. QED
      BY <2>2, <3>1, <3>2 DEF Covered
  <2>4. QED
    BY <2>2, <2>3 DEF Stale
<1>5. CASE /\ ~ Crash
           /\ \A p \in Procs :
                /\ ~ Reads(p, t) /\ ~ RenderFails(p) /\ ~ CheckFails(p)
                /\ ~ InstallFails(p) /\ ~ Install(p) /\ ~ NotRunning(p)
                /\ ~ ReloadStart(p)
  <2>1. live' = live
    BY <1>0, <1>5, LiveChanges
  <2>2. \A v : Covered(v, t) => v = db'[t] \/ WillRead(t)' \/ t \in unannounced'
    BY <1>0, <1>5, CoveredKept
  <2>3. CASE ~ Stale(t)
    <3>1. Covered(live[t], t)
      BY <2>3 DEF Stale, Covered
    <3>2. QED
      BY <2>1, <2>2, <2>3, <3>1 DEF Stale
  <2>4. CASE WillRead(t) \/ t \in unannounced
    <3>1. Covered(db'[t] + 1, t) /\ db'[t] + 1 # db'[t]
      BY <1>0, <2>4, DbForward DEF Covered
    <3>2. QED
      BY <2>2, <3>1
  <2>5. CASE t \in failed
    <3>1. ASSUME NEW p \in Procs, ApplyStep(p) PROVE failed' = failed
      BY <1>5, <3>1 DEF ApplyStep, ReadInbounds, ReadClients, Read, WriteTmp,
         CheckOK, SeesRunning, ReloadStop, Launch
    <3>2. ASSUME NEW w \in Writers, Trigger(w) PROVE token'
      BY <3>2 DEF Trigger
    <3>3. ASSUME NEW w \in Writers, NEW u \in Tables, Commit(w, u)
          PROVE  t \in failed' \/ WillRead(t)'
      <4>1. u # t => t \in failed'
        BY <2>5, <3>3 DEF Commit
      <4>2. owes'[w] = u
        BY <1>0, <3>3 DEF Commit, TypeOK
      <4>3. QED
        BY <4>1, <4>2 DEF WillRead
    <3>4. CASE \A w \in Writers : ~ Trigger(w) /\ \A u \in Tables : ~ Commit(w, u)
      <4>1. failed' = failed
        BY <1>5, <3>1, <3>4 DEF Next, vars, DeleteExpired, LoopStep, TakeTrigger,
           AbsorbTrigger, QuietOver, Lock, Request, ReloadRequest,
           StartRequest, RestartRequest, CoreStops
      <4>2. QED
        BY <2>5, <4>1
    <3>5. QED
      BY <3>2, <3>3, <3>4 DEF WillRead
  <2>6. CASE InHand(t)
    <3> PICK p \in Procs : Holds(p, t) /\ snap[p][t] = db[t]
      BY <2>6 DEF InHand, Holds
    <3>1. CASE ApplyStep(p)
      <4>1. CASE WriteTmp(p) \/ CheckOK(p)
        <5>1. pc'[p] \in {"check", "install"} /\ UNCHANGED <<db, snap>>
          BY <1>0, <4>1 DEF WriteTmp, CheckOK, Goto, TypeOK
        <5>2. QED
          BY <5>1 DEF InHand, Holds
      <4>2. CASE ReadClients(p)
        <5>1. t = "inbounds" /\ pc'[p] = "write" /\ db' = db
          BY <1>0, <1>5, <4>2 DEF ReadClients, Read, Reads, Goto, TypeOK
        <5>2. snap'[p][t] = snap[p][t]
          BY <1>0, <4>2, <5>1 DEF ReadClients, Read, TypeOK, Content
        <5>3. QED
          BY <5>1, <5>2 DEF InHand, Holds
      <4>3. ~ (ReadInbounds(p) \/ SeesRunning(p) \/ ReloadStop(p) \/ Launch(p))
        BY <1>0 DEF ReadInbounds, Read, SeesRunning, ReloadStop, Launch, Holds
      <4>4. WriteTmp(p) \/ CheckOK(p) \/ ReadClients(p)
        BY <1>5, <3>1, <4>3 DEF ApplyStep
      <4>5. QED
        BY <4>1, <4>2, <4>4
    <3>2. CASE ~ ApplyStep(p)
      <4>1. pc[p] \in Critical
        BY <1>0 DEF Holds, Critical
      <4>2. snap' = snap /\ pc'[p] = pc[p]
        BY <1>0, <1>5, <3>2, <4>1, FilesFrame
      <4>3. db[t] = db'[t] \/ WillRead(t)' \/ t \in unannounced'
        BY <2>2 DEF Covered
      <4>4. QED
        BY <4>2, <4>3 DEF InHand, Holds
    <3>3. QED
      BY <3>1, <3>2
  <2>7. QED
    BY <1>0, <2>3, <2>4, <2>5, <2>6 DEF NoLostUpdate
<1>6. QED
  BY <1>1, <1>2, <1>3, <1>4, <1>5

LEMMA IInvStep == IInv /\ [Next]_vars => IInv'
<1> SUFFICES ASSUME IInv, [Next]_vars PROVE IInv'
  OBVIOUS
<1>1. TypeOK' /\ MutexOK'
  BY TypeStep, MutexStep DEF IInv
<1>2. SnapOK' /\ TmpOK' /\ LiveOK' /\ FreshOK' /\ CoreOK' /\ NoLostUpdate'
  BY SnapStep, TmpStep, LiveStep, FreshStep, CoreStep, NoLostStep
<1>3. QED
  BY <1>1, <1>2 DEF IInv

LEMMA IInvHolds == Spec => []IInv
  BY IInvInit, IInvStep, PTL DEF Spec

-----------------------------------------------------------------------------
(* No committed and announced change is ever lost: NoLostUpdate, for any   *)
(* number of writers and requests, any number of crashes.                  *)
THEOREM NoUpdateIsLost == Spec => []NoLostUpdate
<1>1. IInv => NoLostUpdate
  BY DEF IInv
<1>2. QED
  BY <1>1, IInvHolds, PTL

(* A tracked core runs the live file whenever no Apply is between rename   *)
(* and Reload.                                                             *)
THEOREM CoreRunsLive == Spec => []RunningCoreIsLive
<1>1. IInv => RunningCoreIsLive
  <2> SUFFICES ASSUME IInv, mu = None, coreCfg # None PROVE coreCfg = live
    BY DEF RunningCoreIsLive, IInv
  <2>1. \A p \in Procs : mu # p
    OBVIOUS
  <2>2. \A p \in Procs : pc[p] \notin {"status", "stop"}
    BY <2>1 DEF IInv, MutexOK, Critical
  <2>3. QED
    BY <2>2 DEF IInv, CoreOK
<1>2. QED
  BY <1>1, IInvHolds, PTL

(***************************************************************************)
(* The apply path implements ConfigSync: an Install is a Publish, a commit *)
(* is a Write, and every other step leaves database and live file alone.   *)
(***************************************************************************)
LEMMA SyncInit == Init => Sync!Init
  BY DEF Init, Sync!Init, Zero, Tables, Sync!Tables

LEMMA SyncStep == IInv /\ [Next]_vars => [Sync!Next]_(Sync!vars)
<1> SUFFICES ASSUME IInv, [Next]_vars PROVE [Sync!Next]_(Sync!vars)
  OBVIOUS
<1>0. /\ TypeOK
      /\ Sync!Tables = Tables /\ Sync!Content = Content
  BY DEF IInv, Sync!Tables, Tables, Sync!Content, Content, Sync!Versions, Versions
<1>1. ASSUME NEW p \in Procs, Install(p) PROVE Sync!Next
  <2>1. snap[p] \in Content
    BY <1>0 DEF TypeOK
  <2>2. Sync!Publish(snap[p])
    BY <1>0, <1>1, <2>1, InstallFacts DEF Sync!Publish, Sync!Publishable
  <2>3. QED
    BY <1>0, <2>1, <2>2 DEF Sync!Next
<1>2. ASSUME NEW w \in Writers, NEW t \in Tables, Commit(w, t) PROVE Sync!Next
  <2>1. Sync!Write(t)
    BY <1>2 DEF Commit, Sync!Write
  <2>2. QED
    BY <1>0, <2>1 DEF Sync!Next
<1>3. CASE DeleteExpired
  <2>1. Sync!Write("clients")
    BY <1>3 DEF DeleteExpired, Sync!Write
  <2>2. QED
    BY <1>0, <2>1 DEF Sync!Next, Tables
<1>4. CASE /\ ~ DeleteExpired
           /\ \A w \in Writers, t \in Tables : ~ Commit(w, t)
           /\ \A p \in Procs : ~ Install(p)
  <2>1. live' = live
    BY <1>0, <1>4, LiveChanges
  <2>2. ASSUME NEW p \in Procs, ApplyStep(p) PROVE db' = db
    BY <2>2 DEF ApplyStep, RenderFails, ReadInbounds, ReadClients, Read,
       WriteTmp, CheckOK, CheckFails, Install, InstallFails, NotRunning,
       SeesRunning, ReloadStop, ReloadStart, Launch
  <2>3. db' = db
    BY <1>4, <2>2 DEF Next, vars, Trigger, LoopStep, TakeTrigger,
       AbsorbTrigger, QuietOver, Lock, Request, ReloadRequest,
       StartRequest, RestartRequest, CoreStops, Crash
  <2>4. QED
    BY <2>1, <2>3 DEF Sync!vars
<1>5. QED
  BY <1>1, <1>2, <1>3, <1>4

THEOREM ApplyImplementsSync == Spec => RefinesConfigSync
  BY SyncInit, SyncStep, IInvHolds, PTL DEF Spec, RefinesConfigSync, Sync!Spec
=============================================================================
