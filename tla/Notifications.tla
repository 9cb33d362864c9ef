---------------------------- MODULE Notifications ----------------------------
(***************************************************************************)
(* The notices of internal/services/notification/service.go: the           *)
(* enforcement tick observes a client (quota first, then expiry) and tells *)
(* of each level it reaches once; failures of the core are told at most    *)
(* once in a cooldown; a bounded queue holds what one goroutine delivers.  *)
(* The event states are rows of the database and survive a crash, the      *)
(* queue does not.                                                         *)
(*                                                                         *)
(* `level` is what ObserveClient computes from the client's row: 0, 1 for  *)
(* a warning, 2 when the quota is used up or the expiry has passed.        *)
(* `limit` is the quota or the expiry itself, the fingerprint of a state.  *)
(* One client and one type of failure are modelled: states are keyed by    *)
(* both.  `told` and `said` are history variables.                         *)
(***************************************************************************)
EXTENDS Naturals, Sequences, Functions

CONSTANTS
  Reporters,  \* goroutines that may report a failure of the core
  Causes,     \* the errors they report, after redaction
  Faults,     \* "read", "save": which calls of the repository may fail
  Capacity,   \* capacity of the queue (64 in the code)
  Cooldown,   \* coreErrorCooldown
  Limits,     \* the quotas and expiries that occur
  MaxTime,    \* bound: the clock
  MaxEdits,   \* bound: edits of the client and of the settings
  MaxCrashes, \* bound: crashes of the panel
  MaxAll,     \* bound: edits, crashes and reports together (Room)
  NoState     \* no state

ASSUME NoticesAssumption ==
  /\ Faults \subseteq {"read", "save"}
  /\ Capacity \in Nat \ {0} /\ Cooldown \in Nat /\ MaxTime \in Nat
  /\ MaxEdits \in Nat /\ MaxCrashes \in Nat /\ MaxAll \in Nat
  /\ Limits # {}
  /\ NoState \notin [limit : Limits, level : {1, 2}]
  /\ NoState \notin [cause : Causes, at : 0 .. MaxTime]

Events == {"quota", "expiry"}
Levels == 0 .. 2

VARIABLES
  active,   \* the client is enabled and active, so that enforce looks at it
  level,    \* the level of each event
  limit,    \* the quota and the expiry
  enabled,  \* SMTP or Telegram is enabled
  row,      \* notification_event_state of the client, per event
  fault,    \* notification_event_state of the failure
  queue,    \* Service.queue: what each message is about
  tick,     \* the enforcement tick and the client as it was listed, or NoState
  report,   \* the NotifyFailure each reporter is in, or NoState
  now,      \* the clock
  told,     \* history: the last notice of each event, its level 0 once the
            \* event is seen below its threshold
  said,     \* history: the failure queued last, and when
  unsaved,  \* history: what was queued last and is not what is recorded
  edits,    \* number of edits so far
  crashes,  \* number of crashes so far
  reports   \* number of failures reported so far

client  == <<active, level, limit>>
states  == <<row, fault>>
history == <<told, said, unsaved>>
bounds  == <<edits, crashes, reports>>
noticeVars ==
  <<client, enabled, states, queue, tick, report, now, history, bounds>>

NoticesTypeOK ==
  /\ active \in BOOLEAN /\ enabled \in BOOLEAN
  /\ level \in [Events -> Levels]
  /\ limit \in [Events -> Limits]
  /\ row \in [Events -> [limit : Limits, level : {1, 2}] \union {NoState}]
  /\ fault \in [cause : Causes, at : 0 .. MaxTime] \union {NoState}
  /\ \A i \in DOMAIN queue : queue[i] \in Events \union {"failure"}
  /\ Len(queue) <= Capacity
  /\ tick \in [at : {"quota", "expiry", "end"}, saving : BOOLEAN,
               level : [Events -> Levels], limit : [Events -> Limits]]
             \union {NoState}
  /\ report \in [Reporters ->
                 [cause : Causes, saving : BOOLEAN, late : BOOLEAN]
                 \union {NoState}]
  /\ now \in 0 .. MaxTime
  /\ told \in [Events -> [limit : Limits, level : Levels]]
  /\ said \in [cause : Causes, at : 0 .. MaxTime] \union {NoState}
  /\ unsaved \subseteq Events \union {"failure"}
  /\ edits \in 0 .. MaxEdits /\ crashes \in 0 .. MaxCrashes
  /\ reports \in 0 .. MaxAll

\* Limits are only compared: one of them stands for any to start with.
NoticesInit ==
  /\ active = TRUE /\ enabled = TRUE
  /\ level = [e \in Events |-> 0]
  /\ limit = [e \in Events |-> CHOOSE l \in Limits : TRUE]
  /\ row = [e \in Events |-> NoState]
  /\ fault = NoState
  /\ queue = <<>>
  /\ tick = NoState
  /\ report = [r \in Reporters |-> NoState]
  /\ now = 0
  /\ told = [e \in Events |-> [limit |-> limit[e], level |-> 0]]
  /\ said = NoState
  /\ unsaved = {}
  /\ edits = 0 /\ crashes = 0 /\ reports = 0

\* Room for n more: an edit counts for two.
Room(n) == 2 * edits + crashes + reports + n <= MaxAll

-----------------------------------------------------------------------------
(* The queue.                                                              *)

HasRoom == Len(queue) < Capacity

\* Run takes a message and sends it; a failing provider is only logged.
Deliver ==
  /\ queue # <<>>
  /\ queue' = Tail(queue)
  /\ UNCHANGED <<client, enabled, states, tick, report, now, history, bounds>>

-----------------------------------------------------------------------------
(* One tick of enforce, on the client.                                     *)

Observes(e) == tick # NoState /\ tick.at = e /\ ~ tick.saving

Following(e) == IF e = "quota" THEN "expiry" ELSE "end"

Observed(e) == [limit |-> tick.limit[e], level |-> tick.level[e]]
GoTo(l) == tick' = [tick EXCEPT !.at = l, !.saving = FALSE]

\* The client is listed; ObserveClient begins with the quota.
List ==
  /\ tick = NoState
  /\ active
  /\ tick' = [at |-> "quota", saving |-> FALSE, level |-> level,
              limit |-> limit]
  /\ UNCHANGED <<client, enabled, states, queue, report, now, history, bounds>>

\* A failing read ends ObserveClient, the expiry with it.
ReadFails(e) ==
  /\ Observes(e)
  /\ "read" \in Faults
  /\ GoTo("end")
  /\ UNCHANGED <<client, enabled, states, queue, report, now, history, bounds>>

\* Below the threshold the state is deleted, and a new cycle begins.
Falls(e) ==
  /\ Observes(e)
  /\ tick.level[e] = 0
  /\ row' = [row EXCEPT ![e] = NoState]
  /\ told' = [told EXCEPT ![e] = Observed(e)]
  /\ GoTo(Following(e))
  /\ UNCHANGED <<client, enabled, fault, queue, report, now, said, unsaved,
                 bounds>>

\* Mutant of Recorded: the limit is not compared.
RecordedForAnyLimit(e) == row[e] # NoState /\ row[e].level >= tick.level[e]

\* Mutant of Recorded: only the same level is suppressed.
RecordedSameLevel(e) ==
  /\ row[e] # NoState
  /\ row[e].limit = tick.limit[e]
  /\ row[e].level = tick.level[e]

Recorded(e) ==
  /\ row[e] # NoState
  /\ row[e].limit = tick.limit[e]
  /\ row[e].level >= tick.level[e]

\* Nothing to tell, or nowhere to put it: the state stays as it is.
Skip(e) ==
  /\ Observes(e)
  /\ tick.level[e] > 0
  /\ Recorded(e) \/ ~ enabled \/ ~ HasRoom
  /\ GoTo(Following(e))
  /\ UNCHANGED <<client, enabled, states, queue, report, now, history, bounds>>

Tell(e) ==
  /\ Observes(e)
  /\ tick.level[e] > 0
  /\ ~ Recorded(e) /\ enabled /\ HasRoom
  /\ queue' = Append(queue, e)
  /\ told' = [told EXCEPT ![e] = Observed(e)]
  /\ unsaved' = unsaved \union {e}
  /\ tick' = [tick EXCEPT !.saving = TRUE]
  /\ UNCHANGED <<client, enabled, states, report, now, said, bounds>>

\* SaveEventState; when it fails, ObserveClient ends.
Save ==
  /\ tick # NoState /\ tick.saving
  /\ \/ /\ row' = [row EXCEPT ![tick.at] = Observed(tick.at)]
        /\ unsaved' = unsaved \ {tick.at}
        /\ GoTo(Following(tick.at))
     \/ /\ "save" \in Faults
        /\ GoTo("end")
        /\ UNCHANGED <<row, unsaved>>
  /\ UNCHANGED <<client, enabled, fault, queue, report, now, told, said,
                 bounds>>

\* enforce disables a client it has listed over its limits, told or not.
EndTick ==
  /\ tick # NoState /\ tick.at = "end"
  /\ active' = (active /\ \A e \in Events : tick.level[e] < 2)
  /\ tick' = NoState
  /\ UNCHANGED <<level, limit, enabled, states, queue, report, now, history,
                 bounds>>

-----------------------------------------------------------------------------
(* NotifyFailure.                                                          *)

CoolsDown(c) == fault # NoState /\ fault.cause = c /\ now - fault.at < Cooldown

\* The settings and the state are read.
Report(r, c) ==
  /\ report[r] = NoState
  /\ Room(1)
  /\ reports' = reports + 1
  /\ enabled
  /\ ~ CoolsDown(c)
  /\ report' = [report EXCEPT ![r] = [cause |-> c, saving |-> FALSE,
                                      late |-> FALSE]]
  /\ UNCHANGED <<client, enabled, states, queue, tick, now, history, edits,
                 crashes>>

\* The others under way have read the state too early; `late` is history.
AndOthersLate(r, mine) ==
  [s \in Reporters |->
     IF s = r THEN mine
     ELSE IF report[s] = NoState \/ report[s].saving THEN report[s]
     ELSE [report[s] EXCEPT !.late = TRUE]]

\* enqueue with the settings that were read, whatever they are by now.
Enqueue(r) ==
  /\ report[r] # NoState /\ ~ report[r].saving
  /\ HasRoom
  /\ queue' = Append(queue, "failure")
  /\ said' = [cause |-> report[r].cause, at |-> now]
  /\ unsaved' = unsaved \union {"failure"}
  /\ report' = AndOthersLate(r, [report[r] EXCEPT !.saving = TRUE,
                                                !.late = FALSE])
  /\ UNCHANGED <<client, enabled, states, tick, now, told, bounds>>

QueueFull(r) ==
  /\ report[r] # NoState /\ ~ report[r].saving
  /\ ~ HasRoom
  /\ report' = [report EXCEPT ![r] = NoState]
  /\ UNCHANGED <<client, enabled, states, queue, tick, now, history, bounds>>

SaveFault(r) ==
  /\ report[r] # NoState /\ report[r].saving
  /\ \/ /\ fault' = [cause |-> report[r].cause, at |-> now]
        /\ unsaved' = IF said.cause = report[r].cause
                        THEN unsaved \ {"failure"}
                        ELSE unsaved \union {"failure"}
        /\ report' = AndOthersLate(r, NoState)
     \/ /\ "save" \in Faults
        /\ report' = [report EXCEPT ![r] = NoState]
        /\ UNCHANGED <<fault, unsaved>>
  /\ UNCHANGED <<client, enabled, row, queue, tick, now, told, said, bounds>>

-----------------------------------------------------------------------------
(* Time, traffic, administrators and crashes.                              *)

\* Traffic is used, or the expiry comes closer.
Rise(e) ==
  /\ active
  /\ \E l \in Levels : l > level[e] /\ level' = [level EXCEPT ![e] = l]
  /\ UNCHANGED <<active, limit, enabled, states, queue, tick, report, now,
                 history, bounds>>

\* A traffic reset, another quota or expiry, another status.
Edit ==
  /\ edits < MaxEdits /\ Room(2)
  /\ edits' = edits + 1
  /\ \/ /\ level' = [level EXCEPT !["quota"] = 0]
        /\ UNCHANGED <<limit, active>>
     \/ /\ \E e \in Events, m \in Limits, l \in Levels :
             /\ m # limit[e]
             /\ limit' = [limit EXCEPT ![e] = m]
             /\ level' = [level EXCEPT ![e] = l]
        /\ UNCHANGED active
     \/ active' = ~ active /\ UNCHANGED <<level, limit>>
  /\ UNCHANGED <<enabled, states, queue, tick, report, now, history, crashes,
                 reports>>

\* Update of the notification settings: the channels are switched.
Switch ==
  /\ edits < MaxEdits /\ Room(2)
  /\ edits' = edits + 1
  /\ enabled' = ~ enabled
  /\ UNCHANGED <<client, states, queue, tick, report, now, history, crashes,
                 reports>>

Clock ==
  /\ now < MaxTime
  /\ now' = now + 1
  /\ UNCHANGED <<client, enabled, states, queue, tick, report, history,
                 bounds>>

\* The queue is lost, the rows are not.
Crash ==
  /\ crashes < MaxCrashes /\ Room(1)
  /\ crashes' = crashes + 1
  /\ queue' = <<>>
  /\ tick' = NoState
  /\ report' = [r \in Reporters |-> NoState]
  /\ UNCHANGED <<client, enabled, states, now, history, edits, reports>>

NoticesNext ==
  \/ Deliver \/ List \/ Save \/ EndTick
  \/ \E e \in Events :
       ReadFails(e) \/ Falls(e) \/ Skip(e) \/ Tell(e) \/ Rise(e)
  \/ \E r \in Reporters :
       \/ \E c \in Causes : Report(r, c)
       \/ Enqueue(r) \/ QueueFull(r) \/ SaveFault(r)
  \/ Edit \/ Switch \/ Clock \/ Crash

NoticesSpec == NoticesInit /\ [][NoticesNext]_noticeVars

-----------------------------------------------------------------------------
(* Properties.                                                             *)

(* "Warnings fire once per crossing, terminal events fire once"            *)
(* (.context/backend-notifications-smtp-telegram-2026-06-30.md): a level   *)
(* that was told of is told again only after the limit has changed, after  *)
(* the event was seen below its threshold, or when a crash or a failing    *)
(* save lost the record of it; traffic, resets, full queues and restarts   *)
(* do not repeat it (service.go:298-320).  And the failure that was told   *)
(* last is not told again within the cooldown, whichever goroutines report *)
(* which causes, unless the record of it was lost or holds another cause,  *)
(* or the goroutine had looked at the record before another one told or    *)
(* recorded a failure: the record is one row, and is read before and       *)
(* written after the queue (service.go:282-295).                           *)
NoRepeat ==
  [][/\ \A e \in Events :
          Tell(e) /\ told[e].limit = tick.limit[e]
            => told[e].level < tick.level[e] \/ e \in unsaved
     /\ \A r \in Reporters :
          Enqueue(r) /\ said # NoState /\ said.cause = report[r].cause
            => \/ now - said.at >= Cooldown
               \/ "failure" \in unsaved \/ report[r].late]_noticeVars

(* What keeps a notice back is that it was told: a record never stands for *)
(* a higher level, another limit or an earlier cycle than the last notice, *)
(* whichever of the steps of observe failed or was cut short by a crash    *)
(* (service.go:309-319).  The variables keep their types.                  *)
NothingSwallowed ==
  /\ NoticesTypeOK
  /\ \A e \in Events :
       tick # NoState /\ tick.at = e /\ tick.level[e] > 0 /\ Recorded(e)
         => \/ told[e].limit = tick.limit[e] /\ told[e].level >= tick.level[e]
            \/ e \in unsaved
=============================================================================
