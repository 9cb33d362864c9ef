---------------------------- MODULE ManualEdits ----------------------------
(***************************************************************************)
(* Manual copy edits of live mode.  The overlay stages texts in a buffer   *)
(* on disk (live-manual-edits-buffer.mjs); Apply makes the helper server   *)
(* hand the staged batch, in chunks, to the polling agent, which edits the *)
(* source and reports; live-commit-manual-edits.mjs verifies the source    *)
(* and clears what it finds applied, asks for repairs, or rolls back.  A   *)
(* transaction file holds the source as it was before, for a restart, a    *)
(* discard or the developer's own decision to roll back.                   *)
(*                                                                         *)
(* One page in one tab, one source file, and the chat agent's route.       *)
(***************************************************************************)
EXTENDS Naturals, FiniteSets

CONSTANTS
  Elements,      \* editable texts of the page, all in one source file
  Nothing,       \* no entry, no transaction, no commit, no request
  ChunkSize,     \* texts per apply event
  MaxAttempts,   \* repair attempts before the developer is asked
  MaxSaves,      \* bound: texts the developer saves
  MaxMishaps     \* bound: how often the server dies, or the page's lock lapses
                 \* under a commit

ASSUME ManualAssumption ==
  /\ IsFiniteSet(Elements)
  /\ {ChunkSize, MaxAttempts} \subseteq Nat \ {0}
  /\ {MaxSaves, MaxMishaps} \subseteq Nat

\* A text is the number of the save it came from, 0 is the original.
Texts == 0 .. MaxSaves

VARIABLES
  running,       \* the server runs
  file,          \* the text of each element in the source file
  buffer,        \* the staged entry of each element
  transaction,   \* the transaction file
  job,           \* the commit in flight: one event at a time is awaited
  event,         \* the apply event somebody waits for
  editor,        \* the event the agent works on
  dock,          \* the overlay's dock of pending edits
  request,       \* a commit request on its way
  saving,        \* a text on its way to the buffer
  saves, mishaps,
  broken         \* ghost: something the code has no guard against happened

disk == <<file, buffer, transaction>>
server == <<running, job, event, mishaps>>
overlay == <<dock, request, saving, saves>>
editVars == <<disk, server, editor, overlay, broken>>

Contents == [Elements -> Texts]
Entry == [id : Texts, text : Texts]
Batches == UNION {[S -> Entry] : S \in SUBSET Elements}
Views == {"none", "ready", "loading", "decision", "rolled back"}

Transactions == [ids : SUBSET Texts, content : Contents]
Jobs == [batch : Batches, snap : Contents, todo : SUBSET Elements,
         applied : SUBSET Elements, attempt : 0 .. MaxAttempts]
Events == [els : SUBSET Elements, snap : Contents, taken : BOOLEAN]
Editors == [batch : Batches, fate : {"live", "tombstoned", "unknown"},
            snap : Contents]
Docks == [view : Views, stored : BOOLEAN, live : BOOLEAN,
          connected : BOOLEAN, asked : BOOLEAN, lapsed : BOOLEAN]
Savings == [el : Elements, text : Texts, asked : BOOLEAN]

ASSUME NothingAssumption ==
  /\ Nothing \notin Texts \cup Entry \cup Transactions \cup {"commit", "repair"}
  /\ Nothing \notin Jobs \cup Events \cup Editors \cup Savings

EditTypeOK ==
      /\ running \in BOOLEAN
      /\ file \in Contents
      /\ buffer \in [Elements -> Entry \cup {Nothing}]
      /\ transaction \in Transactions \cup {Nothing}
      /\ job \in Jobs \cup {Nothing} /\ event \in Events \cup {Nothing}
      /\ job = Nothing <=> event = Nothing
      /\ job # Nothing =>
       job.todo \cup job.applied \cup event.els \subseteq DOMAIN job.batch
      /\ editor \in Editors \cup {Nothing}
      /\ dock \in Docks
      /\ request \in {Nothing, "commit", "repair"}
      /\ saving \in Savings \cup {Nothing}
      /\ saves \in Texts /\ mishaps \in 0 .. MaxMishaps /\ broken \in BOOLEAN

EditInit ==
      /\ running = TRUE
      /\ file = [e \in Elements |-> 0]
      /\ buffer = [e \in Elements |-> Nothing]
      /\ transaction = Nothing
      /\ job = Nothing /\ event = Nothing /\ editor = Nothing
      /\ dock = [view |-> "none", stored |-> FALSE, live |-> TRUE,
                 connected |-> TRUE, asked |-> FALSE, lapsed |-> FALSE]
      /\ request = Nothing /\ saving = Nothing
      /\ saves = 0 /\ mishaps = 0 /\ broken = FALSE

Pending(b) == {e \in Elements : b[e] # Nothing}

-----------------------------------------------------------------------------
(* The dock of pending edits.  lapsed is a ghost: since the page was last   *)
(* loaded with no commit under way, the stored lock has lapsed under one.  *)

\* A locked dock, or a stored lock, stays locked while edits are pending.
updatePendingCounter(t, n) ==
  IF n = 0 THEN [t EXCEPT !.view = "none", !.stored = FALSE]
  ELSE IF t.view = "loading" \/ t.stored
    THEN [t EXCEPT !.view = "loading", !.stored = TRUE]
  ELSE [t EXCEPT !.view = CASE @ = "none"     -> "ready"
                            [] @ = "decision" -> "rolled back"
                            [] OTHER          -> @]

setPendingApplyLoading(t) == [t EXCEPT !.view = "loading", !.stored = TRUE]
Unlocked(t) == [t EXCEPT !.view = "ready", !.stored = FALSE]
showManualApplyDecision(t) == [t EXCEPT !.view = "decision", !.stored = TRUE]

\* What a connected tab makes of a broadcast, when n edits are pending.
handleManualEditActivity(type, t, n) ==
  IF ~t.connected THEN t
  ELSE CASE type = "started"  -> setPendingApplyLoading(t)
         [] type = "done"     -> updatePendingCounter(Unlocked(t), n)
         [] OTHER             -> showManualApplyDecision(t)

Count == Cardinality(Pending(buffer))

\* The dock after a click that asks for a commit.
Asking == [setPendingApplyLoading(dock) EXCEPT !.asked = TRUE]

CommitUnderWay == job # Nothing \/ request # Nothing

\* Saving a text: refused while the dock is locked.
applyEditing(e) ==
  /\ dock.view # "loading" /\ saving = Nothing /\ saves < MaxSaves
  /\ saves'  = saves + 1
  /\ saving' = [el |-> e, text |-> saves + 1, asked |-> TRUE]
  /\ UNCHANGED <<disk, server, editor, dock, request, broken>>

onPendingPillClick ==
  /\ dock.view = "ready" /\ request = Nothing
  /\ IF dock.live
       THEN dock' = Asking /\ request' = "commit"
       ELSE UNCHANGED <<dock, request>>
  /\ UNCHANGED <<disk, server, editor, saving, saves, broken>>

onPendingKeepFixingClick ==
  /\ dock.view \in {"decision", "rolled back"} /\ request = Nothing
  /\ IF dock.live
       THEN dock' = Asking /\ request' = "repair"
       ELSE /\ dock' = showManualApplyDecision(dock)
            /\ UNCHANGED request
  /\ UNCHANGED <<disk, server, editor, saving, saves, broken>>

\* Only what is stored under the server's token outlives a reload; requests
\* under way go on.
Reload ==
  /\ dock' = [dock EXCEPT !.view = "none", !.live = running,
                          !.connected = FALSE, !.asked = FALSE,
                          !.stored = @ /\ dock.live,
                          !.lapsed = @ /\ CommitUnderWay]
  /\ saving' = IF saving = Nothing THEN Nothing
               ELSE [saving EXCEPT !.asked = FALSE]
  /\ UNCHANGED <<disk, server, editor, request, saves, broken>>

connectSSE ==
  /\ running /\ dock.live /\ ~dock.connected
  /\ dock' = [dock EXCEPT !.connected = TRUE]
  /\ UNCHANGED <<disk, server, editor, request, saving, saves, broken>>

fetchPendingCountUnstored ==
  /\ running /\ dock.live /\ ~dock.connected /\ dock.view = "none"
  /\ dock' = updatePendingCounter([dock EXCEPT !.stored = FALSE], Count)
  /\ UNCHANGED <<disk, server, editor, request, saving, saves, broken>>

\* A page that is being loaded asks how many edits are pending.
fetchPendingCount ==
  /\ running /\ dock.live /\ ~dock.connected /\ dock.view = "none"
  /\ dock' = updatePendingCounter(dock, Count)
  /\ UNCHANGED <<disk, server, editor, request, saving, saves, broken>>

\* The stored lock lapses 15 minutes after it was last written, whether the
\* commit it stands for is over or not.
StoredLockLapses ==
  /\ dock.stored
  /\ CommitUnderWay => mishaps < MaxMishaps
  /\ mishaps' = IF CommitUnderWay THEN mishaps + 1 ELSE mishaps
  /\ dock' = [dock EXCEPT !.stored = FALSE, !.lapsed = @ \/ CommitUnderWay]
  /\ UNCHANGED <<disk, running, job, event, editor, request, saving, saves,
                 broken>>

-----------------------------------------------------------------------------
(* The buffer and the transaction file.                                    *)

\* POST /manual-edit-stash.  A text for an element that already waits goes
\* into the entry that is there: under a commit it is cleared with it.
stageEntry ==
  LET e == saving.el
      merged == buffer[e] # Nothing
  IN  /\ running /\ saving # Nothing
      /\ buffer' = [buffer EXCEPT ![e] =
           [id   |-> IF merged THEN @.id ELSE saving.text,
            text |-> saving.text]]
      /\ dock' = IF saving.asked \/ dock.connected
                   THEN updatePendingCounter(dock,
                          Cardinality(Pending(buffer) \cup {e}))
                   ELSE dock
      /\ saving' = Nothing
      /\ broken' = (broken \/ (job # Nothing /\ merged))
      /\ UNCHANGED <<file, transaction, server, editor, request, saves>>

EntryIds(b) == {b[e].id : e \in Pending(b)}

\* The source after a rollback: as it was, if an entry is still pending.
rollbackManualApplyTransaction(src, b) ==
  IF transaction # Nothing /\ transaction.ids \cap EntryIds(b) # {}
    THEN transaction.content ELSE src

\* POST /manual-edit-discard from a dock that is not locked.  It puts the file
\* back as it was before an apply event that is still awaited, and withdraws
\* the event: the commit goes on as after a timeout.
discard ==
  /\ running /\ dock.live /\ dock.view \in {"ready", "rolled back"}
  /\ file' = IF event = Nothing
               THEN rollbackManualApplyTransaction(file, buffer)
               ELSE event.snap
  /\ transaction' = Nothing
  /\ buffer' = [e \in Elements |-> Nothing]
  /\ event'  = IF event = Nothing THEN Nothing
               ELSE [event EXCEPT !.taken = FALSE]
  /\ editor' = IF event = Nothing \/ ~event.taken THEN editor
               ELSE [editor EXCEPT !.fate = "tombstoned"]
  /\ dock' = updatePendingCounter(dock, 0)
  /\ broken' = (broken \/ job # Nothing)
  /\ UNCHANGED <<running, job, mishaps, request, saving, saves>>

\* POST /manual-edit-repair-decision.
repairDecision ==
  /\ running /\ dock.live /\ dock.view \in {"decision", "rolled back"}
  /\ file' = rollbackManualApplyTransaction(file, buffer)
  /\ transaction' = Nothing
  /\ dock' = updatePendingCounter([dock EXCEPT !.stored = FALSE], Count)
  /\ UNCHANGED <<buffer, server, editor, request, saving, saves, broken>>

-----------------------------------------------------------------------------
(* A commit: one apply event after the other, each awaited.  j is the job  *)
(* as it goes on, ag the agent and t the tab after the step so far.        *)

\* pushApplyEventAndWait.
Dispatch(j, els, src, ag, t) ==
  /\ job' = [j EXCEPT !.todo = @ \ els]
  /\ event' = [els |-> els, snap |-> src, taken |-> FALSE]
  /\ file' = src /\ editor' = ag /\ dock' = t
  /\ UNCHANGED <<buffer, running, mishaps, broken>>

\* splitManualApplyBatch.
Chunks(S) == {C \in SUBSET S : \/ C = S /\ Cardinality(S) <= ChunkSize
                               \/ Cardinality(C) = ChunkSize}

Died(ag) == IF ag = Nothing THEN Nothing ELSE [ag EXCEPT !.fate = "unknown"]

\* The requests under way after a step: none if it took the server down.
UnderWay(r) ==
  /\ request' = IF running' THEN r ELSE Nothing
  /\ saving'  = IF running' THEN saving ELSE Nothing
  /\ UNCHANGED saves

\* The page of a server that is gone: its open requests fail.
Orphaned(t) ==
  [(CASE t.asked /\ request = "commit" -> Unlocked(t)
      [] t.asked /\ request = "repair" -> showManualApplyDecision(t)
      [] OTHER -> t) EXCEPT !.live = FALSE, !.connected = FALSE,
                            !.asked = FALSE]

Shutdown(ag, t) ==
    /\ mishaps < MaxMishaps
    /\ mishaps' = mishaps + 1 /\ running' = FALSE
    /\ job' = Nothing /\ event' = Nothing
    /\ editor' = Died(ag) /\ dock' = Orphaned(t)

\* clearAppliedEntries, by the id an entry had when the commit began.
clearAppliedEntries(batch, done) ==
  [e \in Elements |->
     IF e \in done /\ buffer[e] # Nothing /\ buffer[e].id = batch[e].id
       THEN Nothing ELSE buffer[e]]

\* A repair may have written what it does not report.
Unreported(j, done) ==
  j.attempt > 0 /\ \E e \in DOMAIN j.batch \ done :
                     transaction # Nothing /\ file[e] # transaction.content[e]

\* The end of a commit: clear what was applied, remove the transaction and
\* tell the tabs, or die between the two files.
Finish(j, done, src, ag, t) ==
  LET kept == clearAppliedEntries(j.batch, done)
  IN  /\ file' = src /\ buffer' = kept
      /\ \/ /\ transaction' = Nothing /\ job' = Nothing /\ event' = Nothing
            /\ editor' = ag
            /\ dock' = handleManualEditActivity("done", t,
                         Cardinality(Pending(kept)))
            /\ broken' = (broken \/ Unreported(j, done))
            /\ UNCHANGED <<running, mishaps>>
         \/ /\ done # {}
            /\ Shutdown(ag, t)
            /\ broken' = (broken \/ transaction.ids \cap EntryIds(kept) # {})
            /\ UNCHANGED transaction

\* An exception (a write that fails) rolls the transaction back.
CommitThrows(ag, t) ==
  /\ file' = rollbackManualApplyTransaction(file, buffer)
  /\ transaction' = Nothing /\ job' = Nothing /\ event' = Nothing
  /\ editor' = ag
  /\ dock' = handleManualEditActivity("done", t, Count)
  /\ UNCHANGED <<buffer, running, mishaps, broken>>

\* The developer is asked: source and transaction stay as they are.
NeedsManualDecision(ag, t) ==
  /\ job' = Nothing /\ event' = Nothing /\ editor' = ag
  /\ dock' = handleManualEditActivity("decision", t, Count)
  /\ UNCHANGED <<disk, running, mishaps, broken>>

\* repairPostApplyValidation: the n-th attempt.
Repair(j, n, ag, t) ==
  IF n > MaxAttempts
    THEN NeedsManualDecision(ag, t)
    ELSE /\ Dispatch([j EXCEPT !.attempt = n], DOMAIN j.batch, file, ag, t)
         /\ UNCHANGED transaction

Verified(j) == \A e \in j.applied : file[e] = j.batch[e].text

\* findUnappliedEntrySourceChanges.
Leaked(j) == \E e \in DOMAIN j.batch \ j.applied :
               file[e] = j.batch[e].text /\ j.snap[e] # file[e]

\* Verification and the syntax checks, after the batch or after a repair.
Validate(j, n, ag, t) ==
  IF ~Verified(j) THEN Repair(j, n, ag, t)
  ELSE \/ Finish(j, j.applied, file, ag, t)
       \/ CommitThrows(ag, t)
       \/ Repair([j EXCEPT !.applied = IF @ = {} THEN DOMAIN j.batch ELSE @],
                 n, ag, t)

\* The batch has been reported on: an error rolls everything back, and so
\* does an edit that was reported failed and is in the source.
AfterApply(j, failed, ag, t) ==
  IF (failed /\ j.applied = {}) \/ Leaked(j)
    THEN Finish(j, {}, j.snap, ag, t)
    ELSE Validate(j, 1, ag, t)

Chunked(j) == Cardinality(DOMAIN j.batch) > ChunkSize

\* pushApplyBatchInChunksAndWait after one chunk: an error drops the rest.
AfterChunk(j, failed, ag) ==
  IF j.todo # {} /\ ~failed
    THEN /\ \E C \in Chunks(j.todo) : Dispatch(j, C, file, ag, dock)
         /\ UNCHANGED transaction
    ELSE AfterApply(j, failed \/ Chunked(j), ag, dock)

\* POST /manual-edit-commit.  Nothing refuses a second one: it rolls the
\* source back under the first and takes the transaction over.  Bound: of the
\* two, the first is followed to its end.
commit ==
  LET src == rollbackManualApplyTransaction(file, buffer)
      t   == [dock EXCEPT !.asked = FALSE]
      j   == [batch |-> [e \in Pending(buffer) |-> buffer[e]], snap |-> src,
              todo |-> Pending(buffer), applied |-> {}, attempt |-> 0]
  IN  /\ running /\ request = "commit"
      /\ \/ /\ Count = 0
            /\ transaction' = Nothing
            /\ dock' = handleManualEditActivity("done", t, 0)
            /\ UNCHANGED <<file, buffer, server, editor, broken>>
         \/ /\ Count # 0
            /\ transaction' = [ids |-> EntryIds(buffer), content |-> src]
            /\ LET u == handleManualEditActivity("started", t, Count)
               IN  \/ /\ job = Nothing
                      /\ \E C \in Chunks(j.todo) : Dispatch(j, C, src, editor, u)
                   \/ /\ job # Nothing
                      /\ file' = src /\ dock' = u /\ broken' = TRUE
                      /\ UNCHANGED <<buffer, server, editor>>
      /\ UnderWay(Nothing)

\* The same with repair=1: what is in the source is validated again.  No
\* commit is in flight (LockedWhileApplying).
repair ==
  LET t == [dock EXCEPT !.asked = FALSE]
      j == [batch |-> [e \in Pending(buffer) |-> buffer[e]], snap |-> file,
            todo |-> {}, applied |-> Pending(buffer), attempt |-> 0]
  IN  /\ running /\ request = "repair"
      /\ IF transaction = Nothing \/ Count = 0
           THEN /\ dock' = IF transaction # Nothing
                              THEN handleManualEditActivity("done", t, 0)
                            ELSE IF dock.asked THEN showManualApplyDecision(t)
                            ELSE t
                /\ UNCHANGED <<disk, server, editor, broken>>
           ELSE AfterApply(j, FALSE, editor,
                           handleManualEditActivity("started", t, Count))
      /\ UnderWay(Nothing)

-----------------------------------------------------------------------------
(* The agent.                                                              *)

AgentTakes ==
  /\ running /\ editor = Nothing /\ event # Nothing /\ ~event.taken
  /\ event' = [event EXCEPT !.taken = TRUE]
  /\ editor' = [batch |-> [e \in event.els |-> job.batch[e]], fate |-> "live",
                snap |-> event.snap]
  /\ UNCHANGED <<disk, running, job, mishaps, overlay, broken>>

\* Nobody stops an agent whose event has been withdrawn.
AgentWrites ==
  /\ editor # Nothing
  /\ \E e \in DOMAIN editor.batch :
       file' = [file EXCEPT ![e] = editor.batch[e].text]
  /\ broken' = (broken \/ editor.fate # "live")
  /\ UNCHANGED <<buffer, transaction, server, editor, overlay>>

\* A report validateManualApplyResultMessage lets through: which entries
\* were applied, or none and an error.  Others are refused and asked again.
AgentReports ==
  /\ editor # Nothing /\ editor.fate = "live"
  /\ \E S \in SUBSET event.els, error \in BOOLEAN :
       LET j == [job EXCEPT !.applied = @ \cup S]
       IN  /\ error => S = {}
           /\ IF j.attempt = 0 THEN AfterChunk(j, error, Nothing)
                               ELSE Validate(j, j.attempt + 1, Nothing, dock)
  /\ UnderWay(request)

\* The late report on an event that timed out puts the file back as it was
\* when the event was sent, whatever has been done to it since.
rollbackTimedOutApplyReply ==
  /\ running /\ editor # Nothing /\ editor.fate = "tombstoned"
  /\ file' = editor.snap /\ editor' = Nothing
  /\ broken' = (broken \/ file' # file)
  /\ UNCHANGED <<buffer, transaction, server, overlay>>

\* The agent is gone, or reports to a server that never sent the event.
AgentGone ==
  /\ editor # Nothing
  /\ editor' = Nothing
  /\ event' = IF editor.fate = "live" THEN [event EXCEPT !.taken = FALSE]
                                     ELSE event
  /\ UNCHANGED <<disk, running, job, mishaps, overlay, broken>>

\* Mutant of ApplyTimesOut: the timer is disarmed when the agent takes the
\* event.
UntakenTimesOut ==
  /\ event # Nothing /\ ~event.taken
  /\ \/ job.attempt > 0 /\ Repair(job, job.attempt + 1, editor, dock)
     \/ job.attempt = 0 /\ Chunked(job) /\ AfterChunk(job, TRUE, editor)
     \/ /\ job.attempt = 0 /\ ~Chunked(job)
        /\ Finish(job, {}, job.snap, editor, dock)
  /\ UnderWay(request)

\* The hard timeout of an apply event.
ApplyTimesOut ==
  /\ event # Nothing
  /\ LET ag == IF event.taken
                 THEN [editor EXCEPT !.fate = "tombstoned"] ELSE editor
     IN  \/ job.attempt > 0 /\ Repair(job, job.attempt + 1, ag, dock)
         \/ job.attempt = 0 /\ Chunked(job) /\ AfterChunk(job, TRUE, ag)
         \/ /\ job.attempt = 0 /\ ~Chunked(job)
            /\ Finish(job, {}, job.snap, ag, dock)
  /\ UnderWay(request)

-----------------------------------------------------------------------------
ServerStops ==
   /\ running
   /\ Shutdown(editor, dock)
   /\ UnderWay(request)
   /\ UNCHANGED <<disk, broken>>

StartWithoutRecovery ==
  /\ ~running
  /\ running' = TRUE /\ transaction' = Nothing
  /\ UNCHANGED <<file, buffer, job, event, mishaps, editor, overlay, broken>>

\* A started server rolls an abandoned transaction back.
Start ==
  /\ ~running
  /\ running' = TRUE
  /\ file' = rollbackManualApplyTransaction(file, buffer)
  /\ transaction' = Nothing
  /\ UNCHANGED <<buffer, job, event, mishaps, editor, overlay, broken>>

\* Bound: after what the code does not guard against, only the commit that is
\* in flight is followed to its end.
EditNext ==
      \/ /\ ~broken
         /\ \/ \E e \in Elements : applyEditing(e)
            \/ onPendingPillClick \/ onPendingKeepFixingClick
            \/ Reload \/ connectSSE \/ fetchPendingCount \/ StoredLockLapses
            \/ stageEntry \/ discard \/ repairDecision
            \/ commit \/ repair
            \/ AgentTakes \/ AgentWrites \/ AgentGone
            \/ rollbackTimedOutApplyReply
            \/ ServerStops \/ Start
      \/ AgentReports \/ ApplyTimesOut

EditSpec == EditInit /\ [][EditNext]_editVars

\* The timer of an apply event fires, whatever the agent does.
EditFairSpec == EditSpec /\ WF_editVars(ApplyTimesOut)

-----------------------------------------------------------------------------
\* While a commit is in flight the page offers neither Apply nor Discard nor
\* a decision, through reloads, missed broadcasts and a dying server: a
\* second commit would roll back the first one's file under it.  Only a page
\* whose stored lock has lapsed under the commit, 15 minutes after it was
\* written, offers Apply and Discard again; a repair never meets a commit.
\* The variables keep their types.
LockedWhileApplying ==
  /\ EditTypeOK
  /\ job # Nothing /\ ~broken =>
       /\ \/ dock.view \in {"none", "loading"}
          \/ dock.view = "ready" /\ dock.lapsed
       /\ request # "repair"

\* The source as a restart, a discard or a rollback would leave it.
Recoverable == rollbackManualApplyTransaction(file, buffer)

Ledger == INSTANCE EditLedger WITH
  staged <- [e \in Elements |->
               IF buffer[e] = Nothing THEN Nothing ELSE buffer[e].text],
  text   <- Recoverable

\* Apply is all or nothing for each edit, and exact: an edit leaves the
\* buffer only when it is discarded or the source holds its last text, and
\* the recoverable source changes in no other way, through partial and
\* false reports, failed repairs, timeouts, crashes and restarts.
ImplementsLedger == Ledger!Spec

\* A commit ends, in edits applied, in a rollback or with a question to the
\* developer, even if no agent ever answers.
CommitEnds == job # Nothing ~> job = Nothing
=============================================================================
