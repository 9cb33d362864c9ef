# Shilka web panel: TLA+ models, model checking and proofs

The repository holds two systems.

* The **panel**: one Go process that keeps inbounds (listening proxies) and
  clients (proxy users) in SQLite, renders a sing-box configuration from them,
  runs the sing-box core, counts each client's traffic, enforces quotas and
  expiry, and manages remote panels ("nodes") over their HTTP API; and a React
  frontend over its API.
* **Live mode** (`.github/skills/impeccable/scripts`): a helper server, an overlay
  in the page a developer is working on, and scripts that a coding agent runs,
  which together rewrite the project's source while its dev server reloads it.

Neither is distributed consensus.  What is hard in the first is that about a dozen
goroutines share one database, one configuration file and one child process, each
reading something, letting go, and acting on what it read, and that a browser tab
does the same from further away.  In the second, a browser, a server, an agent and
a dev server each hold a part of one session, and any of them may stop, be late or
be reloaded.  That is what this project models.

## 1. Inventory

| Component | State | Operations | Interacts with | Hard behaviour |
|---|---|---|---|---|
| config apply pipeline (`services/singbox/apply.go`, `generator.go`) | `triggerCh`, `Applier.mu`, `config.json`, `.tmp`, backups, revision rows | Trigger, Run/waitQuiet, Apply, ApplyIfMissing | every service (Trigger), checker, process manager | coalescing, debounce, concurrent Apply, crash between write and Trigger |
| core process (`process.go`, `process_linux.go`) | tracked `cmd`, `lastError`, OS processes | Start, Stop, Restart, Reload, Status, reap | apply pipeline, core endpoints, shutdown | Restart is not atomic, SIGTERM is not awaited, untracked survivors |
| client lifecycle and enforcement (`services/client`, `client_repo.go`, `stats/worker.go`) | clients, client_inbounds rows | create, update, delete, set status, reset traffic, bulk operations, enforce, tasks | accounting, apply | read-modify-write against background writers |
| traffic accounting (`stats/clash_user.go`, `worker.go`) | counters, previous connection map | poll, charge | clients, core API | counters across restarts, names looked up later |
| notifications (`services/notification`) | settings cache, queue of 64, event levels | Update, ObserveClient, NotifyFailure, Run | enforcement, apply | dedupe check-then-act, full queue, crash |
| node sync (`services/node`) | node rows, cached remote rows | Probe, Sync, mutations, bulk | remote panels over HTTP | snapshot against mutation, partial failure |
| inbound rules and form (`services/inbound`, `generator.go`, `useInboundForm.ts`) | inbound rows, the form's draft | validate, generated settings, Render, open, save | apply pipeline | toggles and updates by read-modify-write, values lost on a round trip |
| web panel (`lib/store.tsx`, `ClientsPage.tsx`) | lists, filter, selection, form | reloads, client operations, bulk operations | API | answers overtake each other, lists change under a form |
| admin session (`services/auth`, `lib/auth.tsx`, two-factor dialogues) | admin row, recovery codes, toggle, dialogues | login, set-up, confirm, disable, password change | settings page, API | whole-row updates interleave, late answers |
| live server (`live-server.mjs`, `live-session-store.mjs`, poll clients) | queue with leases, held polls, journals, exit timer | POST events, polls, replies, restart, offline completion | overlay, agents | leases, restarts, replies matched by session alone |
| manual copy edits (`live-commit-manual-edits.mjs`, buffer, evidence) | buffer, transaction file, commit in flight, dock | save, apply, repair, roll back, discard | overlay, agent, source | crash between two files, false reports, late replies |
| live overlay and source scripts (`live-browser.js`, `live-wrap/insert/accept.mjs`) | overlay variables, browser storage, DOM, source | pick, go, cycle, accept, discard, resume | live server, agent, dev server | reloads, hot updates against timers, lost answers |
| scheduler, updater, rate limiter, log buffer, settings, tokens, TLS, migrations, sublink, statistics | see `components` in `PROJECT.json` | | | mostly single statements and I/O |
| detector, injection, svelte components, drawing of the overlay, other pages | none shared | | | layout, regular expressions, text surgery |

What makes each modelled component correct is stated with its module in section 3.

### How the parts interact

    HTTP handlers --> services (client, inbound, settings, node, core endpoints)
        ^                |  SQL (one connection)       |  Trigger()
        |                v                             v
    store, forms     SQLite  <-- Render --  apply loop / Apply (mutex)
    (one tab)         ^   ^                            | rename config.json
           enforce,   |   |  UpsertRemote              v
           account ---+   +--- node sync         process manager --> sing-box
              |  ^                                                      |
       notices|  +------------ connection counters (Clash API) ---------+
              v
           queue --> SMTP, Telegram

    overlay --POST /events--> live server --poll--> agent --wrap/accept--> source
       ^   <----- SSE -------   journal    <-reply-                          |
       +---------------- hot update, or GET /source ---- dev server <-------+

Three hand-overs carry the panel's correctness: a database write is followed by
`Trigger`, which must end in a core that runs a configuration rendered after the
write; the core's counters must end up, once, in the row of the right client; and
a row over its quota or past its expiry must leave the configuration again.  Live
mode has one: what the developer saw when he accepted, or what he typed, must be
what the source says in the end, once, and nothing else.  All of them cross
process, goroutine or network boundaries without a transaction.

## 2. Plan

Order, most important behaviour first.  All of it is built.

1. `ConfigSync` (abstract) and `ConfigApply` (detailed, refines it), with
   `ConfigApplyProofs`.
2. `CoreProcess`, with `CoreProcessProofs`: the process manager under `ConfigApply`'s
   `status`, `stop` and `start` steps, with the operating system processes.
3. `ClientEnforcement`, with `ClientEnforcementProofs`: rows of clients, enforcement, tasks; its `Apply` is the
   atomic summary of what `ConfigApply` shows.
4. `TrafficAccounting`: counters of connections to usage of rows.
5. `Notifications`, proved about in `CoreProcessProofs`: event states, cooldown, queue.
6. `NodeSync`, with `NodeSyncProofs`: the cache of a remote panel.
7. `InboundRules`, with `InboundRulesProofs`, and `InboundForm`: rows of inbounds under overlapping requests,
   what the service accepts and fills in, the entry the generator builds, and the
   form that shows a row and writes it back.
8. `LiveStore` and `LiveServer`, with `LiveServerProofs`: journal, queue, leases and polls.
9. `EditLedger` (abstract) and `ManualEdits` (refines it).
10. `WebPanel`: store and clients page.
11. `AdminSession`, with `AdminSessionProofs`.
12. `LiveSource`, with `LiveSourceProofs`, `PageDoc` (abstract) and `LiveOverlay`
    (refines it).

What could still be added, in this order: the scheduler's rows against its cron
entries; the nodes page; svelte components as a second kind of preview in
`LiveOverlay`; proofs for the modules that section 7 lists as only model-checked.
No module declares a RECURSIVE operator.

## 3. The modules

Each definition that stands for code is listed with its lines under `map` in
`PROJECT.json`; comments in the modules name what is abstracted.  Every module has
one type invariant, `TypeOK`; it is the first conjunct of one of the module's
safety invariants and is checked, and where the module has proofs proved, with it.

### ConfigSync and ConfigApply (+ ConfigApplyProofs)

A configuration is the pair of versions of the two tables it was rendered from.
`Write`/`Trigger` are a service's commit and its announcement (two steps, so a
crash fits between them), `TakeTrigger`, `QuietOver` the debounced loop `Run`,
`Lock`, then one action per step of `Apply`: the two queries of `Render`, write
of the temporary file, check, rename, `Status`, `Stop`, `Start`.  The boot
sequence, `/core/reload`, `/core/start`, `/core/restart` and `/core/stop` are
processes of their own; `Crash` resets everything in memory, and the core with
it, because the service unit has no `KillMode` (`scripts/install.sh:1069`) and
systemd therefore ends the whole control group.

* `NoLostUpdate`: a stale live file always has an Apply that will still read the
  change, or has it in hand, or an Apply has failed on that very version, and said
  so, since it was written and announced.  The history variable `failed` keeps the
  tables of which this is so: a write and its Trigger take their table out, a
  failing Apply adds only tables it held, or would have read, in their newest version.
* `RunningCoreIsLive`: outside the mutex, a tracked core runs the live file.
* `RefinesConfigSync`: only checked configurations go live, never ahead of the
  database, and never back to an older state of a table.
* `EventuallyLive`: every announced version goes live, itself or a newer one, or an
  Apply that comes after its Trigger reports an error on the newest version.

### CoreProcess (+ CoreProcessProofs)

`cmd`, the manager's mutex across its sleeps, the reaping goroutines, and the
processes as the kernel shows them (`exec`, `loaded`, `serving`, `zombie`,
`gone`).  `StopSignals`, `StopNothing`, `Launch`, the one-second wait of `Start`, the
pause of `Restart`, `Reap`, the scan of `/proc` in `Status`, the shutdown of
`main`, and a `shilka core` command with a manager of its own.  sing-box is
external: it reads the file, binds ports unless another process has them, exits.

* `NoCoreForgotten`: every live process of the panel is tracked or signalled.
* `CurrentCore`: with no Apply under way a core that keeps running has read the
  newest file.
* `DeadCoreIsNoticed` (liveness): a dead process does not stay tracked.

### ClientEnforcement (+ ClientEnforcementProofs)

One row per client (`used`, `quota`, `expiry`, `status`, `enabled`).  Each SQL
statement or transaction is one action: `Update` is a read and a later write
back, enforcement (run by two goroutines) and the tasks take a list and then
write row by row, batches look the clients up and then run one transaction.
`metered` counts what accounting has added since the last reset.

* `EnabledIffActive`, `UsageSurvives`.
* `NoSilentChange`: who may connect never differs from the live configuration without
  an Apply on its way, or one that has failed on that very difference.  Render, write,
  check and rename may fail (`ApplyFails`); the trigger is then gone and nothing tries
  again, so the difference stays until the next announcement.  The history variable
  `missed` has the clients of which this is so; every `notify` empties it.
* `OneIsCutOff` (liveness): a client that stays over its limits is cut off, or it is
  disabled and the Apply that was to remove it has failed.

### TrafficAccounting (proved in ClientEnforcementProofs)

Connections with counters in the core, `prev` for `ClashUserSource.prevConn`, the
poll that produces deltas by name, and the charge that looks names up among all
rows.  `Faults` selects what may go wrong.

* `NoDoubleCharge` and `PolledIsCharged` bound the charge from above and below.  What a
  failed lookup of a client's name makes the poll forget (`clash_user.go:94`), and the
  next one charge again, is counted in the history variable `forgotten`; the first
  property allows exactly that much more than was moved.

### Notifications (+ CoreProcessProofs)

One client with its two events and one type of core failure.  `tick` is the
enforcement tick in the middle of `ObserveClient`, `report` a `NotifyFailure`
between its read, its enqueue and its save.

* `NoRepeat`: no level is told twice in a cycle, and the failure told last is not told
  again within the cooldown, whichever goroutines report which causes.  Excepted are the
  three cases in which the code has no way to know: the record was lost with a crash or a
  failing save (`unsaved`), it holds another cause by now (it has room for one), and the
  goroutine had read it before another one told or recorded a failure (`late`).
* `NothingSwallowed`.

### NodeSync (+ NodeSyncProofs)

The node's tables, the master's cache, `Sync` row by row, and requests as find,
call, cache.  Ids are AUTOINCREMENT, so a goroutine that keeps a local id "holds"
the row until it is deleted.

* `DeletedIsGone`, `Converges` (liveness).

### InboundRules and InboundForm (+ InboundRulesProofs)

A row is what decides whether `sing-box check` accepts its entry: protocol,
transport, security, whether it has a destination, a certificate, a path, a flow,
and which Reality key pair.  `Create` is one INSERT; `Update`, `Toggle`, `Clone` and
`Delete` read the row (`Prepare`) and write it later (`WriteRow`, `WriteEnabled`,
`WriteClone`, `DeleteRow`, `WriteRefused` when the port was taken), with other
requests in between.  `Valid`, `Transport`, `Generated`, `Flow`, `Copied` are the
rules of the service, `Entry` and `BuiltTLS` the generator, `Accepted` what the core
asks.  `DefaultCert` says that the panel's own certificate exists, which
`cmd/main.go:162-171` makes at boot and does without when it cannot: a TLS inbound that
names none is refused then.  Optional settings are in two groups: those for which the
form has a preset (`preset`) and those for which it has no control (`extras`).
`InboundForm` follows a row through the API's answer (`Shown`), the form it opens
(`Opened`), what the controls allow (`Drafts`) and the payload it saves (`Payload`).

* `Renders`: of the entries of the enabled rows the core refuses two kinds and no
  other, so that no other inbound stops the Apply of all: Hysteria2 saved without TLS
  (`Unencrypted`, section 6) and rows that need a certificate of the panel that could
  not be made (`Uncertified`).
* `KeysNotShared`, `KeysStay`: a Reality key pair belongs to one inbound and is
  replaced by nothing but an `Update` that overlapped another one.
* `SaveErasesOnly`: saving a row that was opened and not changed is accepted and
  changes exactly what `Stripped` lists: port, transport, keys, flow and certificate
  survive, the obfuscation password and the settings without a control do not
  (section 6).

### WebPanel (proved in AdminSessionProofs)

One tab.  A request is sent, served and answered in three steps, or lost, and two
of them overtake each other; `Poll` is the three-second timer, which does not wait
for the reload before.  `page` has filter, selection, failures and the running bulk
operation, `form` the form or dialogue on top.  `FollowAddress` is Back or Forward between
two filters of the page, under a form or not; which rows an inbound or node in the address
hides is not modelled.  `ChangeElsewhere` is another
administrator or the panel itself.

* `AlertIsAboutSelection`: the failures on the screen are those of the clients that
  are selected, through filters, boxes, late answers and other pages.
* `AddFormFits`: the form that adds a client never names an inbound that is not
  there for its node, and is never left without one it could have.
* `TypedIsKept`: what was typed is lost only by closing the form, leaving the page or
  saving, and in the form that adds a client when the address changes under it.
* `ShowsTheTables` (liveness): when the tables rest the tab comes to show them.

### AdminSession (+ AdminSessionProofs)

`row` is the administrator's row, `net` has for each request the copy of the row it
has read and the statement it is at; `Read`, `Write`, `Clear`, `Generate` are the
statements of `auth.go`.  `ui` is the tab: toggle, dialogue, the codes shown.
`scanned` are the secrets the administrator's authenticator has.

* `NoLockout`: the secret that is switched on is one he has.
* `ToggleIsTruthful`, `CodesShownWork`: with nothing under way and unless one of the
  named things has happened (`astray`), toggle and codes shown are true.

### LiveStore and LiveServer (+ LiveServerProofs)

`LiveStore` is the fold of a session's journal.  `LiveServer` has the queue with its
leases, held polls, journals, the exit timer, the overlay's requests and what two
poll clients do with an event; the server may stop and be started again, an agent
may die with an event in hand.  An agent whose reply is lost with the server learns it
(`_completionAck`) and, if it has carried the decision out, runs `live-complete`, which
writes the journal itself while no server answers.

* `RequestsAreKept`: a request leaves journal and queue in three ways only: by the reply to it; by a reply to
  another event of its session that finds it first in the queue (`TakenByAnother`); or
  with the queue of a server that dies after its slot was emptied (`LostInMemory`).  The
  last two lose a request; the documentation says that none is lost (section 6).
* `OverMeansApplied`: a session is recorded as over only with what was done to the
  source.
* `NoMissedWakeup`: what a journal waits for is in the queue of a running server, and no
  poll sleeps beside an event it could have.
* `RequestsAreSettled` (liveness): no request stays for ever; one of the three ways is
  taken.

### EditLedger and ManualEdits (proved in LiveServerProofs)

`EditLedger` is the promise: a saved text waits until it is applied, exactly, or
thrown away.  `ManualEdits` has the buffer and the transaction file on disk, the
commit with its chunks, evidence, repairs and roll-backs, the agent (which may lie,
be late or die) and the dock in the page with its lock.

* `ImplementsLedger`: the source, as a restart or a roll-back would leave it, and the
  buffer implement `EditLedger`, until one of the things the code has no guard
  against has happened (`broken`, section 6).
* `LockedWhileApplying`: no second commit and no discard is offered meanwhile, unless
  the stored lock has lapsed under the commit, and never a decision or a repair.
* `CommitEnds` (liveness): a commit ends even if no agent ever answers.

### LiveSource (+ LiveSourceProofs), PageDoc and LiveOverlay

`LiveSource` is what the scripts do to a file: `wrapCli`, `insertCli`, and from the
markers back `handleDiscard` and `handleAccept` with `expandReplaceRange`,
`extractVariant` and `buildCarbonizeReplacement`.  A file is a sequence of lines of
which only the kind and the numbers of session and variant count, and the scripts
work on it as they do on text: by markers and by counting tags.  `Rendered` is what
a browser makes of it.

`PageDoc` is the promise: a session is opened on an element or beside one, its
variants come, and it ends with one of them or with the document as it was.

`LiveOverlay` has the overlay (`page`: its variables, the DOM, local storage), the
source, the server's queue and journal as the overlay meets them, the agent, the
requests and messages on their way.  One action per handler, message, timer and
observer: `handleClick`, `handleGo`, `selectVariant`, `handleAcceptKey`,
`handleDiscardKey`; `Message` (`done`, `complete`, `discarded`, `error`), `Connect`,
`HotUpdate`, `Fetched`, `SwapTimer`, `AcceptTimer`; and the faults `PostFails` (with
or without having reached the server), `LinkDrops`, `Reload`, `AgentGivesUp`.

* `PickedIsKept`: what the source keeps of a session was on the screen when it was
  accepted.
* `ClosedStaysClosed`: what was reported as over is not opened again, although its
  wrapper is still in page and source, unless its pending accept failed afterwards
  (`late`, section 6).
* `PageAgrees`: when everything rests page and source agree, although two timers put
  elements in by hand; but not after such a failure, nor when a session was accepted
  twice for different variants.
* `NeverStranded`: a page that waits has something to wait for.
* `ImplementsPageDoc`: the source implements `PageDoc`.

## 4. Runs, bounds and why they are enough

| Run | Instance | Shows |
|---|---|---|
| `config_apply` | 1 writer, 1 reload, 1 start/restart request, 1 version per table, 1 crash, one refused mix of versions | all of ConfigApply, with the refinement and liveness |
| `core_process` | 1 request, boot, loop, shutdown, 1 command, 2 processes, 1 new version of the file | safety and `DeadCoreIsNoticed` |
| `client_enforcement` | 2 clients, 1 request goroutine, both loops, the tasks, 1 edit, clock to 2 | safety and `OneIsCutOff` |
| `traffic_accounting` | 2 local rows and one of a node, 2 connections, 3 names, 2 renames, 1 restart, close or poll with failed lookups, faults lookup/fetch/list/add/reuse; symmetry on names and connections | charge bounds |
| `notifications` | 1 client, 2 reporters, 2 causes, queue of 1, cooldown 1, clock to 1; 3 reports, or 1 crash and 2 reports, or 1 edit and a crash or report; failing reads and saves; symmetry on reporters and causes | notices |
| `node_sync` | 2 clients, 2 inbounds, 2 names, 2 requests, the sync loop, 2 changes of the node | cache and deletions, liveness |
| `inbound_rules` | 2 inbounds, 2 ports, 2 requests at a time, 3 requests in all, TCP or WebSocket; inputs of the form (a certificate by ACME goes the way of one in files), and of other clients of the API the bare ones and those with everything given, used or not; symmetry on ports and requests | rows, entries, the form's round trip |
| `live_server` | 1 session, 2 agents, 1 stop of the server or death of an agent; an exit or a closed tab only while that fault is still to come | queue, journal, liveness |
| `manual_edits` | 2 texts sent one by one, 3 saves, 2 repairs, 1 mishap: a crash or a stored lock that lapses under a commit | refinement and liveness |
| `web_panel` | 3 clients of which one is to be added, 2 inbounds of 2 nodes, 2 filters, 2 bulk operations, 2 requests at a time, 1 operation or change elsewhere, 1 failure, any changes of the address | store and page, liveness |
| `admin_session` | 2 requests at a time, 2 secrets, 2 batches of codes, 2 other operations, 1 failure | the second factor |
| `live_overlay` | 1 element, 2 variants, 2 sessions and 1 fault or 1 session and 2 faults; JSX with hot updates and elements that look different, HTML without and elements that look alike; insertion after an element | overlay and source |

Two goroutines suffice for the races of the panel: every shared cell has a read
and a later write, and a lost or doubled effect needs one such pair and one
intruder.  One version above the initial one per table tells "old" from "new",
which is all that a stale read can confuse; for every number of versions, writers
and crashes there are the proofs.  A queue of one is full as soon as it is used.
Two names and two changes of a node, which starts with one client, are enough for a
rename or a deletion whose name is used again.  Three requests on inbounds are a
creation and two that overlap on the row, or a clone of it, or its deletion.  Two
sessions let one be opened on, in or beside what the other has left, and let a late
message of the first meet the second; the second variant tells "the one picked"
from "the first".  Insertion before an element is the same splice at another line.
Sessions and faults together are bounded by `MaxBoth = 3`: two sessions meet one fault
at any point of either, and one session meets two, which is what a lost answer and a
failing retry take.

For LiveOverlay these bounds are part of what is claimed.  The five properties were also
checked once, and hold, with one session and three faults; with two sessions and two
faults (`MaxBoth = 4`) in full for one variant, and for two in the HTML project; and with
elements that look alike in the JSX project, under the bounds of the run.

With two elements, three sessions and three faults (random walks of the model)
`PickedIsKept` and the refinement, both through the number of variants, and
`NeverStranded` fail too, again for one reason: a stray `error` (an accept that arrives after a reload, then
a discard of the same session, for which the script finds no markers any more) takes the
page back to picking while another session is being generated; the developer asks again
for the same element, and `live-wrap` wraps the copy inside the first scaffold, because
its search skips only lines that carry a marker themselves (`live-wrap.mjs:745`).  The
scaffolds are then nested and the page counts the variants of both, or finds those of
neither.

Bounds are constants of the modules (`MaxVersion`, `MaxCrashes`, `MaxEdits`,
`MaxTime`, `MaxUsed`, `MaxMoved`, `MaxRenames`, `MaxEnds`, `Pids`, `NClients`,
`NInbounds`, `MaxSaves`, `MaxLosses`, `MaxOther`, `MaxSecrets`, `MaxBatches`,
`MaxFaults`, `MaxSessions`, `MaxBoth`, `MaxAll`; in InboundRules `MaxEdits` counts all
requests) and sit in the guards of the environment's actions, never in those of
the code under study.  `CHECK_DEADLOCK FALSE` appears where a model ends: the panel
has exited (CoreProcess), or the edits, requests, sessions or the clock are used up.

## 5. Fairness

* ConfigApply: the goroutines are scheduled (WF on their steps); a waiter of
  `Applier.mu` gets it (SF on `Lock`: Go's mutex hands over to a waiter that has
  starved for a millisecond); a writer that has committed calls `Trigger`, unless
  a crash comes.  Writers themselves are not fair.
* CoreProcess: only what the property needs: a Start that waits ends by its timer
  (WF), `Wait` returns for a zombie (WF), and the goroutine that reaps gets the
  mutex in the end (SF).  A core is never assumed to exit on its own.
* ClientEnforcement: tickers tick, the apply loop applies, and the row of a client
  is written in infinitely many rounds if it is over its limits in infinitely many
  (SF on `Expire`: `SetStatus` may fail, not for ever).
* NodeSync: the sync ticker goes on, and a node that is asked again and again
  answers a snapshot now and then (SF on the two queries).  Requests are not fair.
* LiveServer: the poll loop keeps asking, an agent finishes what it holds and
  replies unless it dies, the lease timer fires, and somebody starts a stopped
  server (WF on each).
* ManualEdits: nothing but the timer of an apply event (WF on `ApplyTimesOut`).
* WebPanel: the timer ticks (WF on the reload), and a request is served and answered
  or fails (WF per slot).
* LiveOverlay has no fairness and no liveness property.  `NeverStranded` states the
  safety form of "generating and saving end": while a page waits, a step of another
  part is under way that it waits for.
## 6. Where the code and its documents disagree, and what the models leave unpromised

Met while modelling.  All of it is in the models unless said otherwise; properties
that would be false because of it except the case by name.

**Core and clients.**

* In subprocess mode `shilka core reload` uses a manager that tracks nothing, leaves
  the running core alone and starts a second one (`cmd/cli.go:299`, `README.md:230`).
* The scheduled deletion of expired clients triggers no Apply (`cmd/main.go:238`,
  against `client/service.go:246-247`); it and enforcement act on a list read earlier:
  a client whose expiry was extended in between is deleted or disabled
  (`main.go:230-238`, `worker.go:145`).
* An Apply restarts a core that already runs the same configuration, although
  `main.go:429` says the same hash means no restart.
* A restart is called atomic (`process.go:353`) and is a stop, a pause and a start;
  the new core can find its ports taken and exit.  The wait is fixed
  (`process.go:346`).
* An Apply that fails is logged and notified, and is not tried again: a client that
  enforcement has disabled stays connected until something else triggers
  (`apply.go:112-115,141-167`).
* During a shutdown the reload of the apply loop can start a core after the core was
  stopped (`main.go:408`); the unit's control group ends it.
* Not modelled: a stream of Triggers that never leaves 800 ms of quiet postpones the
  Apply for ever (`apply.go:122`); `settings/service.go:52` returns before `Trigger`
  when a later key fails, with the earlier ones stored.

**Traffic and notices.**

* Names are unique per node, usage is keyed by name alone: traffic goes to the row of
  lowest id, which may be another node's (`stats/worker.go:199`,
  `domain/client.go:14-15`).
* A failing name lookup forgets one connection, whose whole counter is charged again
  at the next poll (`clash_user.go:94`): `NoDoubleCharge` counts it (`forgotten`).
* A failing list or write after a poll loses the deltas (`PolledIsCharged` excepts
  the write through `spoiled`).
* A quota notice that finds the queue full is told later, unless the client was
  disabled by the same tick and is not observed again (`notification/service.go:316`).
* A message in the queue is lost when the panel ends, its record is not: the notice is
  never sent (`notification/service.go:319-330`).
* Two causes of one type of failure in turn, or two goroutines that read the record
  before either has written it, are told again within the cooldown
  (`notification/service.go:282-295`), although
  `.context/backend-notifications-smtp-telegram-2026-06-30.md:16` says that identical
  failures are suppressed for five minutes.
* Not modelled: both goroutines of enforcement observing one client at the same time.
* Not modelled: of two concurrent updates of the settings the later one can put back
  a secret that the earlier one replaced (`notification/service.go:155`).

**Nodes.**

* A row deleted on a node itself stays in the cache, and when its name is used again
  `Sync` stops at the conflict every time; `Converges` excepts the rows behind such a
  conflict (`Blocked`).  For the same reason the cache can refuse the row that a node
  returns to a create or update (`node/service.go:579`, `CacheRefuses`), although
  `.context/backend-remote-mutations-2026-06-04.md:21` says returned resources are
  upserted.

**Inbounds and their form.**

* `validate` lets Hysteria2 pass without TLS (`inbound/service.go:396-398` asks it of
  Naive only), although `README.md:241` and `generator.go:309` say TLS is always
  needed: `sing-box check` then refuses the whole configuration, and every Apply fails
  until the row is changed.  `Renders` names these rows (`Unencrypted`) as the ones
  that are refused.
* `Update` of an inbound writes the whole row it has read: it undoes a `Toggle` that
  came in between, and of two updates that both find no Reality keys the later write
  replaces those the earlier one has handed out (`inbound/service.go:197-230`).
* `Update` takes the WebSocket path, the gRPC service name and the upgrade path from
  the request (`inbound/service.go:114-116`): when they are empty new ones are
  generated, although `inbound/service.go:219-220` says that generated values remain
  stable.
* The obfuscation password of Hysteria2 is not in the API's answer
  (`inbound_handler.go:110`), the form opens without obfuscation
  (`useInboundForm.ts:137`) and saves it so: any save erases the password.
  `.context/frontend-per-protocol-inbounds-2026-06-01.md:46` says the form initializes
  every field, `docs/swagger.yaml:306` lists the password.
* The same save erases every setting for which the form has no control: multiplex,
  masquerade, the network, the tuning and the packet sizes of Hysteria2; `buildPayload`
  (`useInboundForm.ts:185-262`) does not send them and `applyProtocolSettings`
  (`inbound/service.go:113-131`) stores what it gets.  And it stores a preset where a
  value was left out: a bandwidth of 100 where none was set (0 is left out of the
  answer), and the verification that was worked out as a fixed choice.
  `SaveErasesOnly` states all of this as what a save does (`Stripped`).
* Not modelled: a cleared port becomes a random one; the form's generated key pair is
  never sent; a form can be closed by the late answer of another save.

**Frontend.**

* The store's reloads are neither sequenced nor cancelled, and one failing list hides
  the others (`Promise.all`, `store.tsx:98-120`); the nodes page likewise.
* The answer to a bulk operation selects what failed, also where a new filter hides it
  (`ClientsPage.tsx:106`).
* The page follows its address with a form open (`ClientsPage.tsx:60-70`), and the form
  that adds a client is filled again when its defaults change
  (`add-client-modal.tsx:70-93`): Back between two filters empties the draft.
* Not modelled: the form of a client saves the whole draft, with the status it was
  opened with; a quota under half a gigabyte becomes 0, which is unlimited; an expiry
  cannot be cleared; logging out clears the token before `api.logout()` is called; a
  401 does not clear the signed-in flag; a second tab keeps its token.

**Second factor.**

* Opening the set-up dialogue switches the second factor off on the server
  (`auth.go:165`), closing it on the recovery step leaves the toggle off, and `confirm`
  does not look whether its dialogue was closed: these are the members of `astray`.
* A confirmation that fails after the row was written says "invalid code" while the
  factor is on; two confirmations can mix their codes (`auth.go:197`); a password
  change can write back the factor it has read (`auth.go:257`).
* Not modelled: the login's second step has no way back and takes no recovery code.

**Live server and manual edits.**

* `live.md:19` and `:87` promise that the durable journal replays unacknowledged work.
  The journal keeps one pending event, any reply of the session empties the slot
  (`live-session-store.mjs:179-187`), and it takes the first event of the session out of
  the queue, whichever it answers (`live-server.mjs:910-919`).  An agent whose lease
  ran out, and that reports its variants after another one has reported them and the
  user has accepted, takes the accept: it is neither handed out again nor replayed after
  a restart.  `RequestsAreKept` names this (`TakenByAnother`) and its sequel in memory
  (`LostInMemory`) as the only ways to lose one.
* The dock's lock under a commit is a record in `sessionStorage` that lapses 15 minutes
  after it was written, whatever the commit does (`live-browser.js:3417-3438`); each
  chunk of a commit may take minutes, and its report writes it anew only in a page that
  hears the broadcast.  A page that is reloaded after it has lapsed offers Apply and Discard under the commit
  (`StoredLockLapses`; `LockedWhileApplying` names it), and the server refuses neither
  (`live-server.mjs:1583-1640`, `:1789-1832`): a second commit rolls the file back under
  the first and takes its transaction over, a discard withdraws the awaited event.
* Manual edits are exact until (`broken`): such a second commit or discard; a text is
  saved into an entry that a commit is about to clear; an agent still writes for an event
  that was withdrawn; a late reply restores the file as it was when its event was sent; a
  repair writes what it does not report; or the server dies between clearing the entries
  of a partial commit and removing the transaction.
* While a repair waits for the developer, a reload or a saved text leaves the dock
  locked until the record in `sessionStorage` lapses; its key has the server's token in
  it.
* Not modelled: a second tab; `live-discard-manual-edits.mjs`, which empties the buffer
  without rolling back; repairs over several files.

**Overlay.**

* After `restoreSessionWithoutWrapper` the number of variants comes from the server, and
  the observer ignores a wrapper that does not have more: a page restored so stays
  "generating" although its toast says the variants will appear (7085, 5297).
* An insertion is not shown without hot updates (`if (!origContent) return`, 4923).
* A page reloaded while it saves finds the wrapper and reopens the session; a second
  accept finds no markers, is reported as `agent_done`, and the page saves for ever.  So
  does one whose accept arrived and whose answer was lost, if accepted again; and a page
  that missed `complete` while its stream was down.
* An accept that is repeated with another variant is the same event to the server
  (`enqueueEvent` compares id and type): the source gets the first.  It was on the
  screen when it was accepted (`PickedIsKept`), the page shows the second.
* A closed session is opened again, after two faults: the answer to an accept is lost,
  the developer goes on, and the first accept completes the session before the second
  one fails or the script reports an error for a discard that came between them.  Both
  handlers go back to `CYCLING` without asking whether the session is over (6804, 5479).
  This is `late` in the model, which `ClosedStaysClosed` and `PageAgrees` except.
* `error` and `done` are not matched with the session: an error of one returns the page
  to picking while another is open, a `done` of one ends the wait of another that has its
  variants; after an error a reconnect restores the failed session.
* The answer to a discard, the source that a fetch returns and the timer after an accept
  act on whatever session is current; `handled` has room for one session.
* A fetch that finds a wrapper without variants drops a session the agent is working on
  (`recoverEmptyCycling`); one that is answered late takes a page back from saving.
* A generate request that fails leaves the page generating; `cleanup` does not clear
  `pendingAcceptedSession`.
* Without hot updates: `done` missed while the wrapper is in the page is not made up for
  (`restoreFromActiveSessions` returns at once), and a page reloaded between a discard
  and the rewrite shows the wrapper until the next reload.
* In the scripts: `live-wrap` puts staged manual edits into the copy of the original, so
  a discard writes them while the buffer keeps them; in nested sessions `extractVariant`
  takes the first block of that number.  Neither is in the model.

## 7. What is proved

`ConfigApplyProofs` proves, for every set of writers, reloaders and starters, every
`MaxVersion` and `MaxCrashes` in `Nat` and every set `Rejected`, from
`ConstantsAssumption` alone (distinct names of processes, `None` not a value):

* `TypeCorrect`: `Spec => []TypeOK`;
* `NoUpdateIsLost`: `Spec => []NoLostUpdate`;
* `CoreRunsLive`: `Spec => []RunningCoreIsLive`;
* `ApplyImplementsSync`: `Spec => RefinesConfigSync`.

`NoLostUpdate` is not inductive: when an Apply finishes, what it installed may
already be old, and then somebody must still be due to read the newer version, which
only the history of its snapshot shows.  `IInv` therefore adds, in named parts:
`MutexOK` (the goroutine in the critical section is the holder of the mutex);
`SnapOK` (what an Apply has read lies between the live file and the database, and is
either the newest version or *covered*: somebody will still read the table);
`TmpOK` (the temporary file is the one this Apply wrote, and from `install` on it is
not in `Rejected`); `LiveOK` (the live file was checked and is not ahead of the
database); `FreshOK` (after the rename the live file is covered); `CoreOK` (only an
Apply between rename and Reload leaves an older core running).  Each part has a lemma
with one step per action, and below it one per case that the action can disturb.
The refinement follows from the invariant: the rename is a `Publish`, the commit a
`Write`, everything else a stutter.

`AdminSessionProofs` proves `NeverLockedOut`, `Spec => []NoLockout`, for any set of
slots and any bounds.  `NoLockout` is not inductive: a request carries a copy of the
row that it will write back.  `KnownInv` adds what every request under way carries
(`Carried`: a code is of a scanned secret, and a copy that is switched on is so with a
scanned secret), that a tab that has signed out waits for nothing (`Waited`), and that
no secret is newer than the last one made.  `NextKnown` has one lemma per step.

The same module proves `ToggleShowsTheRow` (`ToggleIsTruthful`) and
`ShownCodesAreStored` (`CodesShownWork`) for any number of requests at a time.  `Truth`
is about the time in which nothing of what the properties except has happened: then a
dialogue that waits for an answer is alone with it (`Alone`, `Linked`: what it was left
with after closing has only set-ups beside it), the codes on the screen are stored and
nothing can delete them any more (`Recovery`, `Stored`), and the tab either still waits
for the answer that tells it the state (`Asking`) or has been told (`Told`): the toggle
shows the row, up to a confirmation or disable that has written the row and is not
answered.  `ServerTruth` and `GoneTruth` are what the steps of the server and the
answers have in common.

`ClientEnforcementProofs` proves `ColumnsAgree`, `TrafficIsKept` and
`ChangesAreAnnounced`, that is `EnabledIffActive`, `UsageSurvives` and
`NoSilentChange`, for any number of clients, requests and amounts (`Unused`, the slot
that was never taken, is a value of its own).  `IInv` has them together because they
need each other: a request writes back a copy of the row, so `ReadOK` says that a copy
in flight is one whose columns agree, and `RowsOK` that a row holds what was metered.

The module extends `TrafficAccounting` too.  `PolledTrafficIsCharged` proves
`PolledIsCharged` from `ChargeInv`: what a poll has read of an open connection is in its
row or in the delta of its client's name (`ChargedOK`), names are unique, and a
connection has carried no more than its client has moved (`OwnedOK`).
`NothingIsChargedTwice` proves `NoDoubleCharge`, whatever lookups fail: `MoneyOK` balances
the books over all rows, names and connections, what is charged, held and waiting for the
next poll against what was moved or forgotten.
It rests on lemmas about the sums of the community modules' `SumFunctionOnSet`, for any
finite set: the fold has a value (`FoldExists`), any term can be taken out first
(`SumTakes`), and sums of unions, parts, changed terms and of a set in classes
(`SumUnion`, `SumPart`, `SumUpdate`, `SumOfParts`), each by `SubsetInduction` from the
well-foundedness of strict inclusion.  Connections, names and rows are finite sets
(`AccountingAssumption`), and `None` is a value of its own.

`InboundRulesProofs` proves `KeysAreApart` (`KeysNotShared`), `KeysAreStable`
(`KeysStay`), `EveryOtherEntryRenders` (`Renders`) and, of `InboundForm`, `SavesEraseOnly`
(`SaveErasesOnly`), with the panel's certificate made or not and for all inputs that the
API accepts.  `KInv` adds that the keys a pending request carries are those of its own
row or nobody's, which is what keeps two rows apart when two updates overlap.  `SoundOK`
says of every local row, and of every row that a request is about to write, what the
service sees to: Naive is encrypted, Reality is of VLESS and has its keys and its
destination, a transport has its path and is of VLESS, the flow is the one that follows
from these.  `SoundRenders` and `SoundIsStripped` draw from that alone what the core
accepts and what a save changes.

`CoreProcessProofs` proves `NoneIsForgotten` (`NoCoreForgotten`) and `TheCoreIsCurrent`
(`CurrentCore`) for any set of processes and requests and any number of configurations.
`PInv` adds `LockOK` (whoever waits for a started process holds its manager's mutex and
the manager tracks that process), `NoneLoose` (a live process of the panel is tracked
or signalled) and `StaleOK` (a process with an older file exists only while the loop
is between its status and its restart).

The module extends `Notifications` too, which tells of failures of the core, and proves
`WhatIsHeldBackWasTold` (`NothingSwallowed`) and `NothingIsRepeated` (`NoRepeat`), both for
any set of reporters and causes.  `FaultOK` says that what a reporter is about to tell
was not told within the cooldown, as long as nobody came in between.  `NInv` adds that a saved record is one that was told, and that a record on its
way to the database is the one in memory.

`NodeSyncProofs` proves `DeletionsAreTrue` (`DeletedIsGone`) for any number of clients,
inbounds and edits, with at least one inbound and one name.  `DInv` adds that
everything the master keeps of a client (its cache, a snapshot, an answer, a held id)
is about a client that the node has had (`Known`), so that a node which does not know
the client any more has deleted it; and `Told`, that an answer to a deletion is true
when it is cached.  `Keeps` (a client is created once and deleted once) is shown of
every change of the node, and carries these facts over whatever comes between.

`LiveServerProofs` proves `EndsAreEarned` (`OverMeansApplied`) for any sets of sessions
and agents and any number of failures.  `OInv` adds what an agent has *earned* when it
is about to report or to complete an end.  The operators on the
queue stay closed there: whatever they hand out is held, not reported.

`RequestsLeaveInThreeWays` (`RequestsAreKept`) and `PollsAreServed`
(`NoMissedWakeup`) open them, for any finite set of sessions.  `QueueInv` adds to the
types that a session with an unanswered event is not over (`OpenIfPending`: otherwise a
restart would not requeue it), and says of the polls that wait, in `Served`, that every
event of the queue is leased, so that a change makes at most one available
(`OneAvailable`) and serving one poll is enough (`FlushFacts`).  Each operator on the
queue has a lemma (`FilterFacts`, `AcknowledgeFacts`, `LeaseFacts`, `EnqueueFacts`).
With it a running server holds in its queue whatever is kept (`IsKept`), so that each
step is asked only what it takes out of the queue (`StepKeeps`): of all of them a reply
alone takes something, the first event of its session (`PostKeeps`).
`filter` is a recursive function: that it has a value at all is shown by induction over
its prefixes (`SetInduction`, `PrefixExists`), from the well-foundedness of `<`.

The same module proves of `ManualEdits`, for any finite set of texts on the page and any
chunk size, number of repairs, saves, crashes and lapses, `EditsLockedWhileApplying`
(`LockedWhileApplying`) and the refinement `EditsImplementLedger`
(`Spec => ImplementsLedger`), from `ManualAssumption` and `NothingAssumption` (the value
for "none" is not one of the others).  `EditInv` is the types (`Types`: an agent is live
exactly as long as its event is awaited) and, until something the code has no guard
against has happened, `Safe`: `Docked` (a commit asked for or in flight has its dock
locked in a page of this server, and what is offered is about something pending; a lapsed
lock leaves that no decision is offered and no repair asked for under a commit),
`Recovers` (a transaction is about an entry that is still pending, and what is not
pending is as it was before), `Followed` (the commit in flight is `Good`: its entries
are those of the buffer, nothing outside it is written, and before a repair each of its
elements holds the old text or the staged one) and `Working` (the agent has been given
what the commit holds).  The operators of a commit come down to five outcomes
(`Outcome`: another event, everything undone, done, thrown back, a question), so that a
report, a timeout and a repair share one proof.  In the ledger an outcome is an `Apply`
of what was reported, everything else of a commit is a stutter: `RestAsItWas` shows that
what is not reported applied is what it was.

`AdminSessionProofs` extends `WebPanel` too and proves `PanelAlertIsAboutSelection`,
`PanelAddFormFits` and `PanelTypedIsKept` for any clients, nodes, inbounds and lanes, with
`Nil` a value of its own and `"all"` one of the filters.  The alert is about the selection
only because an answer to a bulk operation that is still under way finds the selection
it was sent with; the form fits because every step that changes node, inbounds or lists
ends in the same repair of its choice.

`LiveSourceProofs` is about the scripts themselves: the functions of `LiveSource` on any
file (`f \in Seq(L)`, whatever lines `L` has), any session whose number the file does not
hold yet (`Free`), any element that is found and closed in it, JSX or HTML, with a style
sheet or without, and any number of variants.

* `DiscardUndoesWrap`, `DiscardUndoesInsert`: discarding a session gives the file back
  line for line, before the agent has written its variants and after.
* `AcceptLeavesVariant`, `AcceptLeavesInsertion`: after an accept, with the agent's last
  step when the variant has a style sheet, the file is the old one with the accepted
  variant's markup where the element stood, or at the line of the insertion, and
  `hasCarbonize` says whether that last step is still to be done.

The scripts find their lines by markers and by counting tags, so the argument is about
where things stand.  `Depth` is additive (`DepthStep`, `DepthHead`), a stretch whose tags
balance stays balanced wherever it is put (`EvenShift`), and `closingLine` of a tag around
such a stretch is the line after it (`ClosingIs`).  `InFile` says that a file is two parts
around one scaffold none of whose frame's lines stand elsewhere: then the markers are
found (`MarkersFound`), the range of `expandReplaceRange` is the scaffold, whatever
wrappers of other sessions stand around it (`RangeFound`, `ScaffoldReplaced`), and the
original, the variant and the style sheet are found in it (`OriginalFound`,
`VariantFound`, `CssFound`).  `WrapIs`, `InsertIs` and `FillsIs` show that wrapping,
inserting and filling in make such files.  `FlattenSeq` is a recursive function; what it
returns for the variants is shown by induction over their number (`SetInduction`,
`FlatExists`, `VariantsAre`).  The theorems say nothing of a file that already holds lines
of the session, or in which the developer or the agent has edited the frame.

A liveness property needs two things: steps that lead to it and are never undone, and
fairness that takes them.  The second needs `ENABLED`, which the prover does not have.
The first is proved of each such property, for all values of the constants:

* `Converges`: `CacheSettles` (NodeSync).  While the node is left alone no snapshot and
  no answer on its way becomes stale, and a live row that is cached as it is, with
  nothing on its way that says otherwise, stays so.  `EInv` adds to `DInv` that the
  node's clients are of live inbounds (`LinksOK`), so that the cascade from a cached
  inbound never takes a live client's row, and that a request which is to drop an inbound
  holds only one that the node has deleted (`Owns`).  `StepMoves` says of every step
  what it moves between node, snapshots, answers and cache.
* `DeadCoreIsNoticed`: `TrackedIsWatched` and `DeadStaysDead` (CoreProcess).  Somebody
  waits for every process that a running panel tracks, and a dead one stays dead until it
  is dropped.
* `OneIsCutOff`: `WhoIsOverIsDue` (ClientEnforcement).  A client over its limits that is
  still in the live configuration is in the next list of `enforce`, or its removal is
  announced or about to be, or was announced and the Apply failed.
* `RequestsAreSettled`: `AnswersSettle` (LiveServer).  Each answer empties the slot of
  its session in the journal, and nothing else but a newer request changes it.
* `CommitEnds`: `CommitAdvances` (ManualEdits).  `Remaining`, the texts not yet sent plus
  the repairs not yet used, falls with every report and every timeout, and nothing else
  touches the commit.  After a second commit the first one is followed.
* `ShowsTheTables`: `PanelCatchesUp` (WebPanel).  When the tables rest, the answers
  under way that would show something else only grow fewer, and every other one shows
  the tables.
* `EventuallyLive`: `NoUpdateIsLost` (ConfigApply), in which somebody is always due to
  read what is newer than the live file.

That these steps are taken, and so the seven properties themselves, is only
model-checked.  So are the four invariants of `LiveOverlay` and its refinement of
`PageDoc`; as section 4 says, these five hold within the run's bounds and three of them not for all
values of the constants, so that there is no theorem to state about them as they are.

## 8. What is not modelled

* Whole components: see `components` in `PROJECT.json` for each with its reason.  Most
  JavaScript of the repository is of this kind: the detector (about 13 000 lines of
  rules, thresholds, a CSS cascade and a bundle generated from them), the drawing of the
  overlay in `live-browser.js` (bars, panels, annotations, shaders, drag and drop), the
  search of the scripts for an element in a project's files, and the presentation of the
  frontend.  These have no state that another part reads; a model of them would be a
  transliteration.  The map therefore covers the parts of live mode and of the frontend
  that have state, and a small share of all JavaScript lines.
* In ConfigApply: backups, the revision rows, the settings table.
* In CoreProcess: the systemd manager, permissions on `/proc`, the diagnostics text.
* In ClientEnforcement: the inbounds of a client and its credentials, the first-use
  mark (nothing reads it), cached rows of nodes (enforcement lists them too, and
  treats them alike).
* In TrafficAccounting: the V2Ray source, the heartbeat; upload and download are one
  counter.
* In Notifications: the providers, redaction, secrets that `Update` keeps.
* In NodeSync: the row of the node itself (probe, status, enabled), address checks,
  and the columns of a row other than name, inbound and status.
* In InboundRules and InboundForm: the values of optional settings, of which only
  whether they are given is modelled, in two groups; the syntax of names, ports and
  destinations; the users of an entry.
* In WebPanel: fields of the forms other than status, node and inbounds; several tabs.
* In AdminSession: lifetimes of tokens, the login's rate limit, recovery logins, the
  CLI's reset.
* In LiveServer: checkpoints, annotations, the routes that serve files; an agent that
  finishes by hand what `live-accept` could not, and reports it.
* In ManualEdits: several pages, files and tabs, the separate copy-edit agent.
* In LiveOverlay: inline text editing and its `EDITING` state, the pick and insert
  toggles (every click picks or inserts), params, annotations, svelte components,
  elements hidden in dialogues, checkpoints, several tabs and pages, leases and
  restarts of the server (those are LiveServer's), an `EventSource` that gives up.  A
  key press comes after the answers to what the page has asked before (`Settled`): the
  server runs on the developer's machine.
