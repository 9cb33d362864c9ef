----------------------------- MODULE LiveServer -----------------------------
(***************************************************************************)
(* Live mode (.github/skills/impeccable/scripts): a helper server between  *)
(* the overlay in the developer's browser and the coding agents that poll  *)
(* it.  The browser POSTs events; the server journals each one, queues it  *)
(* and leases it to a polling agent; the agent edits the source and POSTs  *)
(* a reply, which is matched to the queue by the session's id alone,       *)
(* journalled and broadcast.  Requests travel independently of each other, *)
(* leases expire, agents and the server die, and a restarted server        *)
(* requeues what the journals still hold.                                  *)
(***************************************************************************)
EXTENDS LiveStore, Sequences, SequencesExt, FiniteSets

CONSTANTS
  Ids,           \* sessions: variants of one element, or one steer request
  Agents,        \* poll clients
  MaxFaults      \* bound: how often the server stops or an agent dies; the
                 \* browser leaves only while a fault is still to come

NoId == "no id"
Replies == {"done", "error", "complete", "discarded", "agent_done",
            "carbonize", "steer_done"}
Steps == {"idle", "polling", "holding", "replying", "completing"}
Live == {"generating", "cycling", "saving", "picking"}

ASSUME LiveAssumption ==
  /\ IsFiniteSet(Ids) /\ NoId \notin Ids
  /\ MaxFaults \in Nat

VARIABLES
  up,        \* the server process runs
  queue,     \* pendingEvents, oldest first
  polls,     \* pendingPolls: the agents whose request the server holds
  journal,   \* the folded journal of each session, on disk
  tab,       \* "open": an SSE client; "left": the exit timer runs; "none"
  net,       \* POST /events requests under way
  page,      \* what the overlay shows of each session
  agent,     \* what each agent is doing
  source,    \* the session's markers in the project's source
  applied,   \* the decisions live-accept has carried out on the source
  faults     \* server stops and agent deaths so far

store   == <<journal, source, applied>>
browser == <<net, page>>
vars == <<up, queue, polls, store, tab, browser, agent, faults>>

\* An agent: the event it has in hand, and what it is about to report of it.
Idle == [at |-> "idle", id |-> NoId, of |-> None, type |-> None]
At(step, id, of, type) ==
  [at |-> step, id |-> id, of |-> of, type |-> type]
Msg(type, id) == [type |-> type, id |-> id]

QueuedEvents == [id : Ids \cup {NoId}, leased : BOOLEAN,
                 type : BrowserEvents \cup {"exit"}]

TypeOK ==
  /\ up \in BOOLEAN
  /\ queue \in Seq(QueuedEvents)
  /\ polls \in Seq(Agents)
  /\ journal \in [Ids -> [phase : Phases,
                          pending : BrowserEvents \cup {None}]]
  /\ tab \in {"open", "left", "none"}
  /\ net \subseteq [type : BrowserEvents, id : Ids]
  /\ page \in [Ids -> Live \cup {"unused", "steering", "closed"}]
  /\ \A a \in Agents : /\ agent[a].id \in Ids \cup {NoId}
                       /\ agent[a].at \in Steps
                       /\ agent[a].of \in BrowserEvents \cup {"exit", None}
                       /\ agent[a].type \in Replies \cup {None}
  /\ source  \in [Ids -> {"plain", "wrapped", "carbonize", "accepted"}]
  /\ applied \in [Ids -> SUBSET {"accept", "discard"}]
  /\ faults \in 0 .. MaxFaults

Init ==
  /\ up = TRUE /\ queue = <<>> /\ polls = <<>> /\ tab = "none"
  /\ journal = [s \in Ids |-> baseSnapshot]
  /\ net = {} /\ page = [s \in Ids |-> "unused"]
  /\ agent = [a \in Agents |-> Idle]
  /\ source = [s \in Ids |-> "plain"] /\ applied = [s \in Ids |-> {}]
  /\ faults = 0

-----------------------------------------------------------------------------
(* The event queue.                                                        *)

\* The elements of q that are in S, in the order they have there.
filter(q, S) ==
  LET f[i \in 0 .. Len(q)] == IF i = 0 THEN <<>>
                              ELSE IF q[i] \in S THEN Append(f[i-1], q[i])
                              ELSE f[i-1]
  IN  f[Len(q)]

Holds(q, id, type) == \E i \in DOMAIN q : q[i].id = id /\ q[i].type = type

enqueueEventOnce(q, id, type) ==
  IF \E i \in DOMAIN q : q[i].id = id
    THEN q
    ELSE Append(q, [id |-> id, type |-> type, leased |-> FALSE])

enqueueEvent(q, id, type) ==
  IF id # NoId /\ Holds(q, id, type)
    THEN q
    ELSE Append(q, [id |-> id, type |-> type, leased |-> FALSE])

\* The oldest event nobody holds a lease on, 0 if there is none.
findAvailablePendingEvent(q) == SelectInSeq(q, LAMBDA e : ~e.leased)

\* An event with an id stays queued until it is acknowledged; one without
\* is gone as soon as it is handed out.
leaseEvent(q, i) ==
  IF q[i].id = NoId THEN RemoveAt(q, i) ELSE [q EXCEPT ![i].leased = TRUE]

\* A reply takes the first event of its session, whichever it answers.
firstOf(q, id) == SelectInSeq(q, LAMBDA e : e.id = id)

acknowledgePendingEvent(q, id) ==
  LET i == firstOf(q, id) IN IF i = 0 THEN q ELSE RemoveAt(q, i)

\* Every change of the queue ends with the waiting polls being served.  No
\* poll waits while an event is available, so one event is served at most.
flushPendingPolls(q, ps, ag) ==
  LET i == findAvailablePendingEvent(q)
  IN  IF ps = <<>> \/ i = 0
        THEN queue' = q /\ polls' = ps /\ agent' = ag
        ELSE /\ queue' = leaseEvent(q, i)
             /\ polls' = Tail(ps)
             /\ agent' = [ag EXCEPT
                            ![Head(ps)] =
                               At("holding", q[i].id, q[i].type, None)]

LeaseExpiresUnserved ==
  /\ up
  /\ \E i \in DOMAIN queue : /\ queue[i].leased
                            /\ queue' = [queue EXCEPT ![i].leased = FALSE]
  /\ UNCHANGED <<up, polls, agent, store, tab, browser, faults>>

LeaseExpires ==
  /\ up
  /\ \E i \in DOMAIN queue :
       /\ queue[i].leased
       /\ flushPendingPolls([queue EXCEPT ![i].leased = FALSE], polls, agent)
  /\ UNCHANGED <<up, store, tab, browser, faults>>

-----------------------------------------------------------------------------
(* The overlay in the browser.                                             *)

handleGo(s) ==
  /\ page[s] = "unused"
  /\ \/ /\ page' = [page EXCEPT ![s] = "generating"]
        /\ net'  = net \cup {Msg("generate", s)}
     \/ /\ page' = [page EXCEPT ![s] = "steering"]
        /\ net'  = net \cup {Msg("steer", s)}
  /\ UNCHANGED <<up, queue, polls, store, tab, agent, faults>>

\* The observer sees the variants in the page once they are in the source.
variantsArrive(s) ==
  /\ page[s] \in {"generating", "picking"} /\ source[s] = "wrapped"
  /\ page' = [page EXCEPT ![s] = "cycling"]
  /\ UNCHANGED <<up, queue, polls, store, tab, net, agent, faults>>

handleAccept(s) ==
  /\ page[s] = "cycling"
  /\ page' = [page EXCEPT ![s] = "saving"]
  /\ net'  = net \cup {Msg("accept", s)}
  /\ UNCHANGED <<up, queue, polls, store, tab, agent, faults>>

\* The overlay keeps the session until the server has confirmed the discard.
handleDiscard(s) ==
  /\ page[s] = "cycling"
  /\ net' = net \cup {Msg("discard", s)}
  /\ UNCHANGED <<up, queue, polls, store, tab, page, agent, faults>>

\* Reloading the page resumes a session whose wrapper is in the source.
resumeSession(s) ==
  /\ page[s] \in {"generating", "cycling", "saving", "picking"}
  /\ page' = [page EXCEPT ![s] =
                CASE source[s] = "wrapped" -> "cycling"
                  [] source[s] # "wrapped"
                       /\ page[s] \in {"generating", "cycling"}
                       -> "generating"
                  [] OTHER -> "closed"]
  /\ UNCHANGED <<up, queue, polls, store, tab, net, agent, faults>>

\* What the answer to request m does to the page.
Answered(m, ok) ==
  [page EXCEPT ![m.id] =
    CASE ok /\ m.type = "discard" /\ @ \in Live -> "closed"
      [] ~ok /\ m.type = "accept" /\ @ = "saving" -> "cycling"
      [] ~ok /\ m.type = "steer" /\ @ = "steering" -> "closed"
      [] OTHER -> @]

-----------------------------------------------------------------------------
(* Requests from the browser.                                              *)

\* appendEvent.
Journalled(m) == [journal EXCEPT ![m.id] = applyEvent(@, m.type)]

\* POST /events: journal, queue, answer.
PostEvent(m) ==
  /\ up
  /\ journal' = Journalled(m)
  /\ flushPendingPolls(enqueueEvent(queue, m.id, m.type), polls, agent)
  /\ net'  = net \ {m}
  /\ page' = Answered(m, TRUE)
  /\ UNCHANGED <<up, source, applied, tab, faults>>

RequestFails(m) ==
  /\ ~up
  /\ net'  = net \ {m}
  /\ page' = Answered(m, FALSE)
  /\ UNCHANGED <<up, queue, polls, store, tab, agent, faults>>

\* GET /events: a client cancels the exit timer and the exits it has queued.
cancelQueuedAnonymousExitEvents(q) ==
  filter(q, {e \in Range(q) : e.type # "exit"})

Connect ==
  /\ up /\ tab # "open"
  /\ tab'   = "open"
  /\ queue' = cancelQueuedAnonymousExitEvents(queue)
  /\ UNCHANGED <<up, polls, store, browser, agent, faults>>

Disconnect ==
  /\ up /\ tab = "open" /\ faults < MaxFaults
  /\ tab' = "left"
  /\ UNCHANGED <<up, queue, polls, store, browser, agent, faults>>

ExitTimerFires ==
  /\ up /\ tab = "left" /\ faults < MaxFaults
  /\ tab' = "none"
  /\ flushPendingPolls(enqueueEvent(queue, NoId, "exit"), polls, agent)
  /\ UNCHANGED <<up, store, browser, faults>>

-----------------------------------------------------------------------------
(* The agents.                                                             *)

\* GET /poll: take an available event, or wait.
handlePollGet(a) ==
  /\ up /\ agent[a] = Idle
  /\ LET i == findAvailablePendingEvent(queue)
     IN  IF i # 0
           THEN /\ queue' = leaseEvent(queue, i)
                /\ agent' = [agent EXCEPT ![a] =
                               At("holding", queue[i].id, queue[i].type,
                                  None)]
                /\ UNCHANGED polls
           ELSE /\ polls' = Append(polls, a)
                /\ agent' = [agent EXCEPT ![a] =
                               At("polling", NoId, None, None)]
                /\ UNCHANGED queue
  /\ UNCHANGED <<up, store, tab, browser, faults>>

PollTimesOut(a) ==
  /\ agent[a].at = "polling"
  /\ polls' = filter(polls, Agents \ {a})
  /\ agent' = [agent EXCEPT ![a] = Idle]
  /\ UNCHANGED <<up, queue, store, tab, browser, faults>>

Holding(a, type) == agent[a].at = "holding" /\ agent[a].of = type
Clean(a)         == source[agent[a].id] # "carbonize"
Reporting(a)     == \/ agent[a].at = "replying"
                    \/ agent[a].at = "completing" /\ Clean(a)

\* The agent comes to report r of what it has in hand.
Report(a, r) ==
  agent' = [agent EXCEPT ![a] = At("replying", @.id, @.of, r)]

\* The agent writes the variants around the element, or gives up.
writeVariants(a) ==
  /\ Holding(a, "generate")
  /\ \/ /\ source' = [source EXCEPT ![agent[a].id] = "wrapped"]
        /\ Report(a, "done")
     \/ Report(a, "error") /\ UNCHANGED source
  /\ UNCHANGED <<up, queue, polls, journal, applied, tab, browser, faults>>

doSteer(a) ==
  /\ Holding(a, "steer")
  /\ \E r \in {"steer_done", "error"} : Report(a, r)
  /\ UNCHANGED <<up, queue, polls, store, tab, browser, faults>>

completionTypeIgnoringFailure(type, result) ==
  CASE type = "discard" -> "discarded"
    [] type = "accept" /\ result.handled ->
         IF result.carbonize THEN "carbonize" ELSE "complete"
    [] OTHER -> IF result.failed THEN "error" ELSE "agent_done"

\* The reply to the outcome of live-accept.
completionTypeForAcceptResult(type, result) ==
  CASE type = "discard" ->
         IF result.handled THEN "discarded" ELSE "error"
    [] type = "accept" /\ result.handled ->
         IF result.carbonize THEN "carbonize" ELSE "complete"
    [] OTHER -> IF result.failed THEN "error" ELSE "agent_done"

\* live-accept finds the session by its markers: without them nothing is
\* handled.  The script itself may fail before it has written anything.
Results(id) ==
  [handled : {source[id] = "wrapped"}, carbonize : BOOLEAN, failed : {FALSE}]
    \cup [handled : {FALSE}, carbonize : {FALSE}, failed : {TRUE}]

augmentEventWithAcceptHandling(a) ==
  LET id == agent[a].id
      type == agent[a].of
  IN  /\ agent[a].at = "holding" /\ type \in {"accept", "discard"}
      /\ \E result \in Results(id) :
           /\ Report(a, completionTypeForAcceptResult(type, result))
           /\ IF result.handled
                THEN /\ applied' = [applied EXCEPT ![id] = @ \cup {type}]
                     /\ source'  = [source EXCEPT ![id] =
                          CASE type = "discard"  -> "plain"
                            [] result.carbonize  -> "carbonize"
                            [] OTHER             -> "accepted"]
                ELSE UNCHANGED <<applied, source>>
      /\ UNCHANGED <<up, queue, polls, journal, tab, browser, faults>>

\* The stitched-in variant is folded into the source; live-complete is run
\* when the source is clean.
carbonizeCleanup(a) ==
  /\ agent[a].at = "completing" /\ ~Clean(a)
  /\ source' = [source EXCEPT ![agent[a].id] = "accepted"]
  /\ UNCHANGED <<up, queue, polls, journal, applied, tab, browser, agent,
                 faults>>

-----------------------------------------------------------------------------
(* Replies.                                                                *)

\* The journal entry a reply is recorded as.
ReplyEvent(r) ==
  CASE r = "steer_done" -> "steer_done"
    [] r = "discarded"  -> "discarded"
    [] r = "complete"   -> "complete"
    [] r = "error"      -> "agent_error"
    [] OTHER            -> "agent_done"

\* What the broadcast of reply r does to the page of its session.
Heard(s, r) ==
  IF tab # "open" THEN page
  ELSE [page EXCEPT ![s] =
    CASE r = "complete"   /\ @ = "saving" -> "closed"
      [] r = "discarded"  /\ @ \in Live -> "closed"
      [] r = "error"      /\ @ = "saving" -> "cycling"
      [] r = "error"      /\ @ \in {"generating", "cycling"} -> "picking"
      [] r \in {"error", "steer_done"} /\ @ = "steering" -> "closed"
      [] OTHER -> @]

ToComplete(a, r) == At("completing", agent[a].id, agent[a].of, r)

AfterReply(a) ==
  IF agent[a].type = "carbonize" THEN ToComplete(a, "complete") ELSE Idle

\* POST /poll: acknowledge, journal, broadcast.  A late reply to a session
\* that is over is not journalled.
handlePollPost(a) ==
  LET id == agent[a].id
      r  == agent[a].type
      acknowledged == \E i \in DOMAIN queue : queue[i].id = id
      skipJournalReply == ~acknowledged /\ journal[id].phase \in Terminal
  IN  /\ up /\ Reporting(a)
      /\ journal' = IF skipJournalReply THEN journal
                    ELSE [journal EXCEPT ![id] =
                            applyEvent(@, ReplyEvent(r))]
      /\ flushPendingPolls(acknowledgePendingEvent(queue, id), polls,
                           [agent EXCEPT ![a] = AfterReply(a)])
      /\ page' = Heard(id, r)
      /\ UNCHANGED <<up, source, applied, tab, net, faults>>

\* live-poll without a server: the reply is lost.  When a decision was
\* carried out, the agent learns it and runs live-complete.
replyLost(a) ==
  /\ ~up /\ agent[a].at = "replying"
  /\ agent' = [agent EXCEPT ![a] =
       CASE agent[a].type \in {"complete", "carbonize"} ->
              ToComplete(a, "complete")
         [] agent[a].type = "discarded" -> ToComplete(a, "discarded")
         [] OTHER -> Idle]
  /\ UNCHANGED <<up, queue, polls, store, tab, browser, faults>>

\* live-complete without a server writes the journal itself.
completeOffline(a) ==
  /\ ~up /\ agent[a].at = "completing" /\ Clean(a)
  /\ journal' = [journal EXCEPT ![agent[a].id] =
                    applyEvent(@, ReplyEvent(agent[a].type))]
  /\ agent' = [agent EXCEPT ![a] = Idle]
  /\ UNCHANGED <<up, queue, polls, source, applied, tab, browser, faults>>

-----------------------------------------------------------------------------
(* Failures.                                                               *)

\* The queue, the polls and the timers are memory of the process.
GoDown ==
  /\ up /\ faults < MaxFaults
  /\ up' = FALSE /\ faults' = faults + 1
  /\ queue' = <<>> /\ polls' = <<>> /\ tab' = "none"

ServerDies ==
  /\ GoDown
  /\ agent' = [a \in Agents |->
                 IF agent[a].at = "polling" THEN Idle ELSE agent[a]]
  /\ UNCHANGED <<store, browser>>

\* A request was journalled, but the answer never left.
DiesUnanswered(m) ==
  /\ GoDown
  /\ journal' = Journalled(m)
  /\ net'  = net \ {m}
  /\ page' = Answered(m, FALSE)
  /\ agent' = [a \in Agents |->
                 IF agent[a].at = "polling" THEN Idle ELSE agent[a]]
  /\ UNCHANGED <<source, applied>>

\* An exit event ends live mode: the agent stops the server, unless it is
\* gone before it gets there.
stopServer(a) ==
  /\ Holding(a, "exit")
  /\ \/ /\ GoDown
        /\ agent' = [b \in Agents |-> IF b = a \/ agent[b].at = "polling"
                                      THEN Idle ELSE agent[b]]
     \/ /\ ~up \/ faults = MaxFaults
        /\ agent' = [agent EXCEPT ![a] = Idle]
        /\ UNCHANGED <<up, faults, queue, polls, tab>>
  /\ UNCHANGED <<store, browser>>

\* The queue of a started server, from the sessions that are not over.
Restored ==
  SetToSeqs({s \in Ids : /\ journal[s].phase \notin Terminal
                         /\ journal[s].pending # None})

restorePendingEventsFromStore ==
  /\ ~up
  /\ up' = TRUE
  /\ \E q \in Restored :
       queue' = [i \in DOMAIN q |-> [id |-> q[i], leased |-> FALSE,
                                     type |-> journal[q[i]].pending]]
  /\ UNCHANGED <<polls, store, tab, browser, agent, faults>>

AgentDies(a) ==
  /\ faults < MaxFaults /\ agent[a] # Idle
  /\ faults' = faults + 1
  /\ agent' = [agent EXCEPT ![a] = Idle]
  /\ polls' = filter(polls, Agents \ {a})
  /\ UNCHANGED <<up, queue, store, tab, browser>>

-----------------------------------------------------------------------------
AgentWorks(a) ==
  \/ writeVariants(a)
  \/ doSteer(a)
  \/ augmentEventWithAcceptHandling(a)
  \/ carbonizeCleanup(a)
  \/ stopServer(a)

AgentStep(a) ==
  \/ handlePollGet(a) \/ AgentWorks(a) \/ handlePollPost(a)
  \/ replyLost(a) \/ completeOffline(a)

Next ==
  \/ LeaseExpires \/ Connect \/ Disconnect \/ ExitTimerFires
  \/ ServerDies \/ restorePendingEventsFromStore
  \/ \E s \in Ids :
       \/ handleGo(s) \/ variantsArrive(s)
       \/ handleAccept(s) \/ handleDiscard(s) \/ resumeSession(s)
  \/ \E m \in net : PostEvent(m) \/ RequestFails(m) \/ DiesUnanswered(m)
  \/ \E a \in Agents :
       AgentStep(a) \/ PollTimesOut(a) \/ AgentDies(a)

Spec == Init /\ [][Next]_vars

\* The poll loop keeps asking, an agent finishes what it holds and replies,
\* the server's lease timer fires, and somebody starts a stopped server.
Fairness ==
  /\ WF_vars(LeaseExpires)
  /\ WF_vars(restorePendingEventsFromStore)
  /\ \A a \in Agents : WF_vars(AgentStep(a))

FairSpec == Spec /\ Fairness

-----------------------------------------------------------------------------
(* What the server promises.                                               *)

\* The request is in the journal's slot or in the server's queue.
Kept(s, type) == journal[s].pending = type \/ Holds(queue, s, type)

Reports(a, s) == Reporting(a) /\ agent[a].id = s /\ agent'[a] # agent[a]

\* The three ways in which a request may go.
AnsweredItself(s, type) ==
  \E a \in Agents : Reports(a, s) /\ agent[a].of = type

TakenByAnother(s, type) ==
  \E a \in Agents : /\ Reports(a, s) /\ agent[a].of # type
                    /\ up => queue[firstOf(queue, s)].type = type

LostInMemory(s, type) == up /\ ~up' /\ journal'[s].pending # type

JournalledIsQueued ==
  up => \A s \in Ids : LET p == journal[s].pending
                       IN  p # None => Holds(queue, s, p)

GoesInOneOfThreeWays ==
  \A s \in Ids, type \in BrowserEvents :
    Kept(s, type) /\ ~Kept(s, type)' => \/ AnsweredItself(s, type)
                                       \/ TakenByAnother(s, type)
                                       \/ LostInMemory(s, type)

\* A request that is in a journal or in the queue goes in three ways only:
\* by the reply to itself; by the reply to another event of its session,
\* which finds it the first in the queue (live-server.mjs:910-919); or with
\* the queue, when the server dies after such a reply or a newer request has
\* emptied its slot on disk (live-session-store.mjs:179-187).  Neither a
\* restart nor a lease nor a second request loses any other.
RequestsAreKept == [][GoesInOneOfThreeWays]_vars

\* A session is recorded as over only with what was done to the source: as
\* completed when an accept was applied, as discarded when a discard was.
OverMeansApplied ==
  \A s \in Ids :
    /\ journal[s].phase = "completed" => "accept" \in applied[s]
    /\ journal[s].phase = "discarded" => "discard" \in applied[s]

\* What a journal waits for is in the queue of a running server, and no
\* agent waits at the server while an event could be handed to it: a lease
\* that expires and a request that arrives wake the oldest poll.  The
\* variables keep their types.
NoMissedWakeup ==
  /\ TypeOK /\ JournalledIsQueued
  /\ polls # <<>> => findAvailablePendingEvent(queue) = 0

\* No request waits for ever, however often its lease runs out, its agent
\* dies or the server goes down: again and again a session is without one
\* of each type.  A request that was kept has then been answered, or one of
\* the other two things has happened to it that RequestsAreKept names.
RequestsAreSettled ==
  \A s \in Ids, type \in BrowserEvents : []<>~Kept(s, type)
=============================================================================
