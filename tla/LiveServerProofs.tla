---------------------------- MODULE LiveServerProofs ----------------------------
(***************************************************************************)
(* Proofs about the helper server of live mode: LiveServer, for every set  *)
(* of sessions and of agents and every number of failures; and             *)
(* ManualEdits, for every page and all bounds.                             *)
(***************************************************************************)
EXTENDS LiveServer, ManualEdits, FiniteSetTheorems, SequenceTheorems,
        WellFoundedInduction, TLAPS

\* The functions have the domains they start with, and the requests of the
\* browser are events of sessions.
DomOK ==
  /\ agent = [a \in Agents |-> agent[a]]
  /\ journal = [s \in Ids |-> journal[s]]
  /\ applied = [s \in Ids |-> applied[s]]
  /\ net \subseteq [type : BrowserEvents, id : Ids]

\* An agent that is about to report a session's end has carried it out.
Earned(a) ==
  \A s \in Ids :
    agent[a].id = s /\ agent[a].at \in {"replying", "completing"} =>
      /\ agent[a].type \in {"complete", "carbonize"} => "accept" \in applied[s]
      /\ agent[a].type = "discarded" => "discard" \in applied[s]

AllEarned == \A a \in Agents : Earned(a)

\* The inductive invariant.
OInv == DomOK /\ AllEarned /\ OverMeansApplied

\* What has been applied stays so.
AppliedStays == \A s \in Ids : applied[s] \subseteq applied'[s]

-----------------------------------------------------------------------------
(* Frames.                                                                 *)

\* Agents that newly hold an event, or nothing, have earned all they say.
LEMMA EarnedStays ==
  ASSUME OInv, AppliedStays, NEW a \in Agents,
         \/ agent'[a] = agent[a]
         \/ agent'[a].at \in {"idle", "polling", "holding"}
  PROVE  Earned(a)'
  <1>1. CASE agent'[a] = agent[a]
    BY <1>1 DEF OInv, AllEarned, Earned, AppliedStays
  <1>2. CASE agent'[a].at \in {"idle", "polling", "holding"}
    BY <1>2 DEF Earned
  <1>3. QED
    BY <1>1, <1>2

\* A journal entry that ends no session.
LEMMA OverStays ==
  ASSUME OInv, AppliedStays,
         \A s \in Ids : \/ journal'[s] = journal[s]
                        \/ journal'[s].phase = "open"
  PROVE  OverMeansApplied'
  <1>1. ASSUME NEW s \in Ids
        PROVE  /\ journal'[s].phase = "completed" => "accept" \in applied'[s]
               /\ journal'[s].phase = "discarded" => "discard" \in applied'[s]
    <2>1. CASE journal'[s] = journal[s]
      BY <2>1 DEF OInv, OverMeansApplied, AppliedStays
    <2>2. CASE journal'[s].phase = "open"
      BY <2>2
    <2>3. QED
      BY <2>1, <2>2
  <1>2. QED
    BY <1>1 DEF OverMeansApplied

LEMMA SameApplied ==
  ASSUME OInv, UNCHANGED applied
  PROVE  AppliedStays /\ applied' = [s \in Ids |-> applied'[s]]
  BY DEF AppliedStays, OInv, DomOK

\* Serving a poll gives an agent an event and nothing else.
LEMMA FlushServes ==
  ASSUME NEW q, NEW ps, NEW ag, ag = [a \in Agents |-> ag[a]],
         flushPendingPolls(q, ps, ag)
  PROVE  /\ agent' = [a \in Agents |-> agent'[a]]
         /\ \A a \in Agents : \/ agent'[a] = ag[a]
                              \/ agent'[a].at = "holding"
  <1> DEFINE i == findAvailablePendingEvent(q)
  <1>1. CASE agent' = ag
    BY <1>1
  <1>2. CASE agent' = [ag EXCEPT ![Head(ps)] =
                         At("holding", q[i].id, q[i].type, None)]
    <2> DEFINE x == At("holding", q[i].id, q[i].type, None)
    <2>1. x.at = "holding"
      BY DEF At
    <2> HIDE DEF x
    <2>2. agent' = [ag EXCEPT ![Head(ps)] = x]
      BY <1>2 DEF x
    <2>3. QED
      BY <2>1, <2>2
  <1>3. QED
    BY <1>1, <1>2 DEF flushPendingPolls

\* A step that leaves the source, the journal and the requests alone.
LEMMA QuietStep ==
  ASSUME OInv, UNCHANGED <<journal, applied, net>>,
         agent' = [a \in Agents |-> agent'[a]],
         \A a \in Agents : \/ agent'[a] = agent[a]
                           \/ agent'[a].at \in {"idle", "polling", "holding"}
  PROVE  OInv'
  <1>1. AppliedStays
    BY SameApplied
  <1>2. AllEarned'
    BY <1>1, EarnedStays DEF AllEarned
  <1>3. OverMeansApplied'
    BY <1>1, OverStays
  <1>4. DomOK'
    BY DEF OInv, DomOK
  <1>5. QED
    BY <1>2, <1>3, <1>4 DEF OInv

-----------------------------------------------------------------------------
(* The browser and its requests.                                           *)

LEMMA BrowserStep ==
  ASSUME OInv, UNCHANGED <<journal, applied, agent>>,
         net' \subseteq [type : BrowserEvents, id : Ids]
  PROVE  OInv'
  <1>1. AppliedStays
    BY SameApplied
  <1>2. AllEarned'
    BY <1>1, EarnedStays DEF AllEarned
  <1>3. OverMeansApplied'
    BY <1>1, OverStays
  <1>4. DomOK'
    BY DEF OInv, DomOK
  <1>5. QED
    BY <1>2, <1>3, <1>4 DEF OInv

LEMMA MsgOf ==
  ASSUME NEW s \in Ids, NEW type \in BrowserEvents
  PROVE  Msg(type, s) \in [type : BrowserEvents, id : Ids]
  BY DEF Msg

LEMMA OverlayStep ==
  ASSUME OInv, NEW s \in Ids,
         \/ handleGo(s) \/ variantsArrive(s) \/ handleAccept(s)
         \/ handleDiscard(s) \/ resumeSession(s)
  PROVE  OInv'
  <1>1. UNCHANGED <<journal, applied, agent>>
    BY DEF handleGo, variantsArrive, handleAccept, handleDiscard,
           resumeSession, store
  <1>2. \A t \in {"generate", "steer", "accept", "discard"} :
          Msg(t, s) \in [type : BrowserEvents, id : Ids]
    BY MsgOf DEF BrowserEvents
  <1>3. net' \subseteq [type : BrowserEvents, id : Ids]
    <2>1. \/ net' = net
          \/ \E t \in {"generate", "steer", "accept", "discard"} :
               net' = net \cup {Msg(t, s)}
      BY DEF handleGo, variantsArrive, handleAccept, handleDiscard,
             resumeSession
    <2>2. QED
      BY <1>2, <2>1 DEF OInv, DomOK
  <1>4. QED
    BY <1>1, <1>3, BrowserStep

\* Whatever a session was, a request of the browser opens it.
LEMMA JournalOpens ==
  ASSUME OInv, NEW m \in net, journal' = Journalled(m)
  PROVE  /\ journal' = [s \in Ids |-> journal'[s]]
         /\ \A s \in Ids : \/ journal'[s] = journal[s]
                           \/ journal'[s].phase = "open"
  <1>1. m.type \in BrowserEvents
    BY DEF OInv, DomOK
  <1>2. applyEvent(journal[m.id], m.type).phase = "open"
    BY <1>1 DEF applyEvent, BrowserEvents
  <1> DEFINE e == applyEvent(journal[m.id], m.type)
  <1>3. journal' = [journal EXCEPT ![m.id] = e]
    BY DEF Journalled
  <1> HIDE DEF e
  <1>4. QED
    BY <1>2, <1>3 DEF OInv, DomOK, e

\* A step that journals a request of the browser.
LEMMA JournalStep ==
  ASSUME OInv, NEW m \in net, journal' = Journalled(m), net' = net \ {m},
         UNCHANGED applied, agent' = [a \in Agents |-> agent'[a]],
         \A a \in Agents : \/ agent'[a] = agent[a]
                           \/ agent'[a].at \in {"idle", "polling", "holding"}
  PROVE  OInv'
  <1>1. AppliedStays
    BY SameApplied
  <1>2. AllEarned'
    BY <1>1, EarnedStays DEF AllEarned
  <1>3. OverMeansApplied'
    BY <1>1, JournalOpens, OverStays
  <1>4. DomOK'
    BY JournalOpens, SameApplied DEF OInv, DomOK
  <1>5. QED
    BY <1>2, <1>3, <1>4 DEF OInv

\* The agents when the server goes down.
LEMMA PollsEnd ==
  ASSUME OInv, agent' = [a \in Agents |->
                 IF agent[a].at = "polling" THEN Idle ELSE agent[a]]
  PROVE  /\ agent' = [a \in Agents |-> agent'[a]]
         /\ \A a \in Agents : \/ agent'[a] = agent[a]
                              \/ agent'[a].at \in {"idle", "polling", "holding"}
  <1>1. Idle.at = "idle"
    BY DEF Idle
  <1>2. QED
    BY <1>1

LEMMA RequestStep ==
  ASSUME OInv, NEW m \in net,
         PostEvent(m) \/ RequestFails(m) \/ DiesUnanswered(m)
  PROVE  OInv'
  <1>1. CASE PostEvent(m)
    <2>1. agent = [a \in Agents |-> agent[a]]
      BY DEF OInv, DomOK
    <2>2. /\ agent' = [a \in Agents |-> agent'[a]]
          /\ \A a \in Agents : \/ agent'[a] = agent[a]
                               \/ agent'[a].at = "holding"
      BY <1>1, <2>1, FlushServes DEF PostEvent
    <2>3. QED
      BY <1>1, <2>2, JournalStep DEF PostEvent
  <1>2. CASE RequestFails(m)
    BY <1>2, BrowserStep DEF RequestFails, store, OInv, DomOK
  <1>3. CASE DiesUnanswered(m)
    BY <1>3, PollsEnd, JournalStep DEF DiesUnanswered
  <1>4. QED
    BY <1>1, <1>2, <1>3

-----------------------------------------------------------------------------
(* The server.                                                             *)

LEMMA ServerStep ==
  ASSUME OInv, \/ LeaseExpires \/ Connect \/ Disconnect \/ ExitTimerFires
               \/ ServerDies \/ restorePendingEventsFromStore
  PROVE  OInv'
  <1>1. agent = [a \in Agents |-> agent[a]]
    BY DEF OInv, DomOK
  <1>2. CASE LeaseExpires
    <2>1. PICK i \in DOMAIN queue :
            flushPendingPolls([queue EXCEPT ![i].leased = FALSE], polls, agent)
      BY <1>2 DEF LeaseExpires
    <2>2. QED
      BY <1>1, <1>2, <2>1, FlushServes, QuietStep
         DEF LeaseExpires, store, browser
  <1>3. CASE Connect \/ Disconnect \/ restorePendingEventsFromStore
    BY <1>1, <1>3, QuietStep
       DEF Connect, Disconnect, restorePendingEventsFromStore, store, browser
  <1>4. CASE ExitTimerFires
    <2>1. flushPendingPolls(enqueueEvent(queue, NoId, "exit"), polls, agent)
      BY <1>4 DEF ExitTimerFires
    <2>2. QED
      BY <1>1, <1>4, <2>1, FlushServes, QuietStep
         DEF ExitTimerFires, store, browser
  <1>5. CASE ServerDies
    BY <1>5, PollsEnd, QuietStep DEF ServerDies, store, browser
  <1>6. QED
    BY <1>2, <1>3, <1>4, <1>5

-----------------------------------------------------------------------------
(* The agents.                                                             *)

\* One agent takes another step; the journal and the source stay.
LEMMA OneMoves ==
  ASSUME OInv, NEW a \in Agents, NEW x, agent' = [agent EXCEPT ![a] = x],
         UNCHANGED <<journal, applied, net>>,
         Earned(a)'
  PROVE  OInv'
  <1>1. AppliedStays
    BY SameApplied
  <1>2. \A b \in Agents \ {a} : agent'[b] = agent[b]
    BY DEF OInv, DomOK
  <1>3. AllEarned'
    BY <1>1, <1>2, EarnedStays DEF AllEarned
  <1>4. OverMeansApplied'
    BY <1>1, OverStays
  <1>5. DomOK'
    BY DEF OInv, DomOK
  <1>6. QED
    BY <1>3, <1>4, <1>5 DEF OInv

LEMMA Moved ==
  ASSUME OInv, NEW a \in Agents, NEW x, agent' = [agent EXCEPT ![a] = x]
  PROVE  agent'[a] = x
  BY DEF OInv, DomOK

\* An agent that comes to hold nothing, or an event, has nothing to earn.
LEMMA OneRests ==
  ASSUME OInv, NEW a \in Agents, NEW x, agent' = [agent EXCEPT ![a] = x],
         x.at \in {"idle", "polling", "holding"},
         UNCHANGED <<journal, applied, net>>
  PROVE  OInv'
  BY Moved, OneMoves DEF Earned

LEMMA PollStep ==
  ASSUME OInv, NEW a \in Agents,
         handlePollGet(a) \/ PollTimesOut(a) \/ AgentDies(a)
  PROVE  OInv'
  <1>1. UNCHANGED <<journal, applied, net>>
    BY DEF handlePollGet, PollTimesOut, AgentDies, store, browser
  <1>2. \E x : agent' = [agent EXCEPT ![a] = x]
               /\ x.at \in {"idle", "polling", "holding"}
    <2>1. Idle.at = "idle" /\ At("polling", NoId, None, None).at = "polling"
      BY DEF Idle, At
    <2>2. \A id, type : At("holding", id, type, None).at = "holding"
      BY DEF At
    <2>3. QED
      BY <2>1, <2>2 DEF handlePollGet, PollTimesOut, AgentDies
  <1>3. QED
    BY <1>1, <1>2, OneRests

LEMMA ReplyingIs ==
  ASSUME NEW id, NEW of, NEW type
  PROVE  /\ At("replying", id, of, type).at = "replying"
         /\ At("replying", id, of, type).id = id
         /\ At("replying", id, of, type).type = type
  BY DEF At

\* A reply that ends nothing is always earned.
LEMMA OneReplies ==
  ASSUME OInv, NEW a \in Agents, NEW r, Report(a, r),
         r \notin {"complete", "carbonize", "discarded"},
         UNCHANGED <<journal, applied, net>>
  PROVE  OInv'
  <1> DEFINE x == At("replying", agent[a].id, agent[a].of, r)
  <1>1. x.at = "replying" /\ x.type = r
    BY ReplyingIs
  <1> HIDE DEF x
  <1>2. agent' = [agent EXCEPT ![a] = x]
    BY DEF x, Report, OInv, DomOK
  <1>3. agent'[a] = x
    BY <1>2, Moved
  <1>4. Earned(a)'
    BY <1>1, <1>3 DEF Earned
  <1>5. QED
    BY <1>2, <1>4, OneMoves

LEMMA WorkStep ==
  ASSUME OInv, NEW a \in Agents, writeVariants(a) \/ doSteer(a)
  PROVE  OInv'
  <1>1. UNCHANGED <<journal, applied, net>>
    BY DEF writeVariants, doSteer, store, browser
  <1>2. \E r \in {"done", "error", "steer_done"} : Report(a, r)
    BY DEF writeVariants, doSteer
  <1>3. QED
    BY <1>1, <1>2, OneReplies

LEMMA StopStep ==
  ASSUME OInv, NEW a \in Agents, stopServer(a)
  PROVE  OInv'
  <1>1. UNCHANGED <<journal, applied, net>>
    BY DEF stopServer, store, browser
  <1>2. Idle.at = "idle"
    BY DEF Idle
  <1>3. CASE agent' = [agent EXCEPT ![a] = Idle]
    BY <1>1, <1>2, <1>3, OneRests
  <1>4. CASE agent' = [b \in Agents |-> IF b = a \/ agent[b].at = "polling"
                                        THEN Idle ELSE agent[b]]
    BY <1>1, <1>2, <1>4, QuietStep
  <1>5. QED
    BY <1>3, <1>4 DEF stopServer

\* live-accept: what it reports as done it has done.
LEMMA AcceptStep ==
  ASSUME OInv, NEW a \in Agents, augmentEventWithAcceptHandling(a)
  PROVE  OInv'
  <1> DEFINE id == agent[a].id
             type == agent[a].of
  <1>1. type \in {"accept", "discard"} /\ UNCHANGED <<journal, net>>
    BY DEF augmentEventWithAcceptHandling, browser
  <1>2. PICK result \in Results(id) :
          /\ Report(a, completionTypeForAcceptResult(type, result))
          /\ IF result.handled
               THEN applied' = [applied EXCEPT ![id] = @ \cup {type}]
               ELSE UNCHANGED applied
    BY DEF augmentEventWithAcceptHandling
  <1> DEFINE r == completionTypeForAcceptResult(type, result)
             x == At("replying", id, type, r)
  <1>3. x.at = "replying" /\ x.id = id /\ x.type = r
    BY ReplyingIs
  <1>4. /\ r \in {"complete", "carbonize"} =>
             result.handled /\ type = "accept"
        /\ r = "discarded" => result.handled /\ type = "discard"
    BY <1>1 DEF completionTypeForAcceptResult
  <1> HIDE DEF r, x
  <1>5. agent' = [agent EXCEPT ![a] = x]
    BY <1>2 DEF r, x, Report, OInv, DomOK
  <1>6. agent'[a] = x /\ \A b \in Agents \ {a} : agent'[b] = agent[b]
    BY <1>5, Moved DEF OInv, DomOK
  <1> HIDE DEF id, type
  <1>7. AppliedStays /\ applied' = [s \in Ids |-> applied'[s]]
    <2>1. CASE UNCHANGED applied
      BY <2>1, SameApplied
    <2>2. CASE applied' = [applied EXCEPT ![id] = @ \cup {type}]
      BY <2>2 DEF OInv, DomOK, AppliedStays
    <2>3. QED
      BY <1>2, <2>1, <2>2
  <1>8. ASSUME result.handled, NEW s \in Ids, id = s PROVE type \in applied'[s]
    BY <1>2, <1>8 DEF OInv, DomOK
  <1>9. Earned(a)'
    BY <1>3, <1>4, <1>6, <1>8 DEF Earned
  <1>10. AllEarned'
    BY <1>6, <1>7, <1>9, EarnedStays DEF AllEarned
  <1>11. OverMeansApplied'
    BY <1>1, <1>7, OverStays
  <1>12. DomOK'
    BY <1>1, <1>5, <1>7 DEF OInv, DomOK
  <1>13. QED
    BY <1>10, <1>11, <1>12 DEF OInv

LEMMA CleanupStep ==
  ASSUME OInv, NEW a \in Agents, carbonizeCleanup(a)
  PROVE  OInv'
  BY BrowserStep DEF carbonizeCleanup, browser, OInv, DomOK

\* After its reply an agent is idle, or has to complete what was accepted.
LEMMA After ==
  ASSUME OInv, NEW a \in Agents, Reporting(a), UNCHANGED applied,
         \/ agent'[a] \in {AfterReply(a), Idle}
         \/ agent'[a].at = "holding"
  PROVE  Earned(a)'
  <1>1. Idle.at = "idle"
    BY DEF Idle
  <1>2. Earned(a) /\ agent[a].at \in {"replying", "completing"}
    BY DEF OInv, AllEarned, Reporting
  <1>3. CASE /\ agent'[a] = ToComplete(a, "complete")
             /\ agent[a].type = "carbonize"
    <2>1. agent'[a].type = "complete" /\ agent'[a].id = agent[a].id
      BY <1>3 DEF ToComplete, At
    <2>2. QED
      BY <1>2, <1>3, <2>1 DEF Earned
  <1>4. CASE agent'[a] = Idle
    BY <1>1, <1>4 DEF Earned
  <1>5. CASE agent'[a].at = "holding"
    BY <1>5 DEF Earned
  <1>6. QED
    BY <1>3, <1>4, <1>5 DEF AfterReply

\* An agent whose reply is lost completes only what it has carried out.
LEMMA LostStep ==
  ASSUME OInv, NEW a \in Agents, replyLost(a)
  PROVE  OInv'
  <1>1. agent[a].at = "replying" /\ UNCHANGED <<journal, applied, net>>
    BY DEF replyLost, store, browser
  <1>2. Earned(a)
    BY DEF OInv, AllEarned
  <1> DEFINE x == CASE agent[a].type \in {"complete", "carbonize"} ->
                         ToComplete(a, "complete")
                    [] agent[a].type = "discarded" ->
                         ToComplete(a, "discarded")
                    [] OTHER -> Idle
  <1>3. \/ /\ x.id = agent[a].id /\ x.type = "complete"
           /\ agent[a].type \in {"complete", "carbonize"}
        \/ /\ x.id = agent[a].id /\ x.type = "discarded"
           /\ agent[a].type = "discarded"
        \/ x.at = "idle"
    BY DEF ToComplete, At, Idle
  <1>4. agent' = [agent EXCEPT ![a] = x]
    BY DEF replyLost
  <1> HIDE DEF x
  <1>5. agent'[a] = x
    BY <1>4, Moved
  <1>6. Earned(a)'
    BY <1>1, <1>2, <1>3, <1>5 DEF Earned
  <1>7. QED
    BY <1>1, <1>4, <1>6, OneMoves

\* A reply in the journal ends the session only as the agent has earned it.
LEMMA ReplyEnds ==
  ASSUME OInv, NEW a \in Agents, Reporting(a), UNCHANGED applied,
         \/ UNCHANGED journal
         \/ journal' = [journal EXCEPT ![agent[a].id] =
                          applyEvent(@, ReplyEvent(agent[a].type))]
  PROVE  OverMeansApplied' /\ journal' = [s \in Ids |-> journal'[s]]
  <1>1. CASE UNCHANGED journal
    BY <1>1, SameApplied, OverStays DEF OInv, DomOK
  <1>2. CASE journal' = [journal EXCEPT ![agent[a].id] =
                           applyEvent(@, ReplyEvent(agent[a].type))]
    <2> DEFINE id == agent[a].id
               e == applyEvent(journal[id], ReplyEvent(agent[a].type))
    <2>1. /\ e.phase = "completed" => agent[a].type = "complete"
          /\ e.phase = "discarded" => agent[a].type = "discarded"
      BY DEF applyEvent, ReplyEvent
    <2> HIDE DEF e
    <2>2. /\ journal' = [journal EXCEPT ![id] = e]
          /\ journal' = [s \in Ids |-> journal'[s]]
      BY <1>2 DEF e, OInv, DomOK
    <2>3. ASSUME NEW s \in Ids
          PROVE  /\ journal'[s].phase = "completed" => "accept" \in applied'[s]
                 /\ journal'[s].phase = "discarded" => "discard" \in applied'[s]
      <3>1. CASE s = id
        <4>1. journal'[s] = e
          BY <2>2, <3>1 DEF OInv, DomOK
        <4>2. Earned(a) /\ agent[a].at \in {"replying", "completing"}
          BY DEF OInv, AllEarned, Reporting
        <4>3. QED
          BY <2>1, <3>1, <4>1, <4>2 DEF Earned
      <3>2. CASE s # id
        <4>1. journal'[s] = journal[s]
          BY <2>2, <3>2 DEF OInv, DomOK
        <4>2. QED
          BY <4>1 DEF OInv, OverMeansApplied
      <3>3. QED
        BY <3>1, <3>2
    <2>4. QED
      BY <2>2, <2>3 DEF OverMeansApplied
  <1>3. QED
    BY <1>1, <1>2

LEMMA ReplyStep ==
  ASSUME OInv, NEW a \in Agents, handlePollPost(a) \/ completeOffline(a)
  PROVE  OInv'
  <1>1. Reporting(a) /\ UNCHANGED <<applied, net>>
    BY DEF handlePollPost, completeOffline, browser, Reporting
  <1>2. \/ UNCHANGED journal
        \/ journal' = [journal EXCEPT ![agent[a].id] =
                         applyEvent(@, ReplyEvent(agent[a].type))]
    BY DEF handlePollPost, completeOffline
  <1>3. PICK x \in {AfterReply(a), Idle} :
          LET ag == [agent EXCEPT ![a] = x]
          IN  \/ agent' = ag
              \/ flushPendingPolls(acknowledgePendingEvent(queue, agent[a].id),
                                   polls, ag)
    BY DEF handlePollPost, completeOffline
  <1> DEFINE ag == [agent EXCEPT ![a] = x]
  <1>4. /\ ag = [b \in Agents |-> ag[b]]
        /\ ag[a] = x /\ \A b \in Agents \ {a} : ag[b] = agent[b]
    BY DEF OInv, DomOK
  <1> HIDE DEF ag
  <1>5. /\ agent' = [b \in Agents |-> agent'[b]]
        /\ \A b \in Agents : agent'[b] = ag[b] \/ agent'[b].at = "holding"
    BY <1>3, <1>4, FlushServes DEF ag
  <1>6. Earned(a)'
    BY <1>1, <1>4, <1>5, After
  <1>7. AllEarned'
    <2>1. ASSUME NEW b \in Agents \ {a} PROVE Earned(b)'
      BY <1>1, <1>4, <1>5, SameApplied, EarnedStays
    <2>2. QED
      BY <1>6, <2>1 DEF AllEarned
  <1>8. DomOK' /\ OverMeansApplied'
    BY <1>1, <1>2, <1>5, ReplyEnds DEF OInv, DomOK
  <1>9. QED
    BY <1>7, <1>8 DEF OInv

-----------------------------------------------------------------------------
(* All of them.                                                            *)

LEMMA OInvInit == Init => OInv
  <1> SUFFICES ASSUME Init PROVE OInv
    OBVIOUS
  <1>1. DomOK
    BY DEF Init, DomOK
  <1>2. Idle.at = "idle" /\ baseSnapshot.phase = "open"
    BY DEF Idle, baseSnapshot
  <1>3. AllEarned
    BY <1>2 DEF Init, AllEarned, Earned
  <1>4. OverMeansApplied
    BY <1>2 DEF Init, OverMeansApplied
  <1>5. QED
    BY <1>1, <1>3, <1>4 DEF OInv

LEMMA OInvStep == OInv /\ [Next]_vars => OInv'
  <1> SUFFICES ASSUME OInv, [Next]_vars PROVE OInv'
    OBVIOUS
  <1>1. CASE UNCHANGED vars
    BY <1>1, BrowserStep DEF vars, store, browser, OInv, DomOK
  <1>2. ASSUME NEW a \in Agents,
               AgentStep(a) \/ PollTimesOut(a) \/ AgentDies(a)
        PROVE  OInv'
    BY <1>2, PollStep, WorkStep, StopStep, AcceptStep, CleanupStep, ReplyStep,
       LostStep
       DEF AgentStep, AgentWorks
  <1>3. QED
    BY <1>1, <1>2, ServerStep, OverlayStep, RequestStep DEF Next

LEMMA AlwaysOInv == Spec => []OInv
  BY OInvInit, OInvStep, PTL DEF Spec

(* A session is journalled as over only with what was done to the source,  *)
(* however leases expire, agents and the server die and replies come late  *)
(* (live-poll.mjs, live-completion.mjs, live-server.mjs).                  *)
THEOREM EndsAreEarned == Spec => []OverMeansApplied
  <1>1. OInv => OverMeansApplied
    BY DEF OInv
  <1>2. QED
    BY <1>1, AlwaysOInv, PTL
-----------------------------------------------------------------------------
(* The operators on the queue.                                             *)

\* A set of numbers that has 0 and all successors of its own has them all.
LEMMA SetInduction ==
  ASSUME NEW S \in SUBSET Nat, 0 \in S, \A n \in S : n+1 \in S
  PROVE  S = Nat
  <1>1. SUFFICES ASSUME Nat \ S # {} PROVE FALSE
    OBVIOUS
  <1> DEFINE R == OpToRel(<, Nat)
  <1>2. IsWellFoundedOn(R, Nat)
    BY NatLessThanWellFounded
  <1> HIDE DEF R
  <1>3. PICK x \in Nat \ S : \A y \in Nat \ S : <<y, x>> \notin R
    BY ONLY <1>1, <1>2, WFMin, Nat \ S \subseteq Nat
  <1>4. x # 0 /\ x-1 \in Nat /\ x - 1 \notin S
    BY <1>3
  <1>5. <<x-1,x>> \in R
    BY <1>4, <1>3 DEF R, OpToRel
  <1>6. QED
    BY <1>3, <1>4, <1>5

\* g[i] is what filter keeps of the first i elements.
Prefix(s, K, n, g) ==
  g = [i \in 0 .. n |->
        IF i = 0 THEN <<>>
        ELSE IF s[i] \in K THEN Append(g[i-1], s[i]) ELSE g[i-1]]

LEMMA PrefixExists ==
  ASSUME NEW s, NEW K
  PROVE  \A n \in Nat : \E g : Prefix(s, K, n, g)
  <1> DEFINE S == {n \in Nat : \E g : Prefix(s, K, n, g)}
  <1>1. 0 \in S
    <2> DEFINE g == [i \in 0 .. 0 |-> <<>>]
    <2>1. Prefix(s, K, 0, g)
      BY DEF Prefix
    <2>2. QED
      BY <2>1
  <1>2. ASSUME NEW n \in S PROVE n+1 \in S
    <2>1. PICK g : Prefix(s, K, n, g)
      OBVIOUS
    <2> DEFINE w == IF s[n+1] \in K THEN Append(g[n], s[n+1]) ELSE g[n]
               h == [i \in 0 .. n+1 |-> IF i = n+1 THEN w ELSE g[i]]
    <2>2. \A i \in 0 .. n+1 : h[i] =
            IF i = 0 THEN <<>>
            ELSE IF s[i] \in K THEN Append(h[i-1], s[i]) ELSE h[i-1]
      <3> TAKE i \in 0 .. n+1
      <3>1. CASE i = n+1
        <4>1. h[n] = g[n] /\ n + 1 # 0 /\ (n+1)-1 = n
          OBVIOUS
        <4>2. h[n+1] = w
          OBVIOUS
        <4> HIDE DEF h
        <4>3. QED
          BY <3>1, <4>1, <4>2
      <3>2. CASE i # n+1 /\ i # 0
        <4>1. i \in 0 .. n /\ i-1 \in 0 .. n /\ i - 1 # n + 1
          BY <3>2
        <4>2. h[i] = g[i] /\ h[i-1] = g[i-1]
          BY <4>1, <3>2
        <4>3. g[i] = IF s[i] \in K THEN Append(g[i-1], s[i]) ELSE g[i-1]
          BY <2>1, <3>2, <4>1 DEF Prefix
        <4> HIDE DEF h
        <4>4. QED
          BY <3>2, <4>2, <4>3
      <3>3. CASE i = 0
        <4>1. h[0] = g[0] /\ g[0] = <<>>
          BY <2>1 DEF Prefix
        <4> HIDE DEF h
        <4>2. QED
          BY <3>3, <4>1
      <3>4. QED
        BY <3>1, <3>2, <3>3
    <2>3. h = [i \in 0 .. n+1 |->
            IF i = 0 THEN <<>>
            ELSE IF s[i] \in K THEN Append(h[i-1], s[i]) ELSE h[i-1]]
      <3>1. h = [i \in 0 .. n+1 |-> h[i]]
        OBVIOUS
      <3> HIDE DEF h
      <3>2. QED
        BY <2>2, <3>1
    <2> HIDE DEF h
    <2>4. QED
      BY <2>3 DEF Prefix
  <1>3. S = Nat
    <2> HIDE DEF S
    <2>1. S \subseteq Nat
      BY DEF S
    <2>2. QED
      BY <1>1, <1>2, <2>1, SetInduction
  <1>4. QED
    BY <1>3

LEMMA FilterPrefix ==
  ASSUME NEW s, NEW K, Len(s) \in Nat
  PROVE  \E g : Prefix(s, K, Len(s), g) /\ filter(s, K) = g[Len(s)]
  <1> DEFINE g == CHOOSE g : Prefix(s, K, Len(s), g)
  <1>1. Prefix(s, K, Len(s), g)
    BY PrefixExists
  <1>2. filter(s, K) = g[Len(s)]
    BY DEF filter, Prefix
  <1> HIDE DEF g
  <1>3. QED
    BY <1>1, <1>2

LEMMA PrefixNext ==
  ASSUME NEW s, NEW K, NEW n \in Nat, NEW g, Prefix(s, K, n, g), NEW i \in 1 .. n
  PROVE  g[i] = IF s[i] \in K THEN Append(g[i-1], s[i]) ELSE g[i-1]
  <1>1. i \in 0 .. n /\ i # 0
    OBVIOUS
  <1>2. QED
    BY <1>1 DEF Prefix

\* What filter keeps are the elements in K, all of them.
LEMMA FilterFacts ==
  ASSUME NEW T, NEW s \in Seq(T), NEW K, NEW r, r = filter(s, K)
  PROVE  /\ r \in Seq(T)
         /\ \A i \in DOMAIN r : r[i] \in K /\ \E j \in DOMAIN s : r[i] = s[j]
         /\ \A j \in DOMAIN s : s[j] \in K => \E i \in DOMAIN r : r[i] = s[j]
  <1>1. Len(s) \in Nat /\ DOMAIN s = 1 .. Len(s) /\ \A j \in DOMAIN s : s[j] \in T
    BY LenProperties, ElementOfSeq
  <1>2. PICK g : Prefix(s, K, Len(s), g) /\ r = g[Len(s)]
    BY <1>1, FilterPrefix
  <1> DEFINE Good(n) ==
               /\ g[n] \in Seq(T)
               /\ \A i \in DOMAIN g[n] :
                    g[n][i] \in K /\ \E j \in 1 .. n : g[n][i] = s[j]
               /\ \A j \in 1 .. n : s[j] \in K =>
                    \E i \in DOMAIN g[n] : g[n][i] = s[j]
             S == {n \in Nat : n <= Len(s) => Good(n)}
  <1>3. 0 \in S
    <2>1. g[0] = <<>>
      BY <1>1, <1>2 DEF Prefix
    <2>2. Good(0)
      BY <2>1
    <2>3. QED
      BY <2>2
  <1>4. ASSUME NEW n \in S PROVE n+1 \in S
    <2>1. SUFFICES ASSUME n + 1 <= Len(s) PROVE Good(n+1)
      OBVIOUS
    <2>2. n \in Nat /\ Good(n) /\ n + 1 \in DOMAIN s /\ s[n+1] \in T
      BY <1>1, <2>1
    <2>3. g[n+1] = IF s[n+1] \in K THEN Append(g[n], s[n+1]) ELSE g[n]
      <3> DEFINE k == n+1
      <3>1. k \in 1 .. Len(s) /\ k-1 = n
        BY <1>1, <2>1, <2>2
      <3> HIDE DEF k
      <3>2. g[k] = IF s[k] \in K THEN Append(g[k-1], s[k]) ELSE g[k-1]
        BY <1>1, <1>2, <3>1, PrefixNext
      <3>3. QED
        BY <3>1, <3>2 DEF k
    <2>4. CASE s[n+1] \notin K
      <3>1. g[n+1] = g[n] /\ \A j \in 1 .. n+1 : j \in 1 .. n \/ j = n+1
        BY <2>2, <2>3, <2>4
      <3>2. \A j \in 1 .. n : j \in 1 .. n+1
        BY <2>2
      <3>3. QED
        BY <2>2, <2>4, <3>1, <3>2
    <2>5. CASE s[n+1] \in K
      <3> DEFINE p == g[n]
                 q == g[n+1]
                 x == s[n+1]
      <3>1. q = Append(p, x) /\ p \in Seq(T) /\ x \in T
        BY <2>2, <2>3, <2>5
      <3>2. /\ q \in Seq(T) /\ Len(q) = Len(p)+1 /\ q[Len(p)+1] = x
            /\ \A i \in 1 .. Len(p) : q[i] = p[i]
            /\ Len(p) \in Nat /\ DOMAIN p = 1 .. Len(p)
            /\ DOMAIN q = 1 .. Len(p)+1
        BY <3>1, AppendProperties, LenProperties
      <3>3. /\ \A i \in DOMAIN p : p[i] \in K /\ \E j \in 1 .. n : p[i] = s[j]
            /\ \A j \in 1 .. n : s[j] \in K => \E i \in DOMAIN p : p[i] = s[j]
        BY <2>2
      <3> HIDE DEF p, q
      <3>4. \A i \in DOMAIN q : i \in DOMAIN p \/ (i = Len(p)+1 /\ q[i] = x)
        BY <3>2
      <3>5. \A i \in DOMAIN p : i \in DOMAIN q /\ q[i] = p[i]
        BY <3>2
      <3>6. \A j \in 1 .. n : j \in 1 .. n+1
        BY <2>2
      <3>7. n+1 \in 1 .. n+1 /\ Len(p)+1 \in DOMAIN q
        BY <2>2, <3>2
      <3>8. \A i \in DOMAIN q :
              q[i] \in K /\ \E j \in 1 .. n+1 : q[i] = s[j]
        BY <2>5, <3>3, <3>4, <3>5, <3>6, <3>7
      <3>9. \A j \in 1 .. n+1 : j \in 1 .. n \/ j = n+1
        BY <2>2
      <3>10. \A j \in 1 .. n+1 : s[j] \in K => \E i \in DOMAIN q : q[i] = s[j]
        BY <3>2, <3>3, <3>5, <3>7, <3>9
      <3>11. QED
        BY <3>2, <3>8, <3>10 DEF p, q
    <2>6. QED
      BY <2>4, <2>5
  <1>5. S = Nat
    <2> HIDE DEF S
    <2>1. S \subseteq Nat
      BY DEF S
    <2>2. QED
      BY <1>3, <1>4, <2>1, SetInduction
  <1>6. Good(Len(s))
    <2> HIDE DEF Good
    <2>1. \A n \in Nat : n <= Len(s) => Good(n)
      BY <1>5
    <2>2. QED
      BY <1>1, <2>1
  <1>7. QED
    BY <1>1, <1>2, <1>6

\* A set of numbers that is not empty has a smallest one.
LEMMA MinFacts ==
  ASSUME NEW S \in SUBSET Nat, S # {}
  PROVE  Min(S) \in S
  <1> DEFINE R == OpToRel(<, Nat)
  <1>1. IsWellFoundedOn(R, Nat)
    BY NatLessThanWellFounded
  <1> HIDE DEF R
  <1>2. PICK x \in S : \A y \in S : <<y, x>> \notin R
    BY ONLY <1>1, WFMin, S \in SUBSET Nat, S # {}
  <1>3. ASSUME NEW y \in S PROVE x =< y
    <2>1. SUFFICES ASSUME y < x PROVE FALSE
      OBVIOUS
    <2>2. <<y, x>> \in R
      BY <2>1 DEF R, OpToRel
    <2>3. QED
      BY <1>2, <2>2
  <1>4. QED
    BY <1>3 DEF Min

\* What is available is an event nobody holds a lease on.
LEMMA AvailableFacts ==
  ASSUME NEW q \in Seq(QueuedEvents), NEW i, i = findAvailablePendingEvent(q)
  PROVE  \/ i = 0 /\ \A k \in DOMAIN q : q[k].leased
         \/ i \in DOMAIN q /\ ~q[i].leased /\ i # 0
  <1> DEFINE I == {k \in 1 .. Len(q) : ~q[k].leased}
  <1>1. Len(q) \in Nat /\ DOMAIN q = 1 .. Len(q)
    BY LenProperties
  <1>2. i = IF I # {} THEN Min(I) ELSE 0
    BY DEF findAvailablePendingEvent, SelectInSeq
  <1>3. I \in SUBSET Nat
    BY <1>1
  <1>4. I # {} => Min(I) \in I
    BY <1>3, MinFacts
  <1>5. QED
    BY <1>1, <1>2, <1>4

LEMMA AcknowledgeIndex ==
  ASSUME NEW q \in Seq(QueuedEvents), NEW id
  PROVE  \/ /\ acknowledgePendingEvent(q, id) = q
            /\ ~\E k \in DOMAIN q : q[k].id = id
         \/ LET i == firstOf(q, id)
            IN  /\ i \in DOMAIN q /\ q[i].id = id
                /\ acknowledgePendingEvent(q, id) = RemoveAt(q, i)
  <1> DEFINE I == {k \in 1 .. Len(q) : q[k].id = id}
             i == IF I # {} THEN Min(I) ELSE 0
  <1>1. Len(q) \in Nat /\ DOMAIN q = 1 .. Len(q)
    BY LenProperties
  <1>2. /\ acknowledgePendingEvent(q, id) = IF i = 0 THEN q ELSE RemoveAt(q, i)
        /\ firstOf(q, id) = i
    BY DEF acknowledgePendingEvent, firstOf, SelectInSeq
  <1>3. I \in SUBSET Nat
    BY <1>1
  <1>4. CASE I # {}
    <2>1. i \in I
      BY <1>3, <1>4, MinFacts
    <2>2. i \in DOMAIN q /\ q[i].id = id /\ i # 0
      BY <1>1, <2>1
    <2> HIDE DEF i
    <2>3. QED
      BY <1>2, <2>2
  <1>5. CASE I = {}
    BY <1>1, <1>2, <1>5
  <1>6. QED
    BY <1>4, <1>5

\* Removing one event leaves the others.
LEMMA RemoveFacts ==
  ASSUME NEW T, NEW q \in Seq(T), NEW i \in DOMAIN q, NEW r, r = RemoveAt(q, i)
  PROVE  /\ r \in Seq(T)
         /\ \A k \in DOMAIN r : \E j \in DOMAIN q \ {i} : r[k] = q[j]
         /\ \A j \in DOMAIN q \ {i} : \E k \in DOMAIN r : r[k] = q[j]
  <1>1. Len(q) \in Nat /\ DOMAIN q = 1 .. Len(q)
    BY LenProperties
  <1> DEFINE u == SubSeq(q, 1, i-1)
             w == SubSeq(q, i+1, Len(q))
  <1>2. i \in 1 .. Len(q) /\ i-1 \in Nat /\ i+1 \in Nat
    BY <1>1
  <1>3. /\ u \in Seq(T) /\ Len(u) = i-1 /\ \A k \in 1 .. i-1 : u[k] = q[k]
    BY <1>1, <1>2, SubSeqProperties
  <1>4. /\ w \in Seq(T) /\ Len(w) = Len(q)-i
        /\ \A k \in 1 .. Len(q)-i : w[k] = q[i+k]
    BY <1>1, <1>2, SubSeqProperties
  <1>5. r = u \o w
    BY DEF RemoveAt
  <1> HIDE DEF u, w
  <1>6. /\ r \in Seq(T) /\ Len(r) = (i-1) + (Len(q)-i)
        /\ \A k \in 1 .. (i-1) + (Len(q)-i) :
             r[k] = IF k <= i-1 THEN u[k] ELSE w[k-(i-1)]
    <2>1. /\ r \in Seq(T) /\ Len(r) = Len(u) + Len(w)
          /\ \A k \in 1 .. Len(u) + Len(w) :
               r[k] = IF k <= Len(u) THEN u[k] ELSE w[k - Len(u)]
      <3>1. u \in Seq(T) /\ w \in Seq(T)
        BY <1>3, <1>4
      <3>2. /\ u \o w \in Seq(T) /\ Len(u \o w) = Len(u) + Len(w)
            /\ \A k \in 1 .. Len(u) + Len(w) :
                 (u \o w)[k] = IF k <= Len(u) THEN u[k] ELSE w[k - Len(u)]
        BY <3>1, ConcatProperties
      <3>3. QED
        BY <1>5, <3>2
    <2>2. Len(u) = i-1 /\ Len(w) = Len(q)-i
      BY <1>3, <1>4
    <2>3. QED
      BY <2>1, <2>2
  <1>7. Len(r) = Len(q)-1 /\ DOMAIN r = 1 .. Len(q)-1
    BY <1>1, <1>2, <1>6, LenProperties
  <1>8. \A k \in 1 .. Len(q)-1 : r[k] = IF k <= i-1 THEN q[k] ELSE q[k+1]
    <2> TAKE k \in 1 .. Len(q)-1
    <2>1. CASE k <= i-1
      BY <1>1, <1>2, <1>3, <1>6, <2>1
    <2>2. CASE ~(k <= i-1)
      <3>1. k-(i-1) \in 1 .. Len(q)-i /\ i + (k-(i-1)) = k+1
        BY <1>1, <1>2, <2>2
      <3>2. r[k] = w[k-(i-1)]
        BY <1>1, <1>2, <1>6, <2>2
      <3>3. QED
        BY <1>4, <2>2, <3>1, <3>2
    <2>3. QED
      BY <2>1, <2>2
  <1>9. \A k \in DOMAIN r : \E j \in DOMAIN q \ {i} : r[k] = q[j]
    BY <1>1, <1>2, <1>7, <1>8
  <1>10. ASSUME NEW j \in DOMAIN q \ {i} PROVE \E k \in DOMAIN r : r[k] = q[j]
    <2>1. CASE j <= i-1
      <3>1. j \in 1 .. Len(q)-1
        BY <1>1, <1>2, <2>1
      <3>2. QED
        BY <1>7, <1>8, <2>1, <3>1
    <2>2. CASE ~(j <= i-1)
      <3>1. j-1 \in 1 .. Len(q)-1 /\ ~(j-1 <= i-1) /\ (j-1)+1 = j
        BY <1>1, <1>2, <2>2
      <3>2. QED
        BY <1>7, <1>8, <3>1
    <2>3. QED
      BY <2>1, <2>2
  <1>11. QED
    BY <1>6, <1>9, <1>10
\* A sequence of all elements of a set has each of them.
LEMMA PermutationFacts ==
  ASSUME NEW S, IsFiniteSet(S), NEW f \in SetToSeqs(S)
  PROVE  /\ Cardinality(S) \in Nat /\ f \in [1 .. Cardinality(S) -> S]
         /\ \A s \in S : \E i \in 1 .. Cardinality(S) : f[i] = s
  <1> DEFINE n == Cardinality(S)
             D == 1 .. n
  <1>1. n \in Nat
    BY FS_CardinalityType
  <1>2. f \in [D -> S] /\ \A i, j \in D : i # j => f[i] # f[j]
    BY DEF SetToSeqs
  <1>3. IsFiniteSet(D) /\ Cardinality(D) = n
    BY <1>1, FS_Interval
  <1>4. f \in Injection(D, S)
    BY <1>2 DEF Injection, IsInjective
  <1>5. f \in Surjection(D, S)
    BY <1>3, <1>4, FS_Injection
  <1>6. QED
    BY <1>1, <1>2, <1>5 DEF Surjection

-----------------------------------------------------------------------------
(* The queue and the polls that wait at it.                                *)

AllLeased(q) == \A k \in DOMAIN q : q[k].leased
OneAvailable(q) ==
  \A k, l \in DOMAIN q : ~q[k].leased /\ ~q[l].leased => k = l

QueueOK == queue \in Seq(QueuedEvents) /\ polls \in Seq(Agents)

ClientsTyped(ag) ==
  /\ ag = [a \in Agents |-> ag[a]]
  /\ \A a \in Agents : /\ ag[a].id \in Ids \cup {NoId}
                       /\ ag[a].at \in Steps
                       /\ ag[a].of \in BrowserEvents \cup {"exit", None}
                       /\ ag[a].type \in Replies \cup {None}

StoreOK ==
  /\ journal \in [Ids -> [phase : Phases, pending : BrowserEvents \cup {None}]]
  /\ source  \in [Ids -> {"plain", "wrapped", "carbonize", "accepted"}]
  /\ applied \in [Ids -> SUBSET {"accept", "discard"}]

OverlayOK ==
  /\ tab \in {"open", "left", "none"}
  /\ net \subseteq [type : BrowserEvents, id : Ids]
  /\ page \in [Ids -> Live \cup {"unused", "steering", "closed"}]

ProcessOK == up \in BOOLEAN /\ faults \in 0 .. MaxFaults

\* A session with an event that waits is not over, and its event is queued.
OpenIfPending ==
  \A s \in Ids : journal[s].pending # None => journal[s].phase \notin Terminal

Queued ==
  up => \A s \in Ids :
          journal[s].pending # None => Holds(queue, s, journal[s].pending)

\* Nobody waits beside an event, and at a server that is down nothing does.
Served == /\ polls # <<>> => AllLeased(queue)
          /\ ~up => polls = <<>> /\ queue = <<>>

\* The inductive invariant of the queue.
QueueInv ==
  /\ QueueOK /\ ClientsTyped(agent) /\ StoreOK /\ OverlayOK /\ ProcessOK
  /\ OpenIfPending /\ Queued /\ Served

LEMMA NoneAvailable ==
  ASSUME NEW q \in Seq(QueuedEvents)
  PROVE  findAvailablePendingEvent(q) = 0 <=> AllLeased(q)
  BY AvailableFacts DEF AllLeased

\* Handing out an event leaves those of all sessions in the queue.
LEMMA LeaseFacts ==
  ASSUME NEW q \in Seq(QueuedEvents), NEW i \in DOMAIN q,
         NEW r, r = leaseEvent(q, i)
  PROVE  /\ r \in Seq(QueuedEvents)
         /\ \A s \in Ids : \A t : Holds(q, s, t) => Holds(r, s, t)
         /\ OneAvailable(q) /\ ~q[i].leased => AllLeased(r)
  <1>1. Len(q) \in Nat /\ DOMAIN q = 1 .. Len(q) /\ q[i] \in QueuedEvents
    BY LenProperties, ElementOfSeq
  <1>2. CASE q[i].id = NoId
    <2>1. r = RemoveAt(q, i)
      BY <1>2 DEF leaseEvent
    <2>2. /\ r \in Seq(QueuedEvents)
          /\ \A k \in DOMAIN r : \E j \in DOMAIN q \ {i} : r[k] = q[j]
          /\ \A j \in DOMAIN q \ {i} : \E k \in DOMAIN r : r[k] = q[j]
      BY <2>1, RemoveFacts
    <2>3. ASSUME NEW s \in Ids, NEW t, Holds(q, s, t) PROVE Holds(r, s, t)
      <3>1. PICK j \in DOMAIN q : q[j].id = s /\ q[j].type = t
        BY <2>3 DEF Holds
      <3>2. j # i
        BY <1>2, <3>1, LiveAssumption DEF LiveAssumption
      <3>3. QED
        BY <2>2, <3>1, <3>2 DEF Holds
    <2>4. OneAvailable(q) /\ ~q[i].leased => AllLeased(r)
      BY <2>2 DEF OneAvailable, AllLeased
    <2>5. QED
      BY <2>2, <2>3, <2>4
  <1>3. CASE q[i].id # NoId
    <2> DEFINE e == [q[i] EXCEPT !.leased = TRUE]
    <2>1. e \in QueuedEvents /\ e.leased /\ e.id = q[i].id /\ e.type = q[i].type
      BY <1>1 DEF QueuedEvents
    <2>2. r = [q EXCEPT ![i] = e]
      BY <1>3 DEF leaseEvent
    <2> HIDE DEF e
    <2>3. r \in Seq(QueuedEvents)
      BY <1>1, <2>1, <2>2, ExceptSeq
    <2>4. DOMAIN r = DOMAIN q /\ r[i] = e
          /\ \A k \in DOMAIN q \ {i} : r[k] = q[k]
      BY <1>1, <2>2
    <2>5. \A s \in Ids : \A t : Holds(q, s, t) => Holds(r, s, t)
      BY <2>1, <2>4 DEF Holds
    <2>6. OneAvailable(q) /\ ~q[i].leased => AllLeased(r)
      BY <2>1, <2>4 DEF OneAvailable, AllLeased
    <2>7. QED
      BY <2>3, <2>5, <2>6
  <1>4. QED
    BY <1>2, <1>3

LEMMA AtFacts ==
  ASSUME NEW step, NEW id, NEW of, NEW type
  PROVE  /\ At(step, id, of, type).at = step /\ At(step, id, of, type).id = id
         /\ At(step, id, of, type).of = of
         /\ At(step, id, of, type).type = type
  BY DEF At

LEMMA ClientSet ==
  ASSUME NEW ag, ClientsTyped(ag), NEW a, NEW c, NEW ah, ah = [ag EXCEPT ![a] = c],
         c.id \in Ids \cup {NoId}, c.at \in Steps,
         c.of \in BrowserEvents \cup {"exit", None},
         c.type \in Replies \cup {None}
  PROVE  ClientsTyped(ah)
  BY DEF ClientsTyped

LEMMA HandOut ==
  ASSUME NEW ag, ClientsTyped(ag), NEW q \in Seq(QueuedEvents),
         NEW i \in DOMAIN q, NEW a
  PROVE  ClientsTyped([ag EXCEPT ![a] = At("holding", q[i].id, q[i].type, None)])
  <1>1. q[i] \in QueuedEvents
    BY LenProperties, ElementOfSeq
  <1> DEFINE c == At("holding", q[i].id, q[i].type, None)
  <1>2. /\ c.at \in Steps /\ c.id \in Ids \cup {NoId}
        /\ c.of \in BrowserEvents \cup {"exit", None}
        /\ c.type \in Replies \cup {None}
    BY <1>1, AtFacts DEF QueuedEvents, Steps
  <1> HIDE DEF c
  <1>3. ClientsTyped([ag EXCEPT ![a] = c])
    BY <1>2, ClientSet
  <1>4. QED
    BY <1>3 DEF c

\* Serving the polls, when at most one event is there for them.
LEMMA FlushFacts ==
  ASSUME NEW q \in Seq(QueuedEvents), NEW ps \in Seq(Agents),
         NEW ag, ClientsTyped(ag), ps # <<>> => OneAvailable(q),
         flushPendingPolls(q, ps, ag)
  PROVE  /\ QueueOK' /\ ClientsTyped(agent')
         /\ \A s \in Ids : \A t : Holds(q, s, t) => Holds(queue', s, t)
         /\ polls' # <<>> => AllLeased(queue')
         /\ ps = <<>> => polls' = <<>>
  <1> DEFINE i == findAvailablePendingEvent(q)
  <1>1. \/ i = 0 /\ AllLeased(q)
        \/ i \in DOMAIN q /\ ~q[i].leased /\ i # 0
    BY AvailableFacts DEF AllLeased
  <1>2. CASE ps = <<>> \/ i = 0
    <2>1. queue' = q /\ polls' = ps /\ agent' = ag
      BY <1>2 DEF flushPendingPolls
    <2>2. QED
      BY <1>1, <1>2, <2>1 DEF QueueOK
  <1>3. CASE ~(ps = <<>> \/ i = 0)
    <2>1. /\ queue' = leaseEvent(q, i) /\ polls' = Tail(ps)
          /\ agent' = [ag EXCEPT
                         ![Head(ps)] = At("holding", q[i].id, q[i].type, None)]
      BY <1>3 DEF flushPendingPolls
    <2>2. i \in DOMAIN q /\ ~q[i].leased
      BY <1>1, <1>3
    <2>3. polls' \in Seq(Agents)
      BY <1>3, <2>1, HeadTailProperties
    <2>4. /\ queue' \in Seq(QueuedEvents) /\ AllLeased(queue')
          /\ \A s \in Ids : \A t : Holds(q, s, t) => Holds(queue', s, t)
      BY <1>3, <2>1, <2>2, LeaseFacts
    <2>5. ClientsTyped(agent')
      BY <2>1, <2>2, HandOut
    <2>6. QED
      BY <1>3, <2>3, <2>4, <2>5 DEF QueueOK
  <1>4. QED
    BY <1>2, <1>3

-----------------------------------------------------------------------------
(* Every step keeps the queue right.                                       *)

\* A step that leaves journals, queue and polls alone.
LEMMA QueueSame ==
  ASSUME QueueInv, UNCHANGED <<journal, queue, polls, up>>,
         ClientsTyped(agent'), StoreOK', OverlayOK', ProcessOK'
  PROVE  QueueInv'
  BY DEF QueueInv, QueueOK, OpenIfPending, Queued, Served

\* A step after which the polls are served.
LEMMA QueueServed ==
  ASSUME QueueInv, up, up' = up, NEW q \in Seq(QueuedEvents), NEW ag,
         ClientsTyped(ag), polls # <<>> => OneAvailable(q),
         flushPendingPolls(q, polls, ag),
         \A s \in Ids : journal'[s].pending # None =>
           Holds(q, s, journal'[s].pending),
         OpenIfPending', StoreOK', OverlayOK', ProcessOK'
  PROVE  QueueInv'
  <1>1. /\ QueueOK' /\ ClientsTyped(agent')
        /\ \A s \in Ids : \A t : Holds(q, s, t) => Holds(queue', s, t)
        /\ polls' # <<>> => AllLeased(queue')
    BY FlushFacts DEF QueueInv, QueueOK
  <1>2. Queued'
    BY <1>1 DEF Queued
  <1>3. Served'
    BY <1>1 DEF Served
  <1>4. QED
    BY <1>1, <1>2, <1>3 DEF QueueInv

LEMMA MsgType ==
  ASSUME NEW s \in Ids, NEW type \in BrowserEvents
  PROVE  Msg(type, s) \in [type : BrowserEvents, id : Ids]
  BY DEF Msg

LEMMA OverlayQueue ==
  ASSUME QueueInv, NEW s \in Ids,
         \/ handleGo(s) \/ variantsArrive(s) \/ handleAccept(s)
         \/ handleDiscard(s) \/ resumeSession(s)
  PROVE  QueueInv'
  <1>1. UNCHANGED <<journal, queue, polls, up, agent, store, tab, faults>>
    BY DEF handleGo, variantsArrive, handleAccept, handleDiscard,
           resumeSession, store
  <1>2. \/ net' = net
        \/ \E t \in {"generate", "steer", "accept", "discard"} :
             net' = net \cup {Msg(t, s)}
    BY DEF handleGo, variantsArrive, handleAccept, handleDiscard, resumeSession
  <1>3. net' \subseteq [type : BrowserEvents, id : Ids]
    BY <1>2, MsgType DEF BrowserEvents, QueueInv, OverlayOK
  <1>4. \/ page' = page
        \/ \E v \in {"generating", "steering", "cycling", "saving", "closed"} :
             page' = [page EXCEPT ![s] = v]
    <2>1. CASE resumeSession(s)
      <3> DEFINE v == CASE source[s] = "wrapped" -> "cycling"
                        [] source[s] # "wrapped"
                             /\ page[s] \in {"generating", "cycling"}
                             -> "generating"
                        [] OTHER -> "closed"
      <3>1. v \in {"cycling", "generating", "closed"}
        OBVIOUS
      <3>2. page' = [page EXCEPT ![s] = v]
        BY <2>1 DEF resumeSession
      <3> HIDE DEF v
      <3>3. QED
        BY <3>1, <3>2
    <2>2. CASE ~resumeSession(s)
      BY <2>2 DEF handleGo, variantsArrive, handleAccept, handleDiscard
    <2>3. QED
      BY <2>1, <2>2
  <1>5. page' \in [Ids -> Live \cup {"unused", "steering", "closed"}]
    BY <1>4 DEF QueueInv, OverlayOK, Live
  <1>6. OverlayOK' /\ StoreOK' /\ ProcessOK' /\ ClientsTyped(agent')
    BY <1>1, <1>3, <1>5 DEF QueueInv, OverlayOK, StoreOK, ProcessOK, store
  <1>7. QED
    BY <1>1, <1>6, QueueSame

LEMMA AnsweredTypes ==
  ASSUME OverlayOK, NEW m \in net, NEW ok
  PROVE  /\ Answered(m, ok) \in [Ids -> Live \cup {"unused", "steering", "closed"}]
         /\ m.id \in Ids /\ m.type \in BrowserEvents
  <1>1. m.id \in Ids /\ m.type \in BrowserEvents
    BY DEF OverlayOK
  <1> DEFINE v == CASE ok /\ m.type = "discard" /\ page[m.id] \in Live -> "closed"
                    [] ~ok /\ m.type = "accept" /\ page[m.id] = "saving" -> "cycling"
                    [] ~ok /\ m.type = "steer" /\ page[m.id] = "steering" -> "closed"
                    [] OTHER -> page[m.id]
  <1>2. v \in {"closed", "cycling", page[m.id]}
    OBVIOUS
  <1>3. Answered(m, ok) = [page EXCEPT ![m.id] = v]
    BY DEF Answered
  <1> HIDE DEF v
  <1>4. QED
    BY <1>1, <1>2, <1>3 DEF OverlayOK, Live

\* A journalled request waits for its answer in a session that is open.
LEMMA JournalledFacts ==
  ASSUME StoreOK, OpenIfPending, NEW s \in Ids, NEW t \in BrowserEvents,
         journal' = [journal EXCEPT ![s] = applyEvent(@, t)]
  PROVE  /\ journal' \in [Ids -> [phase : Phases, pending : BrowserEvents \cup {None}]]
         /\ journal'[s].pending = t /\ OpenIfPending'
         /\ \A r \in Ids \ {s} : journal'[r] = journal[r]
  <1> DEFINE e == applyEvent(journal[s], t)
  <1>1. e.phase = "open" /\ e.pending = t
        /\ e \in [phase : Phases, pending : BrowserEvents \cup {None}]
    BY DEF applyEvent, BrowserEvents, Phases
  <1>2. journal' = [journal EXCEPT ![s] = e]
    OBVIOUS
  <1> HIDE DEF e
  <1>3. journal'[s] = e /\ \A r \in Ids \ {s} : journal'[r] = journal[r]
    BY <1>2 DEF StoreOK
  <1>4. OpenIfPending'
    BY <1>1, <1>3 DEF OpenIfPending, Terminal
  <1>5. QED
    BY <1>1, <1>2, <1>3, <1>4 DEF StoreOK

\* A reply empties the slot of its session.
LEMMA RepliedFacts ==
  ASSUME StoreOK, OpenIfPending, NEW s, NEW r,
         journal' = [journal EXCEPT ![s] = applyEvent(@, ReplyEvent(r))]
  PROVE  /\ journal' \in [Ids -> [phase : Phases, pending : BrowserEvents \cup {None}]]
         /\ OpenIfPending'
         /\ \A t \in Ids : journal'[t] = journal[t]
                           \/ (t = s /\ journal'[t].pending = None)
  <1> DEFINE e == applyEvent(journal[s], ReplyEvent(r))
  <1>1. ReplyEvent(r) \in {"steer_done", "discarded", "complete",
                           "agent_error", "agent_done"}
    BY DEF ReplyEvent
  <1>2. e.phase \in Phases /\ e.pending = None
        /\ e \in [phase : Phases, pending : BrowserEvents \cup {None}]
    BY <1>1 DEF applyEvent, BrowserEvents, Phases, Terminal
  <1>3. journal' = [journal EXCEPT ![s] = e]
    OBVIOUS
  <1> HIDE DEF e
  <1>4. \A t \in Ids : journal'[t] = journal[t] \/ (t = s /\ journal'[t] = e)
    BY <1>3 DEF StoreOK
  <1>5. OpenIfPending'
    BY <1>2, <1>4 DEF OpenIfPending
  <1>6. journal' \in [Ids -> [phase : Phases, pending : BrowserEvents \cup {None}]]
    BY <1>2, <1>3 DEF StoreOK
  <1>7. QED
    BY <1>2, <1>4, <1>5, <1>6

LEMMA HoldsAppend ==
  ASSUME NEW q \in Seq(QueuedEvents), NEW e \in QueuedEvents, NEW r, r = Append(q, e),
         ~e.leased
  PROVE  /\ r \in Seq(QueuedEvents) /\ Holds(r, e.id, e.type)
         /\ \A s, t : Holds(q, s, t) => Holds(r, s, t)
         /\ AllLeased(q) => OneAvailable(r)
  <1>1. /\ r \in Seq(QueuedEvents) /\ Len(r) = Len(q)+1 /\ r[Len(q)+1] = e
        /\ \A k \in 1 .. Len(q) : r[k] = q[k]
        /\ Len(q) \in Nat /\ DOMAIN q = 1 .. Len(q) /\ DOMAIN r = 1 .. Len(q)+1
    BY AppendProperties, LenProperties
  <1>2. Len(q)+1 \in DOMAIN r /\ \A k \in DOMAIN q : k \in DOMAIN r
    BY <1>1
  <1>3. \A k \in DOMAIN r : k \in DOMAIN q \/ k = Len(q)+1
    BY <1>1
  <1>4. Holds(r, e.id, e.type) /\ \A s, t : Holds(q, s, t) => Holds(r, s, t)
    BY <1>1, <1>2 DEF Holds
  <1>5. AllLeased(q) => OneAvailable(r)
    BY <1>1, <1>3 DEF AllLeased, OneAvailable
  <1>6. QED
    BY <1>1, <1>4, <1>5

LEMMA EnqueueFacts ==
  ASSUME NEW q \in Seq(QueuedEvents), NEW id \in Ids \cup {NoId},
         NEW t \in BrowserEvents \cup {"exit"}, NEW r, r = enqueueEvent(q, id, t)
  PROVE  /\ r \in Seq(QueuedEvents) /\ Holds(r, id, t)
         /\ \A s, u : Holds(q, s, u) => Holds(r, s, u)
         /\ AllLeased(q) => OneAvailable(r)
  <1> DEFINE e == [id |-> id, type |-> t, leased |-> FALSE]
  <1>1. e \in QueuedEvents /\ e.id = id /\ e.type = t /\ ~e.leased
    BY DEF QueuedEvents
  <1>2. (r = q /\ Holds(q, id, t)) \/ r = Append(q, e)
    BY DEF enqueueEvent
  <1> HIDE DEF e
  <1>3. CASE r = q /\ Holds(q, id, t)
    BY <1>3 DEF AllLeased, OneAvailable
  <1>4. CASE r = Append(q, e)
    BY <1>1, <1>4, HoldsAppend
  <1>5. QED
    BY <1>2, <1>3, <1>4

LEMMA ClientsDown ==
  ASSUME ClientsTyped(agent), agent' = [a \in Agents |-> agent'[a]],
         \A a \in Agents : agent'[a] \in {Idle, agent[a]}
  PROVE  ClientsTyped(agent')
  <1>1. /\ Idle.id = NoId /\ Idle.at = "idle" /\ Idle.of = None
        /\ Idle.type = None
    BY DEF Idle
  <1>2. QED
    BY <1>1 DEF ClientsTyped, Steps

\* A server that is gone has neither queue nor polls.
LEMMA DownQueue ==
  ASSUME QueueInv, GoDown, ClientsTyped(agent'), StoreOK', OpenIfPending',
         net' \subseteq net,
         page' \in [Ids -> Live \cup {"unused", "steering", "closed"}]
  PROVE  QueueInv'
  <1>1. /\ ~up' /\ queue' = <<>> /\ polls' = <<>> /\ tab' = "none"
        /\ faults < MaxFaults /\ faults' = faults + 1 /\ up' \in BOOLEAN
    BY DEF GoDown
  <1>2. QueueOK' /\ Queued' /\ Served'
    BY <1>1 DEF QueueOK, Queued, Served
  <1>3. OverlayOK'
    BY <1>1 DEF QueueInv, OverlayOK
  <1>4. faults' \in 0 .. MaxFaults
    <2>1. MaxFaults \in Nat /\ faults \in 0 .. MaxFaults
      BY LiveAssumption DEF LiveAssumption, QueueInv, ProcessOK
    <2>2. QED
      BY <1>1, <2>1
  <1>5. QED
    BY <1>1, <1>2, <1>3, <1>4 DEF QueueInv, ProcessOK

LEMMA RequestQueue ==
  ASSUME QueueInv, NEW m \in net,
         PostEvent(m) \/ RequestFails(m) \/ DiesUnanswered(m)
  PROVE  QueueInv'
  <1>1. m.id \in Ids /\ m.type \in BrowserEvents
    BY AnsweredTypes DEF QueueInv
  <1>2. CASE PostEvent(m)
    <2> DEFINE q == enqueueEvent(queue, m.id, m.type)
    <2>1. /\ up /\ flushPendingPolls(q, polls, agent) /\ net' = net \ {m}
          /\ journal' = Journalled(m) /\ page' = Answered(m, TRUE)
          /\ UNCHANGED <<up, source, applied, tab, faults>>
      BY <1>2 DEF PostEvent
    <2>2. /\ q \in Seq(QueuedEvents) /\ Holds(q, m.id, m.type)
          /\ \A s, t : Holds(queue, s, t) => Holds(q, s, t)
          /\ AllLeased(queue) => OneAvailable(q)
      BY <1>1, EnqueueFacts DEF QueueInv, QueueOK
    <2> HIDE DEF q
    <2>3. /\ journal' \in [Ids -> [phase : Phases, pending : BrowserEvents \cup {None}]]
          /\ journal'[m.id].pending = m.type /\ OpenIfPending'
          /\ \A r \in Ids \ {m.id} : journal'[r] = journal[r]
      BY <1>1, <2>1, JournalledFacts DEF QueueInv, Journalled
    <2>4. \A s \in Ids : journal'[s].pending # None =>
            Holds(q, s, journal'[s].pending)
      BY <2>1, <2>2, <2>3 DEF QueueInv, Queued
    <2>5. StoreOK' /\ OverlayOK' /\ ProcessOK'
      BY <2>1, <2>3, AnsweredTypes DEF QueueInv, StoreOK, OverlayOK, ProcessOK
    <2>6. polls # <<>> => OneAvailable(q)
      BY <2>2 DEF QueueInv, Served
    <2>7. QED
      BY <2>1, <2>2, <2>3, <2>4, <2>5, <2>6, QueueServed DEF QueueInv
  <1>3. CASE RequestFails(m)
    <2>1. /\ net' = net \ {m} /\ page' = Answered(m, FALSE)
          /\ UNCHANGED <<up, queue, polls, store, tab, agent, faults>>
      BY <1>3 DEF RequestFails
    <2>2. /\ OverlayOK' /\ StoreOK' /\ ProcessOK' /\ ClientsTyped(agent')
          /\ UNCHANGED <<journal, queue, polls, up>>
      BY <2>1, AnsweredTypes DEF QueueInv, OverlayOK, StoreOK, ProcessOK, store
    <2>3. QED
      BY <2>2, QueueSame
  <1>4. CASE DiesUnanswered(m)
    <2>1. /\ GoDown /\ net' = net \ {m} /\ journal' = Journalled(m)
          /\ page' = Answered(m, FALSE) /\ UNCHANGED <<source, applied>>
          /\ agent' = [a \in Agents |->
                 IF agent[a].at = "polling" THEN Idle ELSE agent[a]]
      BY <1>4 DEF DiesUnanswered
    <2>2. /\ journal' \in [Ids -> [phase : Phases, pending : BrowserEvents \cup {None}]]
          /\ OpenIfPending'
      BY <1>1, <2>1, JournalledFacts DEF QueueInv, Journalled
    <2>3. ClientsTyped(agent')
      <3>1. /\ agent' = [a \in Agents |-> agent'[a]]
            /\ \A a \in Agents : agent'[a] \in {Idle, agent[a]}
        BY <2>1
      <3>2. QED
        BY <3>1, ClientsDown DEF QueueInv
    <2>4. StoreOK'
      BY <2>1, <2>2 DEF QueueInv, StoreOK
    <2>5. page' \in [Ids -> Live \cup {"unused", "steering", "closed"}]
      BY <2>1, AnsweredTypes DEF QueueInv
    <2>6. QED
      BY <2>1, <2>2, <2>3, <2>4, <2>5, DownQueue
  <1>5. QED
    BY <1>2, <1>3, <1>4

\* A step of which the journals and the queue see nothing, of one agent.
LEMMA AgentOnly ==
  ASSUME QueueInv, NEW a \in Agents, NEW c, agent' = [agent EXCEPT ![a] = c],
         c.id \in Ids \cup {NoId}, c.at \in Steps,
         c.of \in BrowserEvents \cup {"exit", None},
         c.type \in Replies \cup {None},
         UNCHANGED <<up, queue, polls, journal, tab, browser, faults>>,
         source' \in [Ids -> {"plain", "wrapped", "carbonize", "accepted"}],
         applied' \in [Ids -> SUBSET {"accept", "discard"}]
  PROVE  QueueInv'
  <1>1. ClientsTyped(agent')
    BY ClientSet DEF QueueInv
  <1>2. StoreOK' /\ OverlayOK' /\ ProcessOK'
    BY DEF QueueInv, StoreOK, OverlayOK, ProcessOK, browser
  <1>3. QED
    BY <1>1, <1>2, QueueSame

\* An agent that comes to report something.
LEMMA ReportFacts ==
  ASSUME QueueInv, NEW a \in Agents, NEW r \in Replies, Report(a, r)
  PROVE  \E c : /\ agent' = [agent EXCEPT ![a] = c]
               /\ c.id \in Ids \cup {NoId} /\ c.at \in Steps
               /\ c.of \in BrowserEvents \cup {"exit", None}
               /\ c.type \in Replies \cup {None}
  <1> DEFINE c == At("replying", agent[a].id, agent[a].of, r)
  <1>1. /\ c.id \in Ids \cup {NoId} /\ c.at \in Steps
        /\ c.of \in BrowserEvents \cup {"exit", None}
        /\ c.type \in Replies \cup {None}
    BY AtFacts DEF QueueInv, ClientsTyped, Steps
  <1> HIDE DEF c
  <1>2. agent' = [agent EXCEPT ![a] = c]
    BY DEF Report, c, QueueInv, ClientsTyped
  <1>3. QED
    BY <1>1, <1>2

LEMMA WritesQueue ==
  ASSUME QueueInv, NEW a \in Agents, writeVariants(a)
  PROVE  QueueInv'
  <1>1. PICK r \in {"done", "error"} : Report(a, r)
    BY DEF writeVariants
  <1>2. \/ source' = source
        \/ source' = [source EXCEPT ![agent[a].id] = "wrapped"]
    BY DEF writeVariants
  <1>3. source' \in [Ids -> {"plain", "wrapped", "carbonize", "accepted"}]
    BY <1>2 DEF QueueInv, StoreOK
  <1>4. /\ UNCHANGED <<up, queue, polls, journal, tab, browser, faults>>
        /\ applied' \in [Ids -> SUBSET {"accept", "discard"}]
    BY DEF writeVariants, QueueInv, StoreOK
  <1>5. r \in Replies
    BY DEF Replies
  <1>6. QED
    BY <1>1, <1>3, <1>4, <1>5, ReportFacts, AgentOnly

LEMMA CleanupQueue ==
  ASSUME QueueInv, NEW a \in Agents, carbonizeCleanup(a)
  PROVE  QueueInv'
  <1>1. /\ UNCHANGED <<up, queue, polls, journal, tab, browser, faults>>
        /\ UNCHANGED <<agent, applied>>
        /\ source' = [source EXCEPT ![agent[a].id] = "accepted"]
    BY DEF carbonizeCleanup
  <1>2. StoreOK' /\ OverlayOK' /\ ProcessOK' /\ ClientsTyped(agent')
    BY <1>1 DEF QueueInv, StoreOK, OverlayOK, ProcessOK, browser
  <1>3. QED
    BY <1>1, <1>2, QueueSame

LEMMA SteerQueue ==
  ASSUME QueueInv, NEW a \in Agents, doSteer(a)
  PROVE  QueueInv'
  <1>1. PICK r \in {"steer_done", "error"} : Report(a, r)
    BY DEF doSteer
  <1>2. r \in Replies
    BY DEF Replies
  <1>3. /\ UNCHANGED <<up, queue, polls, journal, tab, browser, faults>>
        /\ UNCHANGED <<source, applied>>
    BY DEF doSteer, store
  <1>4. QED
    BY <1>1, <1>2, <1>3, ReportFacts, AgentOnly DEF QueueInv, StoreOK

LEMMA DecisionQueue ==
  ASSUME QueueInv, NEW a \in Agents, augmentEventWithAcceptHandling(a)
  PROVE  QueueInv'
  <1> DEFINE id == agent[a].id
             type == agent[a].of
  <1>1. type \in {"accept", "discard"}
    BY DEF augmentEventWithAcceptHandling
  <1>2. PICK result \in Results(id) :
          /\ Report(a, completionTypeForAcceptResult(type, result))
          /\ IF result.handled
               THEN /\ applied' = [applied EXCEPT ![id] = @ \cup {type}]
                    /\ source'  = [source EXCEPT ![id] =
                         CASE type = "discard"  -> "plain"
                           [] result.carbonize  -> "carbonize"
                           [] OTHER             -> "accepted"]
               ELSE UNCHANGED <<applied, source>>
    BY DEF augmentEventWithAcceptHandling
  <1>3. UNCHANGED <<up, queue, polls, journal, tab, browser, faults>>
    BY DEF augmentEventWithAcceptHandling
  <1>4. completionTypeForAcceptResult(type, result) \in
          {"discarded", "error", "carbonize", "complete", "agent_done"}
    BY DEF completionTypeForAcceptResult
  <1> DEFINE r == completionTypeForAcceptResult(type, result)
             v == CASE type = "discard"  -> "plain"
                    [] result.carbonize  -> "carbonize"
                    [] OTHER             -> "accepted"
  <1>5. \/ UNCHANGED <<applied, source>>
        \/ /\ applied' = [applied EXCEPT ![id] = @ \cup {type}]
           /\ source' = [source EXCEPT ![id] = v]
    BY <1>2
  <1>6. v \in {"plain", "carbonize", "accepted"}
    OBVIOUS
  <1>7. r \in Replies /\ Report(a, r)
    BY <1>2, <1>4 DEF Replies
  <1> HIDE DEF r, v, id, type
  <1>8. source' \in [Ids -> {"plain", "wrapped", "carbonize", "accepted"}]
    BY <1>5, <1>6 DEF QueueInv, StoreOK
  <1>9. applied' \in [Ids -> SUBSET {"accept", "discard"}]
    BY <1>1, <1>5 DEF QueueInv, StoreOK
  <1>10. QED
    BY <1>3, <1>7, <1>8, <1>9, ReportFacts, AgentOnly

\* An agent that is done, or has a decision to complete.
LEMMA RestFacts ==
  ASSUME QueueInv, NEW a \in Agents,
         NEW c \in {Idle, ToComplete(a, "complete"), ToComplete(a, "discarded")}
  PROVE  /\ c.id \in Ids \cup {NoId} /\ c.at \in Steps
         /\ c.of \in BrowserEvents \cup {"exit", None}
         /\ c.type \in Replies \cup {None}
  <1>1. CASE c = Idle
    <2>1. Idle.id = NoId /\ Idle.at = "idle" /\ Idle.of = None
          /\ Idle.type = None
      BY DEF Idle
    <2>2. QED
      BY <1>1, <2>1 DEF Steps
  <1>2. ASSUME NEW r \in {"complete", "discarded"}, c = ToComplete(a, r)
        PROVE  /\ c.id \in Ids \cup {NoId} /\ c.at \in Steps
               /\ c.of \in BrowserEvents \cup {"exit", None}
               /\ c.type \in Replies \cup {None}
    BY <1>2, AtFacts DEF ToComplete, QueueInv, ClientsTyped, Steps, Replies
  <1>3. QED
    BY <1>1, <1>2

LEMMA LostQueue ==
  ASSUME QueueInv, NEW a \in Agents, replyLost(a)
  PROVE  QueueInv'
  <1>1. PICK c \in {Idle, ToComplete(a, "complete"),
                    ToComplete(a, "discarded")} :
          agent' = [agent EXCEPT ![a] = c]
    BY DEF replyLost
  <1>2. /\ UNCHANGED <<up, queue, polls, journal, tab, browser, faults>>
        /\ UNCHANGED <<source, applied>>
    BY DEF replyLost, store
  <1>3. QED
    BY <1>1, <1>2, RestFacts, AgentOnly DEF QueueInv, StoreOK

LEMMA OfflineQueue ==
  ASSUME QueueInv, NEW a \in Agents, completeOffline(a)
  PROVE  QueueInv'
  <1> DEFINE c == Idle
  <1>1. /\ c.id \in Ids \cup {NoId} /\ c.at \in Steps
        /\ c.of \in BrowserEvents \cup {"exit", None}
        /\ c.type \in Replies \cup {None}
    BY RestFacts
  <1>2. /\ ~up /\ agent' = [agent EXCEPT ![a] = c]
        /\ UNCHANGED <<up, queue, polls, source, applied, tab, browser, faults>>
        /\ journal' = [journal EXCEPT ![agent[a].id] =
                         applyEvent(@, ReplyEvent(agent[a].type))]
    BY DEF completeOffline
  <1> HIDE DEF c
  <1>3. ClientsTyped(agent')
    BY <1>1, <1>2, ClientSet DEF QueueInv
  <1>4. /\ journal' \in [Ids -> [phase : Phases, pending : BrowserEvents \cup {None}]]
        /\ OpenIfPending'
    BY <1>2, RepliedFacts DEF QueueInv, StoreOK, OpenIfPending
  <1>5. StoreOK' /\ OverlayOK' /\ ProcessOK'
    BY <1>2, <1>4 DEF QueueInv, StoreOK, OverlayOK, ProcessOK, browser
  <1>6. QueueOK' /\ Queued' /\ Served'
    BY <1>2 DEF QueueInv, QueueOK, Queued, Served
  <1>7. QED
    BY <1>3, <1>4, <1>5, <1>6 DEF QueueInv

LEMMA LeaseQueue ==
  ASSUME QueueInv, LeaseExpires
  PROVE  QueueInv'
  <1>1. PICK i \in DOMAIN queue :
          /\ queue[i].leased
          /\ flushPendingPolls([queue EXCEPT ![i].leased = FALSE], polls, agent)
    BY DEF LeaseExpires
  <1> DEFINE e == [queue[i] EXCEPT !.leased = FALSE]
             q == [queue EXCEPT ![i] = e]
  <1>2. /\ Len(queue) \in Nat /\ DOMAIN queue = 1 .. Len(queue)
        /\ queue \in Seq(QueuedEvents) /\ queue[i] \in QueuedEvents
    BY LenProperties, ElementOfSeq DEF QueueInv, QueueOK
  <1>3. /\ e \in QueuedEvents /\ ~e.leased
        /\ e.id = queue[i].id /\ e.type = queue[i].type
    BY <1>2 DEF QueuedEvents
  <1>4. flushPendingPolls(q, polls, agent)
    BY <1>1
  <1> HIDE DEF e
  <1>5. q \in Seq(QueuedEvents)
    BY <1>2, <1>3, ExceptSeq
  <1>6. DOMAIN q = DOMAIN queue /\ q[i] = e
        /\ \A k \in DOMAIN queue \ {i} : q[k] = queue[k]
    BY <1>2
  <1> HIDE DEF q
  <1>7. \A s, t : Holds(queue, s, t) => Holds(q, s, t)
    BY <1>3, <1>6 DEF Holds
  <1>8. polls # <<>> => OneAvailable(q)
    BY <1>6 DEF QueueInv, Served, AllLeased, OneAvailable
  <1>9. up /\ UNCHANGED <<up, store, tab, browser, faults>>
    BY DEF LeaseExpires
  <1>10. \A s \in Ids : journal'[s].pending # None =>
           Holds(q, s, journal'[s].pending)
    BY <1>7, <1>9 DEF QueueInv, Queued, store
  <1>11. OpenIfPending' /\ StoreOK' /\ OverlayOK' /\ ProcessOK'
    BY <1>9 DEF QueueInv, OpenIfPending, StoreOK, OverlayOK, ProcessOK,
                store, browser
  <1>12. ClientsTyped(agent)
    BY DEF QueueInv
  <1>13. QED
    BY <1>4, <1>5, <1>8, <1>9, <1>10, <1>11, <1>12, QueueServed

LEMMA ExitQueue ==
  ASSUME QueueInv, ExitTimerFires
  PROVE  QueueInv'
  <1> DEFINE q == enqueueEvent(queue, NoId, "exit")
  <1>1. /\ up /\ tab' = "none" /\ flushPendingPolls(q, polls, agent)
        /\ UNCHANGED <<up, store, browser, faults>>
    BY DEF ExitTimerFires
  <1>2. /\ q \in Seq(QueuedEvents)
        /\ \A s, t : Holds(queue, s, t) => Holds(q, s, t)
        /\ AllLeased(queue) => OneAvailable(q)
    <2>1. queue \in Seq(QueuedEvents)
      BY DEF QueueInv, QueueOK
    <2>2. QED
      BY <2>1, EnqueueFacts
  <1> HIDE DEF q
  <1>3. \A s \in Ids : journal'[s].pending # None =>
          Holds(q, s, journal'[s].pending)
    BY <1>1, <1>2 DEF QueueInv, Queued, store
  <1>4. OpenIfPending' /\ StoreOK' /\ OverlayOK' /\ ProcessOK'
    BY <1>1 DEF QueueInv, OpenIfPending, StoreOK, OverlayOK, ProcessOK,
                store, browser
  <1>5. polls # <<>> => OneAvailable(q)
    BY <1>2 DEF QueueInv, Served
  <1>6. ClientsTyped(agent)
    BY DEF QueueInv
  <1>7. QED
    BY <1>1, <1>2, <1>3, <1>4, <1>5, <1>6, QueueServed

LEMMA TabQueue ==
  ASSUME QueueInv, Connect \/ Disconnect
  PROVE  QueueInv'
  <1>1. /\ up /\ tab' \in {"open", "left"}
        /\ UNCHANGED <<up, polls, store, browser, agent, faults>>
        /\ \/ queue' = queue
           \/ queue' = filter(queue, {e \in Range(queue) : e.type # "exit"})
    BY DEF Connect, Disconnect, cancelQueuedAnonymousExitEvents
  <1> DEFINE K == {e \in Range(queue) : e.type # "exit"}
  <1>2. queue \in Seq(QueuedEvents)
    BY DEF QueueInv, QueueOK
  <1>3. CASE queue' = filter(queue, K)
    <2>1. /\ queue' \in Seq(QueuedEvents)
          /\ \A i \in DOMAIN queue' :
               queue'[i] \in K /\ \E j \in DOMAIN queue : queue'[i] = queue[j]
          /\ \A j \in DOMAIN queue : queue[j] \in K =>
               \E i \in DOMAIN queue' : queue'[i] = queue[j]
      <3> HIDE DEF K
      <3>1. QED
        BY <1>2, <1>3, FilterFacts
    <2>2. \A j \in DOMAIN queue : queue[j].type # "exit" => queue[j] \in K
      BY DEF Range
    <2>3. ASSUME NEW s \in Ids, journal[s].pending # None,
                 Holds(queue, s, journal[s].pending)
          PROVE  Holds(queue', s, journal[s].pending)
      <3>1. journal[s].pending \in BrowserEvents
        BY <2>3 DEF QueueInv, StoreOK
      <3>2. journal[s].pending # "exit"
        BY <3>1 DEF BrowserEvents
      <3>3. PICK j \in DOMAIN queue : /\ queue[j].id = s
                                      /\ queue[j].type = journal[s].pending
        BY <2>3 DEF Holds
      <3>4. QED
        BY <2>1, <2>2, <3>2, <3>3 DEF Holds
    <2>4. Queued'
      BY <1>1, <2>3 DEF QueueInv, Queued, store
    <2>5. AllLeased(queue) => AllLeased(queue')
      BY <2>1 DEF AllLeased
    <2>6. Served'
      BY <1>1, <2>5 DEF QueueInv, Served
    <2>7. QueueOK'
      BY <1>1, <2>1 DEF QueueInv, QueueOK
    <2>8. QED
      BY <1>1, <2>4, <2>6, <2>7
         DEF QueueInv, StoreOK, OverlayOK, ProcessOK, OpenIfPending,
             ClientsTyped, store, browser
  <1>4. CASE queue' = queue
    BY <1>1, <1>4, QueueSame
       DEF QueueInv, StoreOK, OverlayOK, ProcessOK, store, browser
  <1>5. QED
    BY <1>1, <1>3, <1>4

\* A poll that gives up is taken from those that wait.
LEMMA LeavesQueue ==
  ASSUME QueueInv, NEW a \in Agents, PollTimesOut(a) \/ AgentDies(a)
  PROVE  QueueInv'
  <1>1. /\ polls' = filter(polls, Agents \ {a})
        /\ agent' = [agent EXCEPT ![a] = Idle]
        /\ UNCHANGED <<up, queue, store, tab, browser>>
        /\ \/ faults' = faults
           \/ faults < MaxFaults /\ faults' = faults + 1
    BY DEF PollTimesOut, AgentDies
  <1>2. polls \in Seq(Agents)
    BY DEF QueueInv, QueueOK
  <1>3. /\ polls' \in Seq(Agents)
        /\ \A i \in DOMAIN polls' : \E j \in DOMAIN polls : polls'[i] = polls[j]
    <2> DEFINE K == Agents \ {a}
    <2>1. polls' = filter(polls, K)
      BY <1>1
    <2> HIDE DEF K
    <2>2. QED
      BY <1>2, <2>1, FilterFacts
  <1>4. polls' # <<>> => polls # <<>>
    BY <1>2, <1>3
  <1>5. Served'
    BY <1>1, <1>4 DEF QueueInv, Served
  <1>6. ClientsTyped(agent')
    <2> DEFINE c == Idle
    <2>1. /\ c.id \in Ids \cup {NoId} /\ c.at \in Steps
          /\ c.of \in BrowserEvents \cup {"exit", None}
          /\ c.type \in Replies \cup {None}
      BY RestFacts
    <2> HIDE DEF c
    <2>2. agent' = [agent EXCEPT ![a] = c]
      BY <1>1 DEF c
    <2>3. QED
      BY <2>1, <2>2, ClientSet DEF QueueInv
  <1>7. faults' \in 0 .. MaxFaults
    <2>1. MaxFaults \in Nat /\ faults \in 0 .. MaxFaults
      BY LiveAssumption DEF LiveAssumption, QueueInv, ProcessOK
    <2>2. QED
      BY <1>1, <2>1
  <1>8. QED
    BY <1>1, <1>3, <1>5, <1>6, <1>7
       DEF QueueInv, QueueOK, StoreOK, OverlayOK, ProcessOK, OpenIfPending,
           Queued, store, browser

LEMMA GetQueue ==
  ASSUME QueueInv, NEW a \in Agents, handlePollGet(a)
  PROVE  QueueInv'
  <1> DEFINE i == findAvailablePendingEvent(queue)
  <1>1. queue \in Seq(QueuedEvents) /\ polls \in Seq(Agents)
    BY DEF QueueInv, QueueOK
  <1>2. \/ i = 0 /\ AllLeased(queue)
        \/ i \in DOMAIN queue /\ ~queue[i].leased /\ i # 0
    BY <1>1, AvailableFacts DEF AllLeased
  <1>3. up /\ UNCHANGED <<up, store, tab, browser, faults>>
    BY DEF handlePollGet
  <1>4. StoreOK' /\ OverlayOK' /\ ProcessOK' /\ OpenIfPending'
    BY <1>3 DEF QueueInv, StoreOK, OverlayOK, ProcessOK, OpenIfPending,
                store, browser
  <1>5. CASE i # 0
    <2>1. /\ queue' = leaseEvent(queue, i) /\ polls' = polls
          /\ agent' = [agent EXCEPT ![a] =
                         At("holding", queue[i].id, queue[i].type,
                            None)]
      BY <1>5 DEF handlePollGet
    <2>2. i \in DOMAIN queue /\ ~queue[i].leased
      BY <1>2, <1>5
    <2>3. /\ queue' \in Seq(QueuedEvents)
          /\ \A s \in Ids : \A t : Holds(queue, s, t) => Holds(queue', s, t)
      BY <1>1, <2>1, <2>2, LeaseFacts
    <2>4. ClientsTyped(agent')
      BY <1>1, <2>1, <2>2, HandOut DEF QueueInv
    <2>5. polls = <<>>
      BY <2>2 DEF QueueInv, Served, AllLeased
    <2>6. Queued' /\ Served' /\ QueueOK'
      BY <1>1, <1>3, <2>1, <2>3, <2>5
         DEF QueueInv, Queued, Served, QueueOK, store
    <2>7. QED
      BY <1>4, <2>4, <2>6 DEF QueueInv
  <1>6. CASE i = 0
    <2>1. /\ polls' = Append(polls, a) /\ queue' = queue
          /\ agent' = [agent EXCEPT ![a] = At("polling", NoId, None, None)]
      BY <1>6 DEF handlePollGet
    <2>2. polls' \in Seq(Agents)
      BY <1>1, <2>1, AppendProperties
    <2>3. ClientsTyped(agent')
      <3> DEFINE c == At("polling", NoId, None, None)
      <3>1. /\ c.at \in Steps /\ c.id = NoId /\ c.of = None
            /\ c.type = None
        BY AtFacts DEF Steps
      <3> HIDE DEF c
      <3>2. agent' = [agent EXCEPT ![a] = c]
        BY <2>1 DEF c
      <3>3. QED
        BY <3>1, <3>2, ClientSet DEF QueueInv
    <2>4. AllLeased(queue)
      BY <1>2, <1>6
    <2>5. Queued' /\ Served' /\ QueueOK'
      BY <1>1, <1>3, <2>1, <2>2, <2>4
         DEF QueueInv, Queued, Served, QueueOK, store
    <2>6. QED
      BY <1>4, <2>3, <2>5 DEF QueueInv
  <1>7. QED
    BY <1>5, <1>6

LEMMA HeardTypes ==
  ASSUME OverlayOK, NEW s, NEW r
  PROVE  Heard(s, r) \in [Ids -> Live \cup {"unused", "steering", "closed"}]
  <1> DEFINE v ==
        CASE r = "complete"   /\ page[s] = "saving" -> "closed"
          [] r = "discarded"  /\ page[s] \in Live -> "closed"
          [] r = "error"      /\ page[s] = "saving" -> "cycling"
          [] r = "error"      /\ page[s] \in {"generating", "cycling"} -> "picking"
          [] r \in {"error", "steer_done"} /\ page[s] = "steering" -> "closed"
          [] OTHER -> page[s]
  <1>1. Heard(s, r) = page \/ Heard(s, r) = [page EXCEPT ![s] = v]
    BY DEF Heard
  <1>2. v \in {"closed", "cycling", "picking", page[s]}
    OBVIOUS
  <1> HIDE DEF v
  <1>3. QED
    BY <1>1, <1>2 DEF OverlayOK, Live

\* Acknowledging a session's event leaves those of the others queued, and
\* makes none available.
LEMMA AcknowledgeFacts ==
  ASSUME NEW q \in Seq(QueuedEvents), NEW id,
         NEW r, r = acknowledgePendingEvent(q, id)
  PROVE  /\ r \in Seq(QueuedEvents)
         /\ \A s, t : s # id /\ Holds(q, s, t) => Holds(r, s, t)
         /\ (\E k \in DOMAIN q : q[k].id = id) \/ r = q
         /\ \A t : \/ Holds(q, id, t) => Holds(r, id, t)
                  \/ q[firstOf(q, id)].type = t
         /\ AllLeased(q) => AllLeased(r)
  <1>1. CASE r = q /\ ~\E k \in DOMAIN q : q[k].id = id
    BY <1>1
  <1> DEFINE i == firstOf(q, id)
  <1>2. CASE i \in DOMAIN q /\ q[i].id = id /\ r = RemoveAt(q, i)
    <2>1. i \in DOMAIN q /\ q[i].id = id /\ r = RemoveAt(q, i)
      BY <1>2
    <2> HIDE DEF i
    <2>2. /\ r \in Seq(QueuedEvents)
          /\ \A k \in DOMAIN r : \E j \in DOMAIN q \ {i} : r[k] = q[j]
          /\ \A j \in DOMAIN q \ {i} : \E k \in DOMAIN r : r[k] = q[j]
      BY <2>1, RemoveFacts
    <2>3. ASSUME NEW s, NEW t, s # id, Holds(q, s, t) PROVE Holds(r, s, t)
      BY <2>1, <2>2, <2>3 DEF Holds
    <2>4. AllLeased(q) => AllLeased(r)
      BY <2>2 DEF AllLeased
    <2>5. ASSUME NEW t, Holds(q, id, t), q[i].type # t
          PROVE  Holds(r, id, t)
      BY <2>1, <2>2, <2>5 DEF Holds
    <2>6. QED
      BY <2>1, <2>2, <2>3, <2>4, <2>5 DEF i
  <1>3. QED
    BY <1>1, <1>2, AcknowledgeIndex

LEMMA PostQueue ==
  ASSUME QueueInv, NEW a \in Agents, handlePollPost(a)
  PROVE  QueueInv'
  <1> DEFINE id == agent[a].id
             r == agent[a].type
             q == acknowledgePendingEvent(queue, id)
             c == AfterReply(a)
             ag == [agent EXCEPT ![a] = c]
  <1>1. /\ up /\ flushPendingPolls(q, polls, ag) /\ page' = Heard(id, r)
        /\ UNCHANGED <<up, source, applied, tab, net, faults>>
        /\ \/ journal' = [journal EXCEPT ![id] = applyEvent(@, ReplyEvent(r))]
           \/ /\ journal' = journal /\ ~\E i \in DOMAIN queue : queue[i].id = id
              /\ journal[id].phase \in Terminal
    BY DEF handlePollPost
  <1>2. queue \in Seq(QueuedEvents) /\ polls \in Seq(Agents)
    BY DEF QueueInv, QueueOK
  <1>3. /\ q \in Seq(QueuedEvents)
        /\ \A s, t : s # id /\ Holds(queue, s, t) => Holds(q, s, t)
        /\ (\E k \in DOMAIN queue : queue[k].id = id) \/ q = queue
        /\ AllLeased(queue) => AllLeased(q)
    BY <1>2, AcknowledgeFacts
  <1>4. ClientsTyped(ag)
    <2>1. /\ c.id \in Ids \cup {NoId} /\ c.at \in Steps
          /\ c.of \in BrowserEvents \cup {"exit", None}
          /\ c.type \in Replies \cup {None}
      BY RestFacts DEF AfterReply
    <2> HIDE DEF c
    <2>2. QED
      BY <2>1, ClientSet DEF QueueInv
  <1>5. /\ journal' \in [Ids -> [phase : Phases, pending : BrowserEvents \cup {None}]]
        /\ OpenIfPending'
        /\ \A s \in Ids : \/ journal'[s] = journal[s] /\ (s # id \/ q = queue)
                          \/ journal'[s].pending = None
    <2> HIDE DEF id, r, q, c
    <2>1. CASE journal' = [journal EXCEPT ![id] = applyEvent(@, ReplyEvent(r))]
      <3>1. /\ journal' \in [Ids -> [phase : Phases, pending : BrowserEvents \cup {None}]]
            /\ OpenIfPending'
            /\ \A t \in Ids : journal'[t] = journal[t]
                              \/ (t = id /\ journal'[t].pending = None)
        BY <2>1, RepliedFacts DEF QueueInv
      <3>2. ASSUME id \in Ids PROVE journal'[id].pending = None
        <4>1. ReplyEvent(r) \notin BrowserEvents
          BY DEF ReplyEvent, BrowserEvents
        <4>2. applyEvent(journal[id], ReplyEvent(r)).pending = None
          BY <4>1 DEF applyEvent
        <4>3. QED
          BY <2>1, <3>2, <4>2 DEF QueueInv, StoreOK
      <3>3. QED
        BY <3>1, <3>2
    <2>2. CASE /\ journal' = journal /\ ~\E i \in DOMAIN queue : queue[i].id = id
      BY <1>3, <2>2 DEF QueueInv, StoreOK, OpenIfPending
    <2>3. QED
      BY <1>1, <2>1, <2>2
  <1> HIDE DEF id, r, q, ag, c
  <1>6. \A s \in Ids : journal'[s].pending # None =>
          Holds(q, s, journal'[s].pending)
    BY <1>1, <1>3, <1>5 DEF QueueInv, Queued
  <1>7. polls # <<>> => OneAvailable(q)
    BY <1>3 DEF QueueInv, Served, AllLeased, OneAvailable
  <1>8. StoreOK' /\ OverlayOK' /\ ProcessOK'
    BY <1>1, <1>5, HeardTypes DEF QueueInv, StoreOK, OverlayOK, ProcessOK
  <1>9. QED
    BY <1>1, <1>3, <1>4, <1>5, <1>6, <1>7, <1>8, QueueServed

LEMMA StopQueue ==
  ASSUME QueueInv, ServerDies \/ \E a \in Agents : stopServer(a)
  PROVE  QueueInv'
  <1>1. UNCHANGED <<store, browser>>
    BY DEF ServerDies, stopServer
  <1>2. StoreOK' /\ OpenIfPending' /\ net' \subseteq net
        /\ page' \in [Ids -> Live \cup {"unused", "steering", "closed"}]
    BY <1>1 DEF QueueInv, StoreOK, OverlayOK, OpenIfPending, store, browser
  <1>3. ASSUME GoDown, agent' = [a \in Agents |-> agent'[a]],
               \A a \in Agents : agent'[a] \in {Idle, agent[a]}
        PROVE  QueueInv'
    <2>1. ClientsTyped(agent')
      BY <1>3, ClientsDown DEF QueueInv
    <2>2. QED
      BY <1>2, <1>3, <2>1, DownQueue
  <1>4. CASE ServerDies
    <2>1. /\ GoDown /\ agent' = [a \in Agents |-> agent'[a]]
          /\ \A a \in Agents : agent'[a] \in {Idle, agent[a]}
      BY <1>4 DEF ServerDies
    <2>2. QED
      BY <1>3, <2>1
  <1>5. ASSUME NEW a \in Agents, stopServer(a) PROVE QueueInv'
    <2>1. CASE /\ GoDown
               /\ agent' = [b \in Agents |-> IF b = a \/ agent[b].at = "polling"
                                             THEN Idle ELSE agent[b]]
      <3>1. /\ agent' = [b \in Agents |-> agent'[b]]
            /\ \A b \in Agents : agent'[b] \in {Idle, agent[b]}
        BY <2>1
      <3>2. QED
        BY <1>3, <2>1, <3>1
    <2>2. CASE /\ agent' = [agent EXCEPT ![a] = Idle]
               /\ UNCHANGED <<up, faults, queue, polls, tab>>
      <3>1. agent' = [b \in Agents |-> agent'[b]]
            /\ \A b \in Agents : agent'[b] \in {Idle, agent[b]}
        BY <2>2 DEF QueueInv, ClientsTyped
      <3>2. ClientsTyped(agent')
        BY <3>1, ClientsDown DEF QueueInv
      <3>3. QED
        BY <1>1, <2>2, <3>2, QueueSame
           DEF QueueInv, StoreOK, OverlayOK, ProcessOK, store, browser
    <2>3. QED
      BY <1>5, <2>1, <2>2 DEF stopServer
  <1>6. QED
    BY <1>4, <1>5

\* A restarted server has an event of every session that waits for one.
LEMMA RestoreQueue ==
  ASSUME QueueInv, restorePendingEventsFromStore
  PROVE  QueueInv'
  <1> DEFINE W == {s \in Ids : /\ journal[s].phase \notin Terminal
                               /\ journal[s].pending # None}
  <1>1. /\ ~up /\ up' = TRUE
        /\ UNCHANGED <<polls, store, tab, browser, agent, faults>>
    BY DEF restorePendingEventsFromStore
  <1>2. PICK f \in SetToSeqs(W) :
          queue' = [i \in DOMAIN f |-> [id |-> f[i], leased |-> FALSE,
                                        type |-> journal[f[i]].pending]]
    BY DEF restorePendingEventsFromStore, Restored
  <1>3. W \in SUBSET Ids /\ IsFiniteSet(W)
    BY FS_Subset, LiveAssumption DEF LiveAssumption
  <1>4. \A s \in Ids : journal[s].pending # None => s \in W
    BY DEF QueueInv, OpenIfPending
  <1>5. \A s \in W : s \in Ids /\ journal[s].pending \in BrowserEvents
    BY DEF QueueInv, StoreOK
  <1> HIDE DEF W
  <1>6. /\ Cardinality(W) \in Nat /\ f \in [1 .. Cardinality(W) -> W]
        /\ \A s \in W : \E i \in 1 .. Cardinality(W) : f[i] = s
    BY <1>3, PermutationFacts
  <1> DEFINE n == Cardinality(W)
             e(s) == [id |-> s, leased |-> FALSE, type |-> journal[s].pending]
  <1>7. queue' = [i \in 1 .. n |-> e(f[i])]
    BY <1>2, <1>6
  <1>8. \A s \in W : /\ e(s) \in QueuedEvents /\ e(s).id = s
                     /\ e(s).type = journal[s].pending
    BY <1>5 DEF QueuedEvents
  <1> HIDE DEF e, n
  <1>9. n \in Nat /\ f \in [1 .. n -> W]
        /\ \A s \in W : \E i \in 1 .. n : f[i] = s
    BY <1>6 DEF n
  <1>10. queue' \in Seq(QueuedEvents)
    <2>1. queue' \in [1 .. n -> QueuedEvents]
      BY <1>7, <1>8, <1>9
    <2>2. QED
      BY <1>9, <2>1, SeqDef
  <1>11. ASSUME NEW s \in Ids, journal[s].pending # None
         PROVE  Holds(queue', s, journal[s].pending)
    <2>1. PICK i \in 1 .. n : f[i] = s
      BY <1>4, <1>9, <1>11
    <2>2. i \in DOMAIN queue' /\ queue'[i] = e(s)
      BY <1>7, <2>1
    <2>3. QED
      BY <1>4, <1>8, <1>11, <2>2 DEF Holds
  <1>12. Queued' /\ Served' /\ QueueOK'
    BY <1>1, <1>10, <1>11 DEF QueueInv, Queued, Served, QueueOK, store
  <1>13. QED
    BY <1>1, <1>12 DEF QueueInv, StoreOK, OverlayOK, ProcessOK, OpenIfPending,
                       ClientsTyped, store, browser

LEMMA InitQueue ==
  ASSUME Init
  PROVE  QueueInv
  <1>1. QueueOK /\ polls = <<>>
    BY DEF Init, QueueOK
  <1>2. ClientsTyped(agent)
    BY DEF Init, ClientsTyped, Idle, Steps
  <1>3. StoreOK /\ OpenIfPending /\ \A s \in Ids : journal[s].pending = None
    BY DEF Init, StoreOK, OpenIfPending, baseSnapshot, Phases
  <1>4. OverlayOK /\ up = TRUE
    BY DEF Init, OverlayOK
  <1>5. faults \in 0 .. MaxFaults
    BY LiveAssumption DEF Init, LiveAssumption
  <1>6. QED
    BY <1>1, <1>2, <1>3, <1>4, <1>5 DEF QueueInv, ProcessOK, Queued, Served

LEMMA NextQueue ==
  ASSUME QueueInv, [Next]_vars
  PROVE  QueueInv'
  <1>1. CASE Next
    <2>1. CASE LeaseExpires \/ Connect \/ Disconnect \/ ExitTimerFires
      BY <2>1, LeaseQueue, TabQueue, ExitQueue
    <2>2. CASE ServerDies \/ restorePendingEventsFromStore
      BY <2>2, StopQueue, RestoreQueue
    <2>3. CASE \E s \in Ids :
                 \/ handleGo(s) \/ variantsArrive(s)
                 \/ handleAccept(s) \/ handleDiscard(s) \/ resumeSession(s)
      BY <2>3, OverlayQueue
    <2>4. CASE \E m \in net : PostEvent(m) \/ RequestFails(m) \/ DiesUnanswered(m)
      BY <2>4, RequestQueue
    <2>5. ASSUME NEW a \in Agents, AgentStep(a) \/ PollTimesOut(a) \/ AgentDies(a)
          PROVE  QueueInv'
      <3>1. CASE AgentWorks(a)
        BY <3>1, WritesQueue, CleanupQueue, SteerQueue, DecisionQueue,
           StopQueue DEF AgentWorks
      <3>2. CASE \/ handlePollGet(a) \/ handlePollPost(a)
                 \/ replyLost(a) \/ completeOffline(a)
        BY <3>2, GetQueue, PostQueue, LostQueue, OfflineQueue
      <3>3. QED
        BY <2>5, <3>1, <3>2, LeavesQueue DEF AgentStep
    <2>6. QED
      BY <1>1, <2>1, <2>2, <2>3, <2>4, <2>5 DEF Next
  <1>2. CASE UNCHANGED vars
    BY <1>2 DEF vars, store, browser, QueueInv, QueueOK, StoreOK, OverlayOK,
                ProcessOK, OpenIfPending, Queued, Served, ClientsTyped
  <1>3. QED
    BY <1>1, <1>2

LEMMA QueueInvariant == Spec => []QueueInv
  <1>1. QED
    BY InitQueue, NextQueue, PTL DEF Spec

-----------------------------------------------------------------------------
(* What may take a request out of the journal and the queue.               *)

LEMMA IsKept ==
  ASSUME QueueInv, up, NEW s \in Ids, NEW t \in BrowserEvents, Kept(s, t)
  PROVE  Holds(queue, s, t)
  BY StoreAssumption DEF QueueInv, Queued, Kept

\* Neither the queue nor the journals lose anything.
LEMMA NothingGoes ==
  ASSUME \A s \in Ids : journal'[s].pending = journal[s].pending,
         \A s \in Ids : \A t \in BrowserEvents :
           Holds(queue, s, t) => Holds(queue', s, t)
  PROVE  GoesInOneOfThreeWays
  BY DEF GoesInOneOfThreeWays, Kept

\* The queue of a running server loses nothing.
LEMMA QueueKeeps ==
  ASSUME QueueInv, up,
         \A s \in Ids : \A t \in BrowserEvents :
           Holds(queue, s, t) => Holds(queue', s, t)
  PROVE  GoesInOneOfThreeWays
  BY IsKept DEF GoesInOneOfThreeWays, Kept

LEMMA DownKeeps ==
  ASSUME GoDown
  PROVE  GoesInOneOfThreeWays
  BY DEF GoDown, GoesInOneOfThreeWays, Kept, LostInMemory

LEMMA RequestKeeps ==
  ASSUME QueueInv, NEW m \in net,
         PostEvent(m) \/ RequestFails(m) \/ DiesUnanswered(m)
  PROVE  GoesInOneOfThreeWays
  <1>1. CASE PostEvent(m)
    <2> DEFINE q == enqueueEvent(queue, m.id, m.type)
    <2>1. up /\ flushPendingPolls(q, polls, agent)
      BY <1>1 DEF PostEvent
    <2>2. m.id \in Ids /\ m.type \in BrowserEvents
      BY AnsweredTypes DEF QueueInv
    <2>3. /\ q \in Seq(QueuedEvents)
          /\ \A s, t : Holds(queue, s, t) => Holds(q, s, t)
          /\ AllLeased(queue) => OneAvailable(q)
      BY <2>2, EnqueueFacts DEF QueueInv, QueueOK
    <2> HIDE DEF q
    <2>4. \A s \in Ids : \A t : Holds(q, s, t) => Holds(queue', s, t)
      BY <2>1, <2>3, FlushFacts DEF QueueInv, QueueOK, Served
    <2>5. QED
      BY <2>1, <2>3, <2>4, QueueKeeps
  <1>2. CASE RequestFails(m)
    BY <1>2, NothingGoes DEF RequestFails, store
  <1>3. CASE DiesUnanswered(m)
    BY <1>3, DownKeeps DEF DiesUnanswered
  <1>4. QED
    BY <1>1, <1>2, <1>3

LEMMA TimersKeep ==
  ASSUME QueueInv, LeaseExpires \/ ExitTimerFires
  PROVE  GoesInOneOfThreeWays
  <1>1. queue \in Seq(QueuedEvents) /\ polls \in Seq(Agents)
        /\ ClientsTyped(agent)
    BY DEF QueueInv, QueueOK
  <1>2. \E q \in Seq(QueuedEvents) :
          /\ flushPendingPolls(q, polls, agent)
          /\ \A s, t : Holds(queue, s, t) => Holds(q, s, t)
          /\ AllLeased(queue) => OneAvailable(q)
    <2>1. CASE LeaseExpires
      <3>1. PICK i \in DOMAIN queue :
              flushPendingPolls([queue EXCEPT ![i].leased = FALSE], polls, agent)
        BY <2>1 DEF LeaseExpires
      <3> DEFINE e == [queue[i] EXCEPT !.leased = FALSE]
                 q == [queue EXCEPT ![i] = e]
      <3>2. /\ Len(queue) \in Nat /\ DOMAIN queue = 1 .. Len(queue)
            /\ queue[i] \in QueuedEvents
        BY <1>1, LenProperties, ElementOfSeq
      <3>3. /\ e \in QueuedEvents /\ ~e.leased
            /\ e.id = queue[i].id /\ e.type = queue[i].type
        BY <3>2 DEF QueuedEvents
      <3>4. flushPendingPolls(q, polls, agent)
        BY <3>1
      <3> HIDE DEF e
      <3>5. q \in Seq(QueuedEvents)
        BY <1>1, <3>2, <3>3, ExceptSeq
      <3>6. DOMAIN q = DOMAIN queue /\ q[i] = e
            /\ \A k \in DOMAIN queue \ {i} : q[k] = queue[k]
        BY <3>2
      <3> HIDE DEF q
      <3>7. \A s, t : Holds(queue, s, t) => Holds(q, s, t)
        BY <3>3, <3>6 DEF Holds
      <3>8. AllLeased(queue) => OneAvailable(q)
        BY <3>6 DEF AllLeased, OneAvailable
      <3>9. QED
        BY <3>4, <3>5, <3>7, <3>8
    <2>2. CASE ExitTimerFires
      <3> DEFINE q == enqueueEvent(queue, NoId, "exit")
      <3>1. flushPendingPolls(q, polls, agent)
        BY <2>2 DEF ExitTimerFires
      <3>2. /\ q \in Seq(QueuedEvents)
            /\ \A s, t : Holds(queue, s, t) => Holds(q, s, t)
            /\ AllLeased(queue) => OneAvailable(q)
        BY <1>1, EnqueueFacts
      <3> HIDE DEF q
      <3>3. QED
        BY <3>1, <3>2
    <2>3. QED
      BY <2>1, <2>2
  <1>3. PICK q \in Seq(QueuedEvents) :
          /\ flushPendingPolls(q, polls, agent)
          /\ \A s, t : Holds(queue, s, t) => Holds(q, s, t)
          /\ AllLeased(queue) => OneAvailable(q)
    BY <1>2
  <1>4. \A s \in Ids : \A t : Holds(q, s, t) => Holds(queue', s, t)
    BY <1>1, <1>3, FlushFacts DEF QueueInv, Served
  <1>5. up
    BY DEF LeaseExpires, ExitTimerFires
  <1>6. QED
    BY <1>3, <1>4, <1>5, QueueKeeps

LEMMA ConnectKeeps ==
  ASSUME QueueInv, Connect
  PROVE  GoesInOneOfThreeWays
  <1> DEFINE K == {e \in Range(queue) : e.type # "exit"}
  <1>1. up /\ queue' = filter(queue, K) /\ queue \in Seq(QueuedEvents)
    BY DEF Connect, cancelQueuedAnonymousExitEvents, QueueInv, QueueOK
  <1>2. \A j \in DOMAIN queue : queue[j].type # "exit" => queue[j] \in K
    BY DEF Range
  <1> HIDE DEF K
  <1>3. \A j \in DOMAIN queue : queue[j] \in K =>
          \E i \in DOMAIN queue' : queue'[i] = queue[j]
    BY <1>1, FilterFacts
  <1>4. \A t \in BrowserEvents : t # "exit"
    BY DEF BrowserEvents
  <1>5. \A s \in Ids : \A t \in BrowserEvents :
          Holds(queue, s, t) => Holds(queue', s, t)
    BY <1>2, <1>3, <1>4 DEF Holds
  <1>6. QED
    BY <1>1, <1>5, QueueKeeps

LEMMA RestoreKeeps ==
  ASSUME QueueInv, restorePendingEventsFromStore
  PROVE  GoesInOneOfThreeWays
  <1>1. queue = <<>> /\ UNCHANGED journal
    BY DEF restorePendingEventsFromStore, QueueInv, Served, store
  <1>2. \A s \in Ids : \A t \in BrowserEvents : ~Holds(queue, s, t)
    BY <1>1 DEF Holds
  <1>3. QED
    BY <1>1, <1>2, NothingGoes

\* A poll takes an event on lease.
LEMMA GetKeeps ==
  ASSUME QueueInv, NEW a \in Agents, handlePollGet(a)
  PROVE  GoesInOneOfThreeWays
  <1> DEFINE i == findAvailablePendingEvent(queue)
  <1>1. up /\ queue \in Seq(QueuedEvents)
    BY DEF handlePollGet, QueueInv, QueueOK
  <1>2. i \in DOMAIN queue \/ i = 0
    BY <1>1, AvailableFacts
  <1>3. \/ queue' = queue
        \/ i \in DOMAIN queue /\ queue' = leaseEvent(queue, i)
    BY <1>2 DEF handlePollGet
  <1> HIDE DEF i
  <1>4. \A s \in Ids : \A t : Holds(queue, s, t) => Holds(queue', s, t)
    BY <1>1, <1>3, LeaseFacts
  <1>5. QED
    BY <1>1, <1>4, QueueKeeps

\* An agent that reports leaves what it had in hand.
LEMMA ReportEnds ==
  ASSUME NEW a \in Agents, Reporting(a),
         agent'[a] \in {AfterReply(a), Idle} \/ agent'[a].at = "holding"
  PROVE  agent'[a] # agent[a]
  <1>1. agent[a].at \in {"replying", "completing"}
    BY DEF Reporting
  <1>2. Idle.at = "idle" /\ ToComplete(a, "complete").type = "complete"
    BY DEF Idle, ToComplete, At
  <1>3. QED
    BY <1>1, <1>2 DEF AfterReply

LEMMA PostKeeps ==
  ASSUME QueueInv, NEW a \in Agents, handlePollPost(a)
  PROVE  GoesInOneOfThreeWays
  <1> DEFINE id == agent[a].id
             q == acknowledgePendingEvent(queue, id)
             ag == [agent EXCEPT ![a] = AfterReply(a)]
  <1>1. up /\ Reporting(a) /\ flushPendingPolls(q, polls, ag)
    BY DEF handlePollPost
  <1>2. /\ queue \in Seq(QueuedEvents) /\ polls \in Seq(Agents)
        /\ ClientsTyped(agent)
    BY DEF QueueInv, QueueOK
  <1>3. /\ q \in Seq(QueuedEvents)
        /\ \A s, t : s # id /\ Holds(queue, s, t) => Holds(q, s, t)
        /\ \A t : \/ Holds(queue, id, t) => Holds(q, id, t)
                 \/ queue[firstOf(queue, id)].type = t
        /\ AllLeased(queue) => AllLeased(q)
    BY <1>2, AcknowledgeFacts
  <1> HIDE DEF q
  <1>4. ClientsTyped(ag) /\ ag[a] = AfterReply(a)
    <2> DEFINE c == AfterReply(a)
    <2>1. /\ c.id \in Ids \cup {NoId} /\ c.at \in Steps
          /\ c.of \in BrowserEvents \cup {"exit", None}
          /\ c.type \in Replies \cup {None}
      BY RestFacts DEF AfterReply
    <2> HIDE DEF c
    <2>2. ClientsTyped([agent EXCEPT ![a] = c])
      BY <1>2, <2>1, ClientSet
    <2>3. [agent EXCEPT ![a] = c][a] = c
      BY <1>2 DEF ClientsTyped
    <2>4. QED
      BY <2>2, <2>3 DEF c
  <1> HIDE DEF ag
  <1>5. polls # <<>> => OneAvailable(q)
    BY <1>3 DEF QueueInv, Served, AllLeased, OneAvailable
  <1>6. \A s \in Ids : \A t : Holds(q, s, t) => Holds(queue', s, t)
    BY <1>1, <1>2, <1>3, <1>4, <1>5, FlushFacts
  <1>7. agent'[a] = ag[a] \/ agent'[a].at = "holding"
    BY <1>1, <1>4, FlushServes DEF ClientsTyped
  <1>8. agent'[a] # agent[a]
    BY <1>1, <1>4, <1>7, ReportEnds
  <1>9. ASSUME NEW s \in Ids, NEW t \in BrowserEvents, Kept(s, t), ~Kept(s, t)'
        PROVE  AnsweredItself(s, t) \/ TakenByAnother(s, t)
    <2>1. Holds(queue, s, t) /\ ~Holds(queue', s, t)
      BY <1>1, <1>9, IsKept DEF Kept
    <2>2. s = id /\ queue[firstOf(queue, s)].type = t
      BY <1>3, <1>6, <2>1
    <2>3. Reports(a, s)
      BY <1>1, <1>8, <2>2 DEF Reports
    <2>4. QED
      BY <2>2, <2>3 DEF AnsweredItself, TakenByAnother
  <1>10. QED
    BY <1>9 DEF GoesInOneOfThreeWays

\* A completion without a server settles what the journal waits for.
LEMMA OfflineKeeps ==
  ASSUME QueueInv, NEW a \in Agents, completeOffline(a)
  PROVE  GoesInOneOfThreeWays
  <1>1. /\ ~up /\ Reporting(a) /\ UNCHANGED queue
        /\ agent' = [agent EXCEPT ![a] = Idle]
        /\ journal' = [journal EXCEPT ![agent[a].id] =
                         applyEvent(@, ReplyEvent(agent[a].type))]
    BY DEF completeOffline, Reporting
  <1>2. agent'[a] = Idle
    BY <1>1 DEF QueueInv, ClientsTyped
  <1>3. agent'[a] # agent[a]
    BY <1>1, <1>2, ReportEnds
  <1>4. ASSUME NEW s \in Ids, NEW t \in BrowserEvents, Kept(s, t), ~Kept(s, t)'
        PROVE  AnsweredItself(s, t) \/ TakenByAnother(s, t)
    <2>1. journal'[s] # journal[s]
      BY <1>1, <1>4 DEF Kept
    <2>2. s = agent[a].id
      BY <1>1, <2>1 DEF QueueInv, StoreOK
    <2>3. Reports(a, s)
      BY <1>1, <1>3, <2>2 DEF Reports
    <2>4. QED
      BY <1>1, <2>3 DEF AnsweredItself, TakenByAnother
  <1>5. QED
    BY <1>4 DEF GoesInOneOfThreeWays

LEMMA StepKeeps ==
  ASSUME QueueInv, [Next]_vars
  PROVE  GoesInOneOfThreeWays
  <1>1. ASSUME NEW a \in Agents, AgentStep(a)
        PROVE  GoesInOneOfThreeWays
    <2>1. CASE handlePollGet(a) \/ handlePollPost(a) \/ completeOffline(a)
      BY <2>1, GetKeeps, PostKeeps, OfflineKeeps
    <2>2. CASE replyLost(a)
      BY <2>2, NothingGoes DEF replyLost, store
    <2>3. CASE \/ writeVariants(a) \/ doSteer(a) \/ carbonizeCleanup(a)
               \/ augmentEventWithAcceptHandling(a)
      BY <2>3, NothingGoes DEF writeVariants, doSteer, carbonizeCleanup,
                               augmentEventWithAcceptHandling, store
    <2>4. CASE stopServer(a)
      <3>1. CASE GoDown
        BY <3>1, DownKeeps
      <3>2. CASE ~GoDown
        BY <2>4, <3>2, NothingGoes DEF stopServer, store
      <3>3. QED
        BY <3>1, <3>2
    <2>5. QED
      BY <1>1, <2>1, <2>2, <2>3, <2>4 DEF AgentStep, AgentWorks
  <1>2. ASSUME NEW a \in Agents, PollTimesOut(a) \/ AgentDies(a)
        PROVE  GoesInOneOfThreeWays
    BY <1>2, NothingGoes DEF PollTimesOut, AgentDies, store
  <1>3. ASSUME NEW s \in Ids,
               handleGo(s) \/ variantsArrive(s) \/ handleAccept(s)
                 \/ handleDiscard(s) \/ resumeSession(s)
        PROVE  GoesInOneOfThreeWays
    BY <1>3, NothingGoes DEF handleGo, variantsArrive, handleAccept,
                             handleDiscard, resumeSession, store
  <1>4. CASE LeaseExpires \/ Connect \/ ExitTimerFires
               \/ restorePendingEventsFromStore
    BY <1>4, TimersKeep, ConnectKeeps, RestoreKeeps
  <1>5. CASE Disconnect
    BY <1>5, NothingGoes DEF Disconnect, store
  <1>6. CASE ServerDies
    BY <1>6, DownKeeps DEF ServerDies
  <1>7. CASE UNCHANGED vars
    BY <1>7, NothingGoes DEF vars, store
  <1>8. QED
    BY <1>1, <1>2, <1>3, <1>4, <1>5, <1>6, <1>7, RequestKeeps DEF Next

(* For any sessions, agents and number of faults: a request leaves the     *)
(* journal and the queue only by a reply to it, by a reply to another      *)
(* event of its session that takes it as the first in the queue, or with   *)
(* the queue of a server that dies after its slot was emptied              *)
(* (live-server.mjs:910-919, live-session-store.mjs:179-187).              *)
THEOREM RequestsLeaveInThreeWays == Spec => RequestsAreKept
  <1>1. QueueInv /\ [Next]_vars => GoesInOneOfThreeWays
    BY StepKeeps
  <1>2. QED
    BY <1>1, QueueInvariant, PTL DEF Spec, RequestsAreKept

\* What a journal waits for is queued, and no poll is left waiting beside
\* an event that could be handed to it.
THEOREM PollsAreServed == Spec => []NoMissedWakeup
  <1>1. QueueInv => TypeOK
    BY DEF QueueInv, QueueOK, ClientsTyped, StoreOK, OverlayOK, ProcessOK,
           TypeOK
  <1>2. QueueInv => NoMissedWakeup
    BY <1>1, NoneAvailable DEF QueueInv, QueueOK, Queued, Served,
                               JournalledIsQueued, NoMissedWakeup
  <1>3. QED
    BY <1>2, QueueInvariant, PTL

-----------------------------------------------------------------------------
(* What empties the slot of a journal.                                     *)

\* What a step does to the requests that the journals wait for: the answer
\* of an agent empties the slot of its session, and only such an answer or
\* a newer request takes a request out of it.
Settles ==
  /\ \A a \in Agents, s \in Ids :
       handlePollPost(a) /\ agent[a].id = s => journal'[s].pending = None
  /\ \A s \in Ids : journal'[s].pending # journal[s].pending =>
       \/ /\ journal'[s].pending = None
          /\ \E a \in Agents : Reporting(a) /\ agent[a].id = s
       \/ \E m \in net : m.id = s /\ journal'[s].pending = m.type

LEMMA AnswerEmpties ==
  ASSUME StoreOK, NEW s \in Ids, NEW r,
         journal' = [journal EXCEPT ![s] = applyEvent(@, ReplyEvent(r))]
  PROVE  journal'[s].pending = None
  <1> DEFINE e == applyEvent(journal[s], ReplyEvent(r))
  <1>1. ReplyEvent(r) \in {"steer_done", "discarded", "complete",
                           "agent_error", "agent_done"}
    BY DEF ReplyEvent
  <1>2. e.pending = None
    BY <1>1 DEF applyEvent, BrowserEvents
  <1>3. journal' = [journal EXCEPT ![s] = e]
    OBVIOUS
  <1> HIDE DEF e
  <1>4. QED
    BY <1>2, <1>3 DEF StoreOK

\* A reply that is not journalled is late: its session waits for nothing.
LEMMA ReplySettles ==
  ASSUME QueueInv, NEW a \in Agents, NEW s \in Ids,
         handlePollPost(a), agent[a].id = s
  PROVE  journal'[s].pending = None
  <1>1. \/ journal' = journal /\ journal[s].phase \in Terminal
        \/ journal' = [journal EXCEPT ![s] =
                         applyEvent(@, ReplyEvent(agent[a].type))]
    BY DEF handlePollPost
  <1>2. CASE journal' = journal /\ journal[s].phase \in Terminal
    BY <1>2 DEF QueueInv, OpenIfPending
  <1>3. CASE journal' = [journal EXCEPT ![s] =
                           applyEvent(@, ReplyEvent(agent[a].type))]
    BY <1>3, AnswerEmpties DEF QueueInv
  <1>4. QED
    BY <1>1, <1>2, <1>3

\* The journals change only with a reply or a request.
LEMMA SlotChanges ==
  ASSUME QueueInv, [Next]_vars
  PROVE  \/ journal' = journal
         \/ \E a \in Agents :
              /\ Reporting(a)
              /\ journal' = [journal EXCEPT ![agent[a].id] =
                               applyEvent(@, ReplyEvent(agent[a].type))]
         \/ \E m \in net :
              journal' = [journal EXCEPT ![m.id] = applyEvent(@, m.type)]
  <1>1. ASSUME NEW a \in Agents, AgentStep(a)
        PROVE  \/ journal' = journal
               \/ /\ Reporting(a)
                  /\ journal' = [journal EXCEPT ![agent[a].id] =
                                   applyEvent(@, ReplyEvent(agent[a].type))]
    <2>1. CASE handlePollPost(a)
      BY <2>1 DEF handlePollPost
    <2>2. CASE completeOffline(a)
      BY <2>2 DEF completeOffline, Reporting
    <2>3. CASE handlePollGet(a) \/ replyLost(a)
      BY <2>3 DEF handlePollGet, replyLost, store
    <2>4. CASE AgentWorks(a)
      BY <2>4 DEF AgentWorks, writeVariants, doSteer, carbonizeCleanup,
                  augmentEventWithAcceptHandling, stopServer, store
    <2>5. QED
      BY <1>1, <2>1, <2>2, <2>3, <2>4 DEF AgentStep
  <1>2. ASSUME NEW a \in Agents, PollTimesOut(a) \/ AgentDies(a)
        PROVE  journal' = journal
    BY <1>2 DEF PollTimesOut, AgentDies, store
  <1>3. ASSUME NEW m \in net, PostEvent(m) \/ RequestFails(m) \/ DiesUnanswered(m)
        PROVE  \/ journal' = journal
               \/ journal' = [journal EXCEPT ![m.id] = applyEvent(@, m.type)]
    BY <1>3 DEF PostEvent, RequestFails, DiesUnanswered, Journalled, store
  <1>4. ASSUME NEW s \in Ids,
               handleGo(s) \/ variantsArrive(s) \/ handleAccept(s)
                 \/ handleDiscard(s) \/ resumeSession(s)
        PROVE  journal' = journal
    BY <1>4 DEF handleGo, variantsArrive, handleAccept, handleDiscard,
                resumeSession, store
  <1>5. ASSUME LeaseExpires \/ Connect \/ Disconnect \/ ExitTimerFires
                 \/ ServerDies \/ restorePendingEventsFromStore
        PROVE  journal' = journal
    BY <1>5 DEF LeaseExpires, Connect, Disconnect, ExitTimerFires, ServerDies,
                restorePendingEventsFromStore, store
  <1>6. CASE UNCHANGED vars
    BY <1>6 DEF vars, store
  <1>7. QED
    BY <1>1, <1>2, <1>3, <1>4, <1>5, <1>6 DEF Next

LEMMA SettlesStep ==
  ASSUME QueueInv, [Next]_vars
  PROVE  Settles
  <1>1. ASSUME NEW s \in Ids, journal'[s].pending # journal[s].pending
        PROVE  \/ /\ journal'[s].pending = None
                  /\ \E a \in Agents : Reporting(a) /\ agent[a].id = s
               \/ \E m \in net : m.id = s /\ journal'[s].pending = m.type
    <2>1. ASSUME NEW a \in Agents, Reporting(a),
                 journal' = [journal EXCEPT ![agent[a].id] =
                               applyEvent(@, ReplyEvent(agent[a].type))]
          PROVE  journal'[s].pending = None /\ agent[a].id = s
      <3>1. agent[a].id = s
        BY <1>1, <2>1 DEF QueueInv, StoreOK
      <3>2. QED
        BY <2>1, <3>1, AnswerEmpties DEF QueueInv
    <2>2. ASSUME NEW m \in net,
                 journal' = [journal EXCEPT ![m.id] = applyEvent(@, m.type)]
          PROVE  m.id = s /\ journal'[s].pending = m.type
      <3>1. m.id = s /\ m.type \in BrowserEvents
        BY <1>1, <2>2 DEF QueueInv, StoreOK, OverlayOK
      <3>2. QED
        BY <2>2, <3>1, JournalledFacts DEF QueueInv
    <2>3. QED
      BY <1>1, <2>1, <2>2, SlotChanges
  <1>2. QED
    BY <1>1, ReplySettles DEF Settles

(* Every answer of an agent settles its session, late ones and those to    *)
(* another event of the session included, and nothing else but a newer     *)
(* request takes a journalled one out of its slot: no restart, death or    *)
(* expired lease empties it.  It is the step towards RequestsAreSettled    *)
(* that the fairness of the agents repeats (live-server.mjs:2066-2105,     *)
(* live-session-store.mjs:155-273).                                        *)
THEOREM AnswersSettle == Spec => [][Settles]_vars
  <1>1. QueueInv /\ [Next]_vars => Settles
    BY SettlesStep
  <1>2. QED
    BY <1>1, QueueInvariant, PTL DEF Spec

-----------------------------------------------------------------------------
(* ManualEdits, for any page and any bounds: the helper server's commit of  *)
(* copy edits locks the page and implements EditLedger.                    *)


LEMMA TextsNat == Texts \subseteq Nat /\ 0 \in Texts
  BY ManualAssumption DEF Texts, ManualAssumption

LEMMA CountFacts ==
  ASSUME NEW S \in SUBSET Elements
  PROVE  /\ IsFiniteSet(S) /\ Cardinality(S) \in Nat
         /\ Cardinality(S) = 0 <=> S = {}
  BY ManualAssumption, FS_Subset, FS_CardinalityType, FS_EmptySet DEF ManualAssumption

LEMMA BatchFacts ==
  /\ \A S \in SUBSET Elements : [S -> Entry] \subseteq Batches
  /\ \A b \in Batches : /\ DOMAIN b \in SUBSET Elements
                        /\ b \in [DOMAIN b -> Entry]
  BY DEF Batches

LEMMA PendingFacts ==
  ASSUME NEW b \in [Elements -> Entry \cup {Nothing}]
  PROVE  /\ Pending(b) \in SUBSET Elements
         /\ [e \in Pending(b) |-> b[e]] \in Batches
         /\ DOMAIN [e \in Pending(b) |-> b[e]] = Pending(b)
         /\ EntryIds(b) \in SUBSET Texts
  <1>1. Pending(b) \in SUBSET Elements
    BY DEF Pending
  <1>2. [e \in Pending(b) |-> b[e]] \in [Pending(b) -> Entry]
    BY DEF Pending
  <1>3. EntryIds(b) \in SUBSET Texts
    BY DEF EntryIds, Pending, Entry
  <1>4. QED
    BY <1>1, <1>2, <1>3, BatchFacts

-----------------------------------------------------------------------------
(* The dock.                                                               *)

\* The dock is locked for good, offers something, and asks for no decision.
Locked(t) == t.view \in {"none", "loading"} /\ t.stored /\ t.live
Offers(t) == t.view \in {"ready", "decision", "rolled back"}
Quiet(t) == t.view \in {"none", "ready", "loading"}

\* What no change of the view touches.
Alike(u, t) == /\ u.live = t.live /\ u.asked = t.asked
               /\ u.connected = t.connected /\ u.lapsed = t.lapsed

LEMMA CounterDock ==
  ASSUME NEW t \in Docks, NEW n \in Nat,
         NEW u, u = updatePendingCounter(t, n)
  PROVE  /\ u \in Docks /\ Alike(u, t)
         /\ Offers(u) => n # 0
         /\ Quiet(t) \/ n = 0 => Quiet(u)
         /\ n # 0 /\ Locked(t) => Locked(u)
  <1>1. CASE n = 0
    <2>1. u = [t EXCEPT !.view = "none", !.stored = FALSE]
      BY <1>1 DEF updatePendingCounter
    <2>2. QED
      BY <1>1, <2>1 DEF Docks, Views, Offers, Alike, Quiet
  <1>2. CASE n # 0 /\ (t.view = "loading" \/ t.stored)
    <2>1. u = [t EXCEPT !.view = "loading", !.stored = TRUE]
      BY <1>2 DEF updatePendingCounter
    <2>2. QED
      BY <1>2, <2>1 DEF Docks, Views, Offers, Locked, Alike, Quiet
  <1>3. CASE n # 0 /\ ~(t.view = "loading" \/ t.stored)
    <2>1. PICK v \in Views : /\ u = [t EXCEPT !.view = v]
                             /\ Quiet(t) => v \in {"none", "ready", "loading"}
      <3>1. t.view \in Views
        BY DEF Docks
      <3>2. u = [t EXCEPT !.view = IF t.view = "none" THEN "ready"
                    ELSE IF t.view = "decision" THEN "rolled back" ELSE t.view]
        BY <1>3 DEF updatePendingCounter
      <3>3. QED
        BY <3>1, <3>2 DEF Views, Quiet
    <2>2. u \in Docks /\ Alike(u, t) /\ (Quiet(t) => Quiet(u))
      BY <2>1 DEF Docks, Alike, Quiet
    <2>3. QED
      BY <1>3, <2>2 DEF Locked
  <1>4. QED
    BY <1>1, <1>2, <1>3

LEMMA LoadingDock ==
  ASSUME NEW t \in Docks, NEW u, u = setPendingApplyLoading(t)
  PROVE  /\ u \in Docks /\ Alike(u, t) /\ ~Offers(u) /\ Quiet(u)
         /\ u.view = "loading" /\ u.stored
  BY DEF Docks, setPendingApplyLoading, Views, Offers, Alike, Quiet

LEMMA UnlockedDock ==
  ASSUME NEW t \in Docks, NEW u, u = Unlocked(t)
  PROVE  u \in Docks /\ Alike(u, t) /\ Quiet(u)
  BY DEF Docks, Unlocked, Views, Alike, Quiet

LEMMA DecisionDock ==
  ASSUME NEW t \in Docks, NEW u, u = showManualApplyDecision(t)
  PROVE  u \in Docks /\ Alike(u, t)
  BY DEF Docks, showManualApplyDecision, Views, Alike

LEMMA ActivityDock ==
  ASSUME NEW t \in Docks, NEW n \in Nat, NEW type \in {"started", "done", "decision"},
         NEW u, u = handleManualEditActivity(type, t, n)
  PROVE  /\ u \in Docks /\ Alike(u, t)
         /\ Offers(u) => Offers(t) \/ (type # "started" /\ n # 0) \/ type = "decision"
         /\ type = "started" /\ Locked(t) => Locked(u)
         /\ Quiet(t) \/ t.connected => Quiet(u) \/ u.connected
         /\ type = "started" /\ (Quiet(t) \/ t.connected) => Quiet(u)
  <1>1. CASE ~t.connected
    BY <1>1 DEF handleManualEditActivity, Alike
  <1>2. CASE t.connected /\ type = "started"
    <2>1. u = setPendingApplyLoading(t)
      BY <1>2 DEF handleManualEditActivity
    <2>2. QED
      BY <1>2, <2>1, LoadingDock DEF Locked, Alike
  <1>3. CASE t.connected /\ type = "done"
    <2> DEFINE w == Unlocked(t)
    <2>1. u = updatePendingCounter(w, n)
      BY <1>3 DEF handleManualEditActivity
    <2>2. w \in Docks /\ Alike(w, t) /\ Quiet(w)
      BY UnlockedDock
    <2> HIDE DEF w
    <2>3. /\ u \in Docks /\ Alike(u, w) /\ Quiet(u)
          /\ Offers(u) => n # 0
      BY <2>1, <2>2, CounterDock
    <2>4. QED
      BY <1>3, <2>2, <2>3 DEF Alike
  <1>4. CASE t.connected /\ type = "decision"
    <2>1. u = showManualApplyDecision(t)
      BY <1>4 DEF handleManualEditActivity
    <2>2. QED
      BY <1>4, <2>1, DecisionDock DEF Alike
  <1>5. QED
    BY <1>1, <1>2, <1>3, <1>4

LEMMA OrphanedDock ==
  ASSUME NEW t \in Docks, NEW u, u = Orphaned(t)
  PROVE  /\ u \in Docks /\ ~u.live /\ u.lapsed = t.lapsed
         /\ Offers(u) => Offers(t) \/ (t.asked /\ request # Nothing)
  <1> DEFINE w == CASE t.asked /\ request = "commit" -> Unlocked(t)
                    [] t.asked /\ request = "repair" -> showManualApplyDecision(t)
                    [] OTHER -> t
  <1>1. w \in Docks /\ w.lapsed = t.lapsed
    BY UnlockedDock, DecisionDock DEF Alike
  <1>2. w = t \/ (t.asked /\ request \in {"commit", "repair"})
    OBVIOUS
  <1>3. u = [w EXCEPT !.live = FALSE, !.connected = FALSE, !.asked = FALSE]
    BY DEF Orphaned
  <1> HIDE DEF w
  <1>4. u \in Docks /\ ~u.live /\ u.view = w.view /\ u.lapsed = w.lapsed
    BY <1>1, <1>3 DEF Docks
  <1>5. QED
    BY <1>1, <1>2, <1>4, NothingAssumption DEF Offers
-----------------------------------------------------------------------------
(* How a commit goes on: what the operators of a commit come to.           *)

Shaped(j) == /\ j \in Jobs
             /\ j.todo \subseteq DOMAIN j.batch
             /\ j.applied \subseteq DOMAIN j.batch

\* Another event is sent, for what is left or as a repair.
GoesOn(j, ag, t) ==
  \E k, els :
    /\ Shaped(k) /\ els \subseteq DOMAIN k.batch
    /\ k.batch = j.batch /\ k.snap = j.snap
    /\ \/ k = j /\ j.todo # {}
       \/ k.attempt > 0 /\ k.applied \in {j.applied, DOMAIN j.batch}
    /\ Dispatch(k, els, file, ag, t) /\ UNCHANGED transaction

\* Everything is rolled back, or what the agent has reported is kept.
Undone(j, ag, t) == j.attempt = 0 /\ Finish(j, {}, j.snap, ag, t)

Done(j, ag, t) ==
  /\ Verified(j) /\ (j.attempt = 0 => ~Leaked(j))
  /\ Finish(j, j.applied, file, ag, t)

Outcome(j, ag, t) ==
  \/ GoesOn(j, ag, t)
  \/ Undone(j, ag, t) /\ j.applied # DOMAIN j.batch
  \/ Done(j, ag, t)
  \/ CommitThrows(ag, t)
  \/ NeedsManualDecision(ag, t)

LEMMA RepairGoesOn ==
  ASSUME NEW j, Shaped(j), NEW n \in Nat \ {0}, NEW ag, NEW t,
         NEW a \in {j.applied, DOMAIN j.batch},
         Repair([j EXCEPT !.applied = a], n, ag, t)
  PROVE  GoesOn(j, ag, t) \/ NeedsManualDecision(ag, t)
  <1>1. CASE n > MaxAttempts
    BY <1>1 DEF Repair
  <1>2. CASE ~(n > MaxAttempts)
    <2> DEFINE i == [j EXCEPT !.applied = a]
               k == [i EXCEPT !.attempt = n]
    <2>1. MaxAttempts \in Nat
      BY ManualAssumption DEF ManualAssumption
    <2>2. n \in 0 .. MaxAttempts /\ n > 0
      BY <1>2, <2>1
    <2>3. DOMAIN j.batch \in SUBSET Elements
      BY BatchFacts DEF Shaped, Jobs
    <2>4. /\ Shaped(k) /\ k.batch = j.batch /\ k.snap = j.snap
          /\ k.attempt > 0 /\ k.applied = a
      BY <2>2, <2>3 DEF Shaped, Jobs
    <2>5. i.batch = j.batch
      BY DEF Shaped, Jobs
    <2>6. Dispatch(k, DOMAIN j.batch, file, ag, t) /\ UNCHANGED transaction
      BY <1>2, <2>5 DEF Repair
    <2> HIDE DEF k
    <2>7. QED
      BY <2>4, <2>6 DEF GoesOn
  <1>3. QED
    BY <1>1, <1>2

LEMMA AppliedSame ==
  ASSUME NEW j, Shaped(j)
  PROVE  [j EXCEPT !.applied = j.applied] = j
  BY DEF Shaped, Jobs

LEMMA ValidateOutcome ==
  ASSUME NEW j, Shaped(j), NEW n \in Nat \ {0}, NEW ag, NEW t,
         j.attempt = 0 => ~Leaked(j), Validate(j, n, ag, t)
  PROVE  Outcome(j, ag, t)
  <1>1. CASE ~Verified(j)
    <2>1. Repair(j, n, ag, t)
      BY <1>1 DEF Validate
    <2>2. Repair([j EXCEPT !.applied = j.applied], n, ag, t)
      BY <2>1, AppliedSame
    <2>3. QED
      BY <2>2, RepairGoesOn DEF Outcome
  <1>2. CASE Verified(j) /\ Finish(j, j.applied, file, ag, t)
    BY <1>2 DEF Outcome, Done
  <1>3. CASE CommitThrows(ag, t)
    BY <1>3 DEF Outcome
  <1>4. CASE Repair([j EXCEPT !.applied = IF @ = {} THEN DOMAIN j.batch ELSE @],
                    n, ag, t)
    <2>1. PICK a \in {j.applied, DOMAIN j.batch} :
            Repair([j EXCEPT !.applied = a], n, ag, t)
      BY <1>4
    <2>2. QED
      BY <2>1, RepairGoesOn DEF Outcome
  <1>5. QED
    BY <1>1, <1>2, <1>3, <1>4 DEF Validate

LEMMA AfterApplyOutcome ==
  ASSUME NEW j, Shaped(j), j.attempt = 0, DOMAIN j.batch # {},
         NEW failed, NEW ag, NEW t, AfterApply(j, failed, ag, t)
  PROVE  Outcome(j, ag, t)
  <1>1. CASE (failed /\ j.applied = {}) \/ Leaked(j)
    <2>1. Undone(j, ag, t)
      BY <1>1 DEF AfterApply, Undone
    <2>2. j.applied # DOMAIN j.batch
      BY <1>1 DEF Leaked
    <2>3. QED
      BY <2>1, <2>2 DEF Outcome
  <1>2. CASE ~((failed /\ j.applied = {}) \/ Leaked(j))
    BY <1>2, ValidateOutcome DEF AfterApply
  <1>3. QED
    BY <1>1, <1>2

LEMMA AfterChunkOutcome ==
  ASSUME NEW j, Shaped(j), j.attempt = 0, DOMAIN j.batch # {},
         NEW failed, NEW ag, AfterChunk(j, failed, ag)
  PROVE  Outcome(j, ag, dock)
  <1>1. CASE j.todo # {} /\ ~failed
    <2>1. PICK C \in Chunks(j.todo) : Dispatch(j, C, file, ag, dock)
      BY <1>1 DEF AfterChunk
    <2>2. C \subseteq DOMAIN j.batch
      BY DEF Chunks, Shaped
    <2>3. UNCHANGED transaction
      BY <1>1 DEF AfterChunk
    <2>4. QED
      BY <1>1, <2>1, <2>2, <2>3 DEF GoesOn, Outcome
  <1>2. CASE ~(j.todo # {} /\ ~failed)
    BY <1>2, AfterApplyOutcome DEF AfterChunk
  <1>3. QED
    BY <1>1, <1>2

-----------------------------------------------------------------------------
(* Types.                                                                  *)

DiskOK == /\ file \in Contents
          /\ buffer \in [Elements -> Entry \cup {Nothing}]
          /\ transaction \in Transactions \cup {Nothing}

CommitOK == /\ job \in Jobs \cup {Nothing} /\ event \in Events \cup {Nothing}
            /\ job = Nothing <=> event = Nothing
            /\ job # Nothing => Shaped(job) /\ event.els \subseteq DOMAIN job.batch
            /\ job # Nothing => DOMAIN job.batch # {}

\* The agent works on an event it was sent as long as somebody waits for it.
EditorOK == /\ editor \in Editors \cup {Nothing}
            /\ (editor # Nothing /\ editor.fate = "live")
                  <=> (event # Nothing /\ event.taken)

PageOK == /\ dock \in Docks
          /\ request \in {Nothing, "commit", "repair"}
          /\ saving \in Savings \cup {Nothing}
          /\ saves \in Texts

ServerOK == running \in BOOLEAN /\ mishaps \in 0 .. MaxMishaps
GhostOK == broken \in BOOLEAN

Types == DiskOK /\ CommitOK /\ EditorOK /\ PageOK /\ ServerOK /\ GhostOK

\* What a commit leaves out of the types of its next state: the requests.
Midway == /\ DiskOK' /\ CommitOK' /\ EditorOK' /\ dock' \in Docks
          /\ ServerOK' /\ GhostOK'

LEMMA CountNat ==
  ASSUME DiskOK PROVE Count \in Nat /\ (Count = 0 <=> Pending(buffer) = {})
  BY PendingFacts, CountFacts DEF DiskOK, Count

\* An agent that a commit hands on has no event.
HandedOn(ag) == ag \in Editors \cup {Nothing} /\ (ag # Nothing => ag.fate # "live")

LEMMA DispatchTypes ==
  ASSUME Types, NEW j, Shaped(j), NEW els, els \subseteq DOMAIN j.batch,
         DOMAIN j.batch # {}, NEW src \in Contents, NEW ag, HandedOn(ag),
         NEW t \in Docks, Dispatch(j, els, src, ag, t),
         transaction' \in Transactions \cup {Nothing}
  PROVE  Midway
  <1> DEFINE k == [j EXCEPT !.todo = @ \ els]
             ev == [els |-> els, snap |-> src, taken |-> FALSE]
  <1>1. Shaped(k) /\ k.batch = j.batch
    BY DEF Shaped, Jobs
  <1>2. els \in SUBSET Elements
    BY BatchFacts DEF Shaped, Jobs
  <1>3. ev \in Events /\ ev.els = els /\ ~ev.taken
    BY <1>2 DEF Events
  <1>4. job' = k /\ event' = ev
    BY DEF Dispatch
  <1> HIDE DEF k, ev
  <1>5. job' # Nothing /\ event' # Nothing
    BY <1>1, <1>3, <1>4, NothingAssumption DEF Shaped
  <1>6. CommitOK'
    BY <1>1, <1>3, <1>4, <1>5 DEF CommitOK, Shaped
  <1>7. EditorOK'
    BY <1>3, <1>4, <1>5 DEF EditorOK, HandedOn, Dispatch
  <1>8. DiskOK' /\ dock' \in Docks /\ ServerOK' /\ GhostOK'
    BY DEF Types, DiskOK, ServerOK, GhostOK, Dispatch
  <1>9. QED
    BY <1>6, <1>7, <1>8 DEF Midway

\* The commit is over.
LEMMA OverTypes ==
  ASSUME job' = Nothing, event' = Nothing, NEW ag, HandedOn(ag), editor' = ag
  PROVE  CommitOK' /\ EditorOK'
  BY DEF CommitOK, EditorOK, HandedOn

LEMMA DiedTypes ==
  ASSUME NEW ag \in Editors \cup {Nothing}
  PROVE  HandedOn(Died(ag))
  <1>1. CASE ag = Nothing
    BY <1>1 DEF Died, HandedOn
  <1>2. CASE ag # Nothing
    <2>1. Died(ag) = [ag EXCEPT !.fate = "unknown"]
      BY <1>2 DEF Died
    <2>2. Died(ag) \in Editors /\ Died(ag).fate = "unknown"
      BY <1>2, <2>1 DEF Editors
    <2>3. QED
      BY <2>2 DEF HandedOn
  <1>3. QED
    BY <1>1, <1>2

LEMMA DownTypes ==
  ASSUME Types, NEW ag \in Editors \cup {Nothing}, NEW t \in Docks, Shutdown(ag, t)
  PROVE  CommitOK' /\ EditorOK' /\ dock' \in Docks /\ ServerOK'
  <1>1. CommitOK' /\ EditorOK'
    BY DiedTypes, OverTypes DEF Shutdown
  <1>2. dock' \in Docks
    BY OrphanedDock DEF Shutdown
  <1>3. ServerOK'
    <2>1. MaxMishaps \in Nat
      BY ManualAssumption DEF ManualAssumption
    <2>2. mishaps \in 0 .. MaxMishaps /\ mishaps < MaxMishaps
      BY DEF Types, ServerOK, Shutdown
    <2>3. mishaps + 1 \in 0 .. MaxMishaps
      BY <2>1, <2>2
    <2>4. QED
      BY <2>3 DEF ServerOK, Shutdown
  <1>4. QED
    BY <1>1, <1>2, <1>3

LEMMA ClearedTypes ==
  ASSUME DiskOK, NEW batch, NEW done
  PROVE  clearAppliedEntries(batch, done) \in [Elements -> Entry \cup {Nothing}]
  BY DEF clearAppliedEntries, DiskOK

LEMMA FinishTypes ==
  ASSUME Types, NEW j, NEW done, NEW src \in Contents, NEW ag, HandedOn(ag),
         NEW t \in Docks, Finish(j, done, src, ag, t)
  PROVE  Midway
  <1> DEFINE kept == clearAppliedEntries(j.batch, done)
  <1>1. kept \in [Elements -> Entry \cup {Nothing}]
    BY ClearedTypes DEF Types
  <1>2. file' = src /\ buffer' = kept
    BY DEF Finish
  <1>3. ag \in Editors \cup {Nothing}
    BY DEF HandedOn
  <1>4. CASE /\ transaction' = Nothing /\ job' = Nothing /\ event' = Nothing
             /\ editor' = ag
             /\ dock' = handleManualEditActivity("done", t,
                          Cardinality(Pending(kept)))
             /\ broken' = (broken \/ Unreported(j, done))
             /\ UNCHANGED <<running, mishaps>>
    <2>1. Cardinality(Pending(kept)) \in Nat
      BY <1>1, PendingFacts, CountFacts
    <2>2. dock' \in Docks
      BY <1>4, <2>1, ActivityDock
    <2>3. DiskOK' /\ ServerOK'
      BY <1>1, <1>2, <1>4 DEF Types, DiskOK, ServerOK
    <2>4. GhostOK'
      BY <1>4 DEF Types, GhostOK, Unreported
    <2>5. QED
      BY <1>4, <2>2, <2>3, <2>4, OverTypes DEF Midway
  <1>5. CASE /\ Shutdown(ag, t)
             /\ broken' = (broken \/ transaction.ids \cap EntryIds(kept) # {})
             /\ UNCHANGED transaction
    <2>1. DiskOK' /\ GhostOK'
      BY <1>1, <1>2, <1>5 DEF Types, DiskOK, GhostOK
    <2>2. QED
      BY <1>3, <1>5, <2>1, DownTypes DEF Midway
  <1>6. QED
    BY <1>4, <1>5 DEF Finish

LEMMA RollbackTypes ==
  ASSUME DiskOK
  PROVE  rollbackManualApplyTransaction(file, buffer) \in Contents
  <1>1. transaction # Nothing => transaction.content \in Contents
    BY DEF DiskOK, Transactions
  <1>2. QED
    BY <1>1 DEF rollbackManualApplyTransaction, DiskOK

LEMMA ThrowsTypes ==
  ASSUME Types, NEW ag, HandedOn(ag), NEW t \in Docks, CommitThrows(ag, t)
  PROVE  Midway
  <1>1. dock' \in Docks
    BY CountNat, ActivityDock DEF Types, CommitThrows
  <1>2. DiskOK' /\ ServerOK' /\ GhostOK'
    BY RollbackTypes DEF CommitThrows, Types, DiskOK, ServerOK, GhostOK
  <1>3. QED
    BY <1>1, <1>2, OverTypes DEF CommitThrows, Midway

LEMMA DecisionTypes ==
  ASSUME Types, NEW ag, HandedOn(ag), NEW t \in Docks,
         NeedsManualDecision(ag, t)
  PROVE  Midway
  <1>1. dock' \in Docks
    BY CountNat, ActivityDock DEF Types, NeedsManualDecision
  <1>2. DiskOK' /\ ServerOK' /\ GhostOK'
    BY DEF NeedsManualDecision, disk, Types, DiskOK, ServerOK, GhostOK
  <1>3. QED
    BY <1>1, <1>2, OverTypes DEF NeedsManualDecision, Midway

LEMMA OutcomeTypes ==
  ASSUME Types, NEW j, Shaped(j), DOMAIN j.batch # {}, NEW ag, HandedOn(ag),
         NEW t \in Docks, Outcome(j, ag, t) \/ Undone(j, ag, t)
  PROVE  Midway
  <1>1. file \in Contents /\ transaction \in Transactions \cup {Nothing}
    BY DEF Types, DiskOK
  <1>2. j.snap \in Contents
    BY DEF Shaped, Jobs
  <1>3. CASE GoesOn(j, ag, t)
    <2>1. PICK k, els :
            /\ Shaped(k) /\ els \subseteq DOMAIN k.batch /\ k.batch = j.batch
            /\ Dispatch(k, els, file, ag, t) /\ UNCHANGED transaction
      BY <1>3 DEF GoesOn
    <2>2. QED
      BY <1>1, <2>1, DispatchTypes
  <1>4. CASE Undone(j, ag, t)
    BY <1>2, <1>4, FinishTypes DEF Undone
  <1>5. CASE Done(j, ag, t)
    BY <1>1, <1>5, FinishTypes DEF Done
  <1>6. QED
    BY <1>3, <1>4, <1>5, ThrowsTypes, DecisionTypes DEF Outcome

\* The requests that are under way after a commit has gone on.
LEMMA UnderWayTypes ==
  ASSUME Types, Midway, NEW r \in {Nothing, "commit", "repair"}, UnderWay(r)
  PROVE  Types'
  BY DEF Types, Midway, PageOK, UnderWay

\* A report carries the commit on with what it says was applied.
LEMMA ReportOutcome ==
  ASSUME Types, AgentReports
  PROVE  /\ job # Nothing /\ UnderWay(request)
         /\ \E j : /\ Shaped(j) /\ j.batch = job.batch /\ j.snap = job.snap
                   /\ j.attempt = job.attempt
                   /\ job.applied \subseteq j.applied
                   /\ Outcome(j, Nothing, dock)
  <1>1. /\ editor # Nothing /\ editor.fate = "live" /\ UnderWay(request)
    BY DEF AgentReports
  <1>2. event # Nothing /\ job # Nothing /\ Shaped(job) /\ DOMAIN job.batch # {}
        /\ event.els \subseteq DOMAIN job.batch
    BY <1>1 DEF Types, EditorOK, CommitOK
  <1>3. PICK S \in SUBSET event.els, error \in BOOLEAN :
          LET j == [job EXCEPT !.applied = @ \cup S]
          IN  IF j.attempt = 0 THEN AfterChunk(j, error, Nothing)
                               ELSE Validate(j, j.attempt + 1, Nothing, dock)
    BY DEF AgentReports
  <1> DEFINE j == [job EXCEPT !.applied = @ \cup S]
  <1>4. DOMAIN job.batch \in SUBSET Elements
    BY <1>2, BatchFacts DEF Shaped, Jobs
  <1>5. /\ Shaped(j) /\ j.batch = job.batch /\ j.snap = job.snap
        /\ j.attempt = job.attempt /\ job.applied \subseteq j.applied
    BY <1>2, <1>4 DEF Shaped, Jobs
  <1>6. IF j.attempt = 0 THEN AfterChunk(j, error, Nothing)
                         ELSE Validate(j, j.attempt + 1, Nothing, dock)
    BY <1>3
  <1> HIDE DEF j
  <1>7. Outcome(j, Nothing, dock)
    <2>1. CASE j.attempt = 0
      BY <1>2, <1>5, <1>6, <2>1, AfterChunkOutcome
    <2>2. CASE j.attempt # 0
      <3>1. MaxAttempts \in Nat
        BY ManualAssumption DEF ManualAssumption
      <3>2. j.attempt \in 0 .. MaxAttempts
        BY <1>5 DEF Shaped, Jobs
      <3>3. j.attempt + 1 \in Nat \ {0}
        BY <3>1, <3>2
      <3>4. QED
        BY <1>5, <1>6, <2>2, <3>3, ValidateOutcome
    <2>3. QED
      BY <2>1, <2>2
  <1>8. QED
    BY <1>1, <1>2, <1>5, <1>7

\* A timeout withdraws the event from its agent.
LEMMA TimeoutOutcome ==
  ASSUME Types, ApplyTimesOut
  PROVE  /\ job # Nothing /\ Shaped(job) /\ DOMAIN job.batch # {}
         /\ UnderWay(request)
         /\ \E ag : /\ HandedOn(ag)
                    /\ Outcome(job, ag, dock) \/ Undone(job, ag, dock)
  <1>1. event # Nothing /\ UnderWay(request)
    BY DEF ApplyTimesOut
  <1>2. job # Nothing /\ Shaped(job) /\ DOMAIN job.batch # {}
    BY <1>1 DEF Types, CommitOK
  <1> DEFINE ag == IF event.taken
                     THEN [editor EXCEPT !.fate = "tombstoned"] ELSE editor
  <1>3. HandedOn(ag)
    <2>1. CASE event.taken
      <3>1. editor \in Editors
        BY <1>1, <2>1 DEF Types, EditorOK
      <3>2. [editor EXCEPT !.fate = "tombstoned"] \in Editors
        /\ [editor EXCEPT !.fate = "tombstoned"].fate = "tombstoned"
        BY <3>1 DEF Editors
      <3>3. QED
        BY <2>1, <3>2 DEF HandedOn
    <2>2. CASE ~event.taken
      BY <1>1, <2>2 DEF Types, EditorOK, HandedOn
    <2>3. QED
      BY <2>1, <2>2
  <1>4. \/ job.attempt > 0 /\ Repair(job, job.attempt + 1, ag, dock)
        \/ job.attempt = 0 /\ Chunked(job) /\ AfterChunk(job, TRUE, ag)
        \/ /\ job.attempt = 0 /\ ~Chunked(job)
           /\ Finish(job, {}, job.snap, ag, dock)
    BY DEF ApplyTimesOut
  <1>5. MaxAttempts \in Nat /\ job.attempt \in 0 .. MaxAttempts
    BY <1>2, ManualAssumption DEF ManualAssumption, Shaped, Jobs
  <1> HIDE DEF ag
  <1>6. CASE job.attempt > 0 /\ Repair(job, job.attempt + 1, ag, dock)
    <2>1. Repair([job EXCEPT !.applied = job.applied], job.attempt + 1, ag, dock)
      BY <1>2, <1>6, AppliedSame
    <2>2. job.attempt + 1 \in Nat \ {0}
      BY <1>5
    <2>3. Outcome(job, ag, dock)
      BY <1>2, <2>1, <2>2, RepairGoesOn DEF Outcome
    <2>4. QED
      BY <1>1, <1>2, <1>3, <2>3
  <1>7. CASE job.attempt = 0 /\ AfterChunk(job, TRUE, ag)
    <2>1. Outcome(job, ag, dock)
      BY <1>2, <1>7, AfterChunkOutcome
    <2>2. QED
      BY <1>1, <1>2, <1>3, <2>1
  <1>8. CASE job.attempt = 0 /\ Finish(job, {}, job.snap, ag, dock)
    <2>1. Undone(job, ag, dock)
      BY <1>8 DEF Undone
    <2>2. QED
      BY <1>1, <1>2, <1>3, <2>1
  <1>9. QED
    BY <1>4, <1>6, <1>7, <1>8

\* The job of a commit and of a repair that start.
FirstDock == [dock EXCEPT !.asked = FALSE]

CommitJob ==
  [batch |-> [e \in Pending(buffer) |-> buffer[e]],
   snap |-> rollbackManualApplyTransaction(file, buffer),
   todo |-> Pending(buffer), applied |-> {}, attempt |-> 0]

RepairJob ==
  [batch |-> [e \in Pending(buffer) |-> buffer[e]], snap |-> file,
   todo |-> {}, applied |-> Pending(buffer), attempt |-> 0]

LEMMA FirstTypes ==
  ASSUME Types
  PROVE  /\ FirstDock \in Docks /\ ~FirstDock.asked /\ FirstDock.live = dock.live
         /\ FirstDock.view = dock.view /\ FirstDock.stored = dock.stored
         /\ FirstDock.connected = dock.connected /\ FirstDock.lapsed = dock.lapsed
         /\ Shaped(CommitJob) /\ Shaped(RepairJob)
         /\ DOMAIN CommitJob.batch = Pending(buffer)
         /\ DOMAIN RepairJob.batch = Pending(buffer)
  <1>1. /\ FirstDock \in Docks /\ ~FirstDock.asked /\ FirstDock.live = dock.live
        /\ FirstDock.view = dock.view /\ FirstDock.stored = dock.stored
        /\ FirstDock.connected = dock.connected /\ FirstDock.lapsed = dock.lapsed
    BY DEF Types, PageOK, Docks, FirstDock
  <1> DEFINE b == [e \in Pending(buffer) |-> buffer[e]]
  <1>2. b \in Batches /\ DOMAIN b = Pending(buffer)
        /\ Pending(buffer) \in SUBSET Elements
    BY PendingFacts DEF Types, DiskOK
  <1>3. /\ file \in Contents
        /\ rollbackManualApplyTransaction(file, buffer) \in Contents
    BY RollbackTypes DEF Types, DiskOK
  <1>4. MaxAttempts \in Nat
    BY ManualAssumption DEF ManualAssumption
  <1> HIDE DEF b
  <1>5. /\ CommitJob = [batch |-> b,
              snap |-> rollbackManualApplyTransaction(file, buffer),
              todo |-> Pending(buffer), applied |-> {}, attempt |-> 0]
        /\ RepairJob = [batch |-> b, snap |-> file, todo |-> {},
              applied |-> Pending(buffer), attempt |-> 0]
    BY DEF b, CommitJob, RepairJob
  <1>6. Shaped(CommitJob) /\ CommitJob.batch = b
    BY <1>2, <1>3, <1>4, <1>5 DEF Shaped, Jobs
  <1>7. Shaped(RepairJob) /\ RepairJob.batch = b
    BY <1>2, <1>3, <1>4, <1>5 DEF Shaped, Jobs
  <1>8. QED
    BY <1>1, <1>2, <1>6, <1>7

LEMMA CommitOutcome ==
  ASSUME Types, commit
  PROVE  /\ running /\ request = "commit" /\ UnderWay(Nothing)
         /\ \/ /\ Pending(buffer) = {} /\ transaction' = Nothing
               /\ dock' = handleManualEditActivity("done", FirstDock, 0)
               /\ UNCHANGED <<file, buffer, running, job, event, mishaps, editor,
                              broken>>
            \/ /\ Pending(buffer) # {}
               /\ transaction' = [ids |-> EntryIds(buffer), content |-> CommitJob.snap]
               /\ \/ /\ job = Nothing
                     /\ \E C \in SUBSET DOMAIN CommitJob.batch :
                          Dispatch(CommitJob, C, CommitJob.snap, editor,
                             handleManualEditActivity("started", FirstDock, Count))
                  \/ /\ job # Nothing /\ file' = CommitJob.snap /\ broken' = TRUE
                     /\ dock' = handleManualEditActivity("started", FirstDock, Count)
                     /\ UNCHANGED <<buffer, running, job, event, mishaps, editor>>
  <1>1. Count = 0 <=> Pending(buffer) = {}
    BY CountNat DEF Types
  <1>2. /\ CommitJob.snap = rollbackManualApplyTransaction(file, buffer)
        /\ CommitJob.todo = Pending(buffer)
    BY DEF CommitJob
  <1>3. Chunks(CommitJob.todo) \subseteq SUBSET DOMAIN CommitJob.batch
    BY <1>2, FirstTypes DEF Chunks
  <1>4. running /\ request = "commit" /\ UnderWay(Nothing)
    BY DEF commit
  <1>5. CASE Count = 0
    BY <1>1, <1>4, <1>5 DEF commit, server, FirstDock
  <1>6. CASE Count # 0
    <2>1. transaction' = [ids |-> EntryIds(buffer), content |-> CommitJob.snap]
      BY <1>2, <1>6 DEF commit
    <2>2. \/ /\ job = Nothing
             /\ \E C \in Chunks(CommitJob.todo) :
                  Dispatch(CommitJob, C, CommitJob.snap, editor,
                     handleManualEditActivity("started", FirstDock, Count))
          \/ /\ job # Nothing /\ file' = CommitJob.snap /\ broken' = TRUE
             /\ dock' = handleManualEditActivity("started", FirstDock, Count)
             /\ UNCHANGED <<buffer, server, editor>>
      BY <1>2, <1>6 DEF commit, FirstDock, CommitJob
    <2>3. QED
      BY <1>1, <1>3, <1>4, <1>6, <2>1, <2>2 DEF server
  <1>7. QED
    BY <1>5, <1>6

LEMMA RepairOutcome ==
  ASSUME Types, repair
  PROVE  /\ running /\ request = "repair" /\ UnderWay(Nothing)
         /\ \/ /\ \/ transaction # Nothing /\ Pending(buffer) = {}
                     /\ dock' = handleManualEditActivity("done", FirstDock, 0)
                  \/ /\ transaction = Nothing
                     /\ dock' \in {showManualApplyDecision(FirstDock), FirstDock}
               /\ UNCHANGED <<disk, running, job, event, mishaps, editor, broken>>
            \/ /\ Pending(buffer) # {} /\ transaction # Nothing
               /\ Outcome(RepairJob, editor,
                    handleManualEditActivity("started", FirstDock, Count))
  <1>1. Count = 0 <=> Pending(buffer) = {}
    BY CountNat DEF Types
  <1>2. running /\ request = "repair" /\ UnderWay(Nothing)
    BY DEF repair
  <1>3. CASE transaction = Nothing \/ Count = 0
    <2>1. UNCHANGED <<disk, running, job, event, mishaps, editor, broken>>
      BY <1>3 DEF repair, server
    <2>2. dock' = IF transaction # Nothing
                    THEN handleManualEditActivity("done", FirstDock, 0)
                  ELSE IF dock.asked THEN showManualApplyDecision(FirstDock)
                  ELSE FirstDock
      BY <1>3 DEF repair, FirstDock
    <2>3. QED
      BY <1>1, <1>2, <1>3, <2>1, <2>2
  <1>4. CASE ~(transaction = Nothing \/ Count = 0)
    <2>1. AfterApply(RepairJob, FALSE, editor,
            handleManualEditActivity("started", FirstDock, Count))
      BY <1>4 DEF repair, FirstDock, RepairJob
    <2>2. RepairJob.attempt = 0 /\ DOMAIN RepairJob.batch = Pending(buffer)
          /\ Shaped(RepairJob)
      BY FirstTypes DEF RepairJob
    <2>3. Outcome(RepairJob, editor,
            handleManualEditActivity("started", FirstDock, Count))
      BY <1>1, <1>4, <2>1, <2>2, AfterApplyOutcome
    <2>4. QED
      BY <1>1, <1>2, <1>4, <2>3
  <1>5. QED
    BY <1>3, <1>4

-----------------------------------------------------------------------------
(* Types, step by step.                                                    *)

\* With no event there is no agent that works on one.
LEMMA IdleAgent ==
  ASSUME Types, job = Nothing PROVE HandedOn(editor)
  BY DEF Types, CommitOK, EditorOK, HandedOn

LEMMA CommitTypes == ASSUME Types, commit PROVE Types'
  <1>1. /\ job = Nothing => HandedOn(editor)
        /\ FirstDock \in Docks /\ Count \in Nat
        /\ handleManualEditActivity("started", FirstDock, Count) \in Docks
    BY IdleAgent, FirstTypes, CountNat, ActivityDock DEF Types
  <1>2. CASE /\ transaction' = Nothing
             /\ dock' = handleManualEditActivity("done", FirstDock, 0)
             /\ UNCHANGED <<file, buffer, running, job, event, mishaps, editor,
                            broken>>
    <2>1. dock' \in Docks
      BY <1>1, <1>2, ActivityDock
    <2>2. Midway
      BY <1>2, <2>1 DEF Midway, Types, DiskOK, CommitOK, EditorOK, ServerOK, GhostOK
    <2>3. QED
      BY <2>2, CommitOutcome, UnderWayTypes
  <1>3. CASE /\ Pending(buffer) # {}
             /\ transaction' = [ids |-> EntryIds(buffer), content |-> CommitJob.snap]
    <2>1. CASE /\ job # Nothing /\ file' = CommitJob.snap /\ broken' = TRUE
               /\ dock' = handleManualEditActivity("started", FirstDock, Count)
               /\ UNCHANGED <<buffer, running, job, event, mishaps, editor>>
      <3>1. CommitJob.snap \in Contents
        BY FirstTypes DEF Shaped, Jobs
      <3>2. transaction' \in Transactions
        BY <1>3, <3>1, PendingFacts DEF Types, DiskOK, Transactions
      <3>3. DiskOK'
        BY <2>1, <3>1, <3>2 DEF Types, DiskOK
      <3>4. Midway
        BY <1>1, <2>1, <3>3
        DEF Midway, Types, CommitOK, EditorOK, ServerOK, GhostOK
      <3>5. QED
        BY <3>4, CommitOutcome, UnderWayTypes
    <2>2. CommitJob.snap \in Contents /\ Shaped(CommitJob)
          /\ DOMAIN CommitJob.batch # {}
      BY <1>3, FirstTypes DEF Shaped, Jobs
    <2>3. transaction' \in Transactions
      BY <1>3, <2>2, PendingFacts DEF Types, DiskOK, Transactions
    <2>4. ASSUME job = Nothing, NEW C \in SUBSET DOMAIN CommitJob.batch,
                 Dispatch(CommitJob, C, CommitJob.snap, editor,
                    handleManualEditActivity("started", FirstDock, Count))
          PROVE  Midway
      BY <1>1, <2>2, <2>3, <2>4, DispatchTypes
    <2>5. QED
      BY <1>3, <2>1, <2>4, CommitOutcome, UnderWayTypes
  <1>4. QED
    BY <1>2, <1>3, CommitOutcome

LEMMA RepairTypes == ASSUME Types, job = Nothing, repair PROVE Types'
  <1>1. HandedOn(editor) /\ FirstDock \in Docks /\ Count \in Nat
    BY RepairOutcome, IdleAgent, FirstTypes, CountNat DEF Types
  <1>2. CASE /\ \/ dock' = handleManualEditActivity("done", FirstDock, 0)
                \/ dock' \in {showManualApplyDecision(FirstDock), FirstDock}
             /\ UNCHANGED <<disk, running, job, event, mishaps, editor, broken>>
    <2>1. dock' \in Docks
      BY <1>1, <1>2, ActivityDock, DecisionDock
    <2>2. Midway
      BY <1>2, <2>1
      DEF disk, Midway, Types, DiskOK, CommitOK, EditorOK, ServerOK, GhostOK
    <2>3. QED
      BY <2>2, RepairOutcome, UnderWayTypes
  <1>3. CASE /\ Pending(buffer) # {}
             /\ Outcome(RepairJob, editor,
                  handleManualEditActivity("started", FirstDock, Count))
    <2>1. handleManualEditActivity("started", FirstDock, Count) \in Docks
      BY <1>1, ActivityDock
    <2>2. Midway
      BY <1>1, <1>3, <2>1, FirstTypes, OutcomeTypes
    <2>3. QED
      BY <2>2, RepairOutcome, UnderWayTypes
  <1>4. QED
    BY <1>2, <1>3, RepairOutcome

LEMMA AgentTypes ==
  ASSUME Types, AgentReports \/ ApplyTimesOut
  PROVE  Types'
  <1>1. request \in {Nothing, "commit", "repair"} /\ dock \in Docks
    BY DEF Types, PageOK
  <1>2. CASE AgentReports
    <2>1. PICK j : Shaped(j) /\ j.batch = job.batch /\ Outcome(j, Nothing, dock)
      BY <1>2, ReportOutcome
    <2>2. DOMAIN job.batch # {} /\ UnderWay(request)
      BY <1>2, ReportOutcome DEF Types, CommitOK
    <2>3. HandedOn(Nothing)
      BY DEF HandedOn
    <2>4. Midway
      BY <1>1, <2>1, <2>2, <2>3, OutcomeTypes
    <2>5. QED
      BY <1>1, <2>2, <2>4, UnderWayTypes
  <1>3. CASE ApplyTimesOut
    <2>1. PICK ag : HandedOn(ag) /\ (Outcome(job, ag, dock) \/ Undone(job, ag, dock))
      BY <1>3, TimeoutOutcome
    <2>2. Midway
      BY <1>1, <1>3, <2>1, TimeoutOutcome, OutcomeTypes
    <2>3. QED
      BY <1>1, <1>3, <2>2, TimeoutOutcome, UnderWayTypes
  <1>4. QED
    BY <1>2, <1>3

\* A step of the page leaves the server and the disk alone.
LEMMA PageOnlyTypes ==
  ASSUME Types, UNCHANGED <<disk, server, editor, broken>>, PageOK'
  PROVE  Types'
  BY DEF disk, server, Types, DiskOK, CommitOK, EditorOK, ServerOK, GhostOK

LEMMA ReloadDock ==
  ASSUME Types, Reload
  PROVE  /\ dock' \in Docks /\ dock'.view = "none" /\ dock'.live = running
         /\ dock'.stored = (dock.stored /\ dock.live)
         /\ dock'.lapsed = (dock.lapsed /\ CommitUnderWay)
         /\ saving' \in Savings \cup {Nothing}
  <1>1. /\ dock' = [dock EXCEPT !.view = "none", !.live = running,
                       !.connected = FALSE, !.asked = FALSE,
                       !.stored = dock.stored /\ dock.live,
                       !.lapsed = dock.lapsed /\ CommitUnderWay]
        /\ saving' = IF saving = Nothing THEN Nothing
                     ELSE [saving EXCEPT !.asked = FALSE]
    BY DEF Reload
  <1>2. dock \in Docks /\ running \in BOOLEAN /\ saving \in Savings \cup {Nothing}
    BY DEF Types, PageOK, ServerOK
  <1>3. dock.stored \in BOOLEAN /\ dock.live \in BOOLEAN
    BY <1>2 DEF Docks
  <1>4. (dock.stored /\ dock.live) \in BOOLEAN
        /\ (dock.lapsed /\ CommitUnderWay) \in BOOLEAN
    OBVIOUS
  <1>5. saving' \in Savings \cup {Nothing}
    BY <1>1, <1>2 DEF Savings
  <1> DEFINE b == dock.stored /\ dock.live
             c == dock.lapsed /\ CommitUnderWay
  <1>6. b \in BOOLEAN /\ c \in BOOLEAN
        /\ dock' = [dock EXCEPT !.view = "none", !.live = running,
                     !.connected = FALSE, !.asked = FALSE, !.stored = b,
                     !.lapsed = c]
    BY <1>1, <1>4
  <1>7. b = (dock.stored /\ dock.live) /\ c = (dock.lapsed /\ CommitUnderWay)
    OBVIOUS
  <1> HIDE DEF b, c
  <1>8. /\ dock' \in Docks /\ dock'.view = "none" /\ dock'.live = running
        /\ dock'.stored = b /\ dock'.lapsed = c
    BY <1>2, <1>6 DEF Docks, Views
  <1>9. QED
    BY <1>5, <1>7, <1>8

LEMMA LapsedDock ==
  ASSUME Types, StoredLockLapses
  PROVE  /\ dock' \in Docks /\ dock'.view = dock.view /\ dock'.live = dock.live
         /\ dock'.connected = dock.connected
         /\ dock'.lapsed = (dock.lapsed \/ CommitUnderWay)
  <1> DEFINE b == dock.lapsed \/ CommitUnderWay
  <1>1. dock' = [dock EXCEPT !.stored = FALSE, !.lapsed = b] /\ b \in BOOLEAN
    BY DEF StoredLockLapses
  <1>2. dock \in Docks
    BY DEF Types, PageOK
  <1> HIDE DEF b
  <1>3. /\ dock' \in Docks /\ dock'.view = dock.view /\ dock'.live = dock.live
        /\ dock'.connected = dock.connected /\ dock'.lapsed = b
    BY <1>1, <1>2 DEF Docks
  <1>4. QED
    BY <1>3 DEF b

LEMMA PageTypes ==
  ASSUME Types,
         \/ \E e \in Elements : applyEditing(e)
         \/ onPendingPillClick \/ onPendingKeepFixingClick
         \/ Reload \/ connectSSE \/ fetchPendingCount \/ StoredLockLapses
  PROVE  Types'
  <1>1. dock \in Docks /\ saves \in Texts /\ Count \in Nat
    BY CountNat DEF Types, PageOK
  <1>2. ASSUME NEW e \in Elements, applyEditing(e) PROVE Types'
    <2>1. MaxSaves \in Nat
      BY ManualAssumption DEF ManualAssumption
    <2>2. saves + 1 \in Texts
      BY <1>1, <1>2, <2>1 DEF applyEditing, Texts
    <2>3. PageOK'
      BY <1>2, <2>2 DEF applyEditing, Types, PageOK, Savings
    <2>4. UNCHANGED <<disk, server, editor, broken>>
      BY <1>2 DEF applyEditing
    <2>5. QED
      BY <2>3, <2>4, PageOnlyTypes
  <1>3. CASE onPendingPillClick \/ onPendingKeepFixingClick
    <2>1. Asking \in Docks
      BY <1>1 DEF Asking, setPendingApplyLoading, Docks, Views
    <2>2. showManualApplyDecision(dock) \in Docks
      BY <1>1, DecisionDock
    <2>3. PageOK'
      BY <1>3, <2>1, <2>2
      DEF Types, PageOK, onPendingPillClick, onPendingKeepFixingClick
    <2>4. UNCHANGED <<disk, server, editor, broken>>
      BY <1>3 DEF onPendingPillClick, onPendingKeepFixingClick
    <2>5. QED
      BY <2>3, <2>4, PageOnlyTypes
  <1>4. CASE Reload
    <2>1. PageOK'
      BY <1>4, ReloadDock DEF Reload, Types, PageOK
    <2>2. QED
      BY <1>4, <2>1, PageOnlyTypes DEF Reload
  <1>5. CASE connectSSE
    <2>1. dock' \in Docks
      BY <1>1, <1>5 DEF connectSSE, Docks
    <2>2. PageOK'
      BY <1>5, <2>1 DEF connectSSE, Types, PageOK
    <2>3. QED
      BY <1>5, <2>2, PageOnlyTypes DEF connectSSE
  <1>8. CASE StoredLockLapses
    <2>1. dock' \in Docks
      BY <1>8, LapsedDock DEF Types
    <2>2. mishaps' \in 0 .. MaxMishaps
      <3>1. MaxMishaps \in Nat /\ mishaps \in 0 .. MaxMishaps
        BY ManualAssumption DEF ManualAssumption, Types, ServerOK
      <3>2. mishaps' = mishaps \/ (mishaps < MaxMishaps /\ mishaps' = mishaps + 1)
        BY <1>8 DEF StoredLockLapses
      <3>3. QED
        BY <3>1, <3>2
    <2>3. UNCHANGED <<disk, running, job, event, editor, request, saving, saves,
                      broken>>
      BY <1>8 DEF StoredLockLapses
    <2>4. QED
      BY <2>1, <2>2, <2>3
      DEF disk, Types, DiskOK, CommitOK, EditorOK, PageOK, ServerOK, GhostOK
  <1>6. CASE fetchPendingCount
    <2>1. dock' \in Docks
      BY <1>1, <1>6, CounterDock DEF fetchPendingCount
    <2>2. PageOK'
      BY <1>6, <2>1 DEF fetchPendingCount, Types, PageOK
    <2>3. QED
      BY <1>6, <2>2, PageOnlyTypes DEF fetchPendingCount
  <1>7. QED
    BY <1>2, <1>3, <1>4, <1>5, <1>6, <1>8

\* What staging a text does to the buffer.
LEMMA StagedBuffer ==
  ASSUME Types, stageEntry
  PROVE  \E e \in Elements :
           /\ e = saving.el /\ saving # Nothing /\ saving.text \in Texts /\ running
           /\ buffer' \in [Elements -> Entry \cup {Nothing}]
           /\ buffer'[e] # Nothing /\ buffer'[e].text = saving.text
           /\ buffer[e] # Nothing => buffer'[e].id = buffer[e].id
           /\ \A d \in Elements \ {e} : buffer'[d] = buffer[d]
           /\ broken' = (broken \/ (job # Nothing /\ buffer[e] # Nothing))
           /\ dock' = dock \/ dock' = updatePendingCounter(dock,
                                        Cardinality(Pending(buffer) \cup {e}))
           /\ Pending(buffer') = Pending(buffer) \cup {e}
           /\ saving' = Nothing
           /\ UNCHANGED <<file, transaction, server, editor, request, saves>>
  <1> DEFINE e == saving.el
             i == IF buffer[e] # Nothing THEN buffer[e].id ELSE saving.text
             r == [id |-> i, text |-> saving.text]
  <1>1. saving \in Savings /\ saving # Nothing /\ running
    BY DEF stageEntry, Types, PageOK
  <1>2. e \in Elements /\ saving.text \in Texts
    BY <1>1 DEF Savings
  <1>3. r \in Entry /\ r.text = saving.text /\ r.id = i
    BY <1>2 DEF Types, DiskOK, Entry
  <1>4. buffer' = [buffer EXCEPT ![e] = r]
    BY DEF stageEntry
  <1>5. r # Nothing
    BY <1>3, NothingAssumption
  <1>6. /\ broken' = (broken \/ (job # Nothing /\ buffer[e] # Nothing))
        /\ dock' = dock \/ dock' = updatePendingCounter(dock,
                                        Cardinality(Pending(buffer) \cup {e}))
        /\ saving' = Nothing
        /\ UNCHANGED <<file, transaction, server, editor, request, saves>>
    BY DEF stageEntry
  <1> HIDE DEF r
  <1>7. /\ buffer' \in [Elements -> Entry \cup {Nothing}]
        /\ buffer'[e] = r /\ \A d \in Elements \ {e} : buffer'[d] = buffer[d]
    BY <1>2, <1>3, <1>4 DEF Types, DiskOK
  <1>8. Pending(buffer') = Pending(buffer) \cup {e}
    BY <1>2, <1>5, <1>7 DEF Pending
  <1>9. buffer[e] # Nothing => buffer'[e].id = buffer[e].id
    BY <1>3, <1>7
  <1>10. QED
    BY <1>1, <1>2, <1>3, <1>5, <1>6, <1>7, <1>8, <1>9

LEMMA StageTypes == ASSUME Types, stageEntry PROVE Types'
  <1>1. PICK e \in Elements :
           /\ buffer' \in [Elements -> Entry \cup {Nothing}]
           /\ broken' = (broken \/ (job # Nothing /\ buffer[e] # Nothing))
           /\ dock' = dock \/ dock' = updatePendingCounter(dock,
                                        Cardinality(Pending(buffer) \cup {e}))
           /\ saving' = Nothing
           /\ UNCHANGED <<file, transaction, server, editor, request, saves>>
    BY StagedBuffer
  <1>2. Pending(buffer) \cup {e} \in SUBSET Elements
    BY PendingFacts DEF Types, DiskOK
  <1>3. Cardinality(Pending(buffer) \cup {e}) \in Nat
    BY <1>2, CountFacts
  <1>4. dock' \in Docks
    BY <1>1, <1>3, CounterDock DEF Types, PageOK
  <1>5. QED
    BY <1>1, <1>4 DEF server, Types, DiskOK, CommitOK, EditorOK, PageOK,
                      ServerOK, GhostOK

LEMMA UndoTypes == ASSUME Types, discard \/ repairDecision PROVE Types'
  <1>1. dock \in Docks /\ Count \in Nat
    BY CountNat DEF Types, PageOK
  <1>2. rollbackManualApplyTransaction(file, buffer) \in Contents
    BY RollbackTypes DEF Types
  <1>3. CASE discard
    <2>1. dock' \in Docks
      BY <1>1, <1>3, CounterDock DEF discard
    <2>2. event # Nothing => event.snap \in Contents
      BY DEF Types, CommitOK, Events
    <2>3. DiskOK'
      BY <1>2, <1>3, <2>2 DEF discard, DiskOK
    <2>4. CommitOK' /\ EditorOK'
      <3>1. CASE event = Nothing
        BY <1>3, <3>1 DEF discard, Types, CommitOK, EditorOK, Shaped
      <3>2. CASE event # Nothing
        <4> DEFINE v == [event EXCEPT !.taken = FALSE]
                   a == [editor EXCEPT !.fate = "tombstoned"]
        <4>1. v \in Events /\ v.els = event.els /\ ~v.taken
          BY <3>2 DEF Types, CommitOK, Events
        <4>2. event.taken => a \in Editors /\ a.fate = "tombstoned"
          BY <3>2 DEF Types, EditorOK, Editors
        <4>3. /\ event' = v /\ job' = job
              /\ editor' = IF event.taken THEN a ELSE editor
          BY <1>3, <3>2 DEF discard
        <4> HIDE DEF v, a
        <4>4. v # Nothing
          BY <4>1, NothingAssumption
        <4>5. CommitOK'
          BY <3>2, <4>1, <4>3, <4>4 DEF Types, CommitOK, Shaped
        <4>6. EditorOK'
          BY <3>2, <4>1, <4>2, <4>3, <4>4 DEF Types, EditorOK
        <4>7. QED
          BY <4>5, <4>6
      <3>3. QED
        BY <3>1, <3>2
    <2>5. PageOK' /\ ServerOK' /\ GhostOK'
      BY <1>3, <2>1 DEF discard, Types, PageOK, ServerOK, GhostOK
    <2>6. QED
      BY <2>3, <2>4, <2>5 DEF Types
  <1>4. CASE repairDecision
    <2> DEFINE w == [dock EXCEPT !.stored = FALSE]
    <2>1. w \in Docks
      BY <1>1 DEF Docks
    <2>2. dock' = updatePendingCounter(w, Count)
      BY <1>4 DEF repairDecision
    <2> HIDE DEF w
    <2>3. dock' \in Docks
      BY <1>1, <2>1, <2>2, CounterDock
    <2>4. DiskOK'
      BY <1>2, <1>4 DEF repairDecision, Types, DiskOK
    <2>5. QED
      BY <1>4, <2>3, <2>4
      DEF repairDecision, server, Types, CommitOK, EditorOK, PageOK, ServerOK,
          GhostOK
  <1>5. QED
    BY <1>3, <1>4

LEMMA WorkTypes ==
  ASSUME Types, AgentTakes \/ AgentWrites \/ AgentGone
                \/ rollbackTimedOutApplyReply
  PROVE  Types'
  <1>1. CASE AgentTakes
    <2> DEFINE b == [e \in event.els |-> job.batch[e]]
               a == [batch |-> b, fate |-> "live", snap |-> event.snap]
               v == [event EXCEPT !.taken = TRUE]
    <2>1. /\ editor = Nothing /\ event # Nothing /\ ~event.taken
          /\ event' = v /\ editor' = a
          /\ UNCHANGED <<disk, running, job, mishaps, overlay, broken>>
      BY <1>1 DEF AgentTakes
    <2>2. event \in Events /\ job # Nothing /\ Shaped(job)
          /\ event.els \subseteq DOMAIN job.batch
      BY <2>1 DEF Types, CommitOK
    <2>3. event.els \in SUBSET Elements /\ event.snap \in Contents
      BY <2>2 DEF Events
    <2>4. b \in [event.els -> Entry]
      BY <2>2, BatchFacts DEF Shaped, Jobs
    <2>5. b \in Batches
      BY <2>3, <2>4, BatchFacts
    <2>6. a \in Editors /\ a.fate = "live"
      BY <2>3, <2>5 DEF Editors
    <2>7. v \in Events /\ v.els = event.els /\ v.taken
      BY <2>2 DEF Events
    <2> HIDE DEF a, v
    <2>8. a # Nothing /\ v # Nothing
      BY <2>6, <2>7, NothingAssumption
    <2>9. CommitOK'
      BY <2>1, <2>2, <2>7, <2>8 DEF Types, CommitOK, Shaped
    <2>10. EditorOK'
      BY <2>1, <2>6, <2>7, <2>8 DEF EditorOK
    <2>11. QED
      BY <2>1, <2>9, <2>10
      DEF disk, overlay, Types, DiskOK, PageOK, ServerOK, GhostOK
  <1>2. CASE AgentWrites
    <2>1. PICK e \in DOMAIN editor.batch :
            file' = [file EXCEPT ![e] = editor.batch[e].text]
      BY <1>2 DEF AgentWrites
    <2>2. editor \in Editors
      BY <1>2 DEF AgentWrites, Types, EditorOK
    <2>3. editor.batch[e] \in Entry
      BY <2>1, <2>2, BatchFacts DEF Editors
    <2>4. file' \in Contents
      BY <2>1, <2>3 DEF Types, DiskOK, Contents, Entry
    <2>5. GhostOK'
      BY <1>2 DEF AgentWrites, Types, GhostOK
    <2>6. UNCHANGED <<buffer, transaction, server, editor, overlay>>
      BY <1>2 DEF AgentWrites
    <2>7. QED
      BY <2>4, <2>5, <2>6
      DEF server, overlay, Types, DiskOK, CommitOK, EditorOK, PageOK, ServerOK
  <1>3. CASE AgentGone
    <2>1. /\ editor # Nothing /\ editor' = Nothing
          /\ event' = IF editor.fate = "live"
                        THEN [event EXCEPT !.taken = FALSE] ELSE event
          /\ UNCHANGED <<disk, running, job, mishaps, overlay, broken>>
      BY <1>3 DEF AgentGone
    <2>2. CASE editor.fate = "live"
      <3> DEFINE v == [event EXCEPT !.taken = FALSE]
      <3>1. event \in Events /\ event # Nothing
        BY <2>1, <2>2 DEF Types, CommitOK, EditorOK
      <3>2. v \in Events /\ v.els = event.els /\ ~v.taken
        BY <3>1 DEF Events
      <3>3. event' = v
        BY <2>1, <2>2
      <3> HIDE DEF v
      <3>4. v # Nothing
        BY <3>2, NothingAssumption
      <3>5. CommitOK' /\ EditorOK'
        BY <2>1, <3>1, <3>2, <3>3, <3>4 DEF Types, CommitOK, EditorOK, Shaped
      <3>6. QED
        BY <2>1, <3>5
        DEF disk, overlay, Types, DiskOK, PageOK, ServerOK, GhostOK
    <2>3. CASE editor.fate # "live"
      <3>1. CommitOK' /\ EditorOK'
        BY <2>1, <2>3 DEF Types, CommitOK, EditorOK, Shaped
      <3>2. QED
        BY <2>1, <3>1
        DEF disk, overlay, Types, DiskOK, PageOK, ServerOK, GhostOK
    <2>4. QED
      BY <2>2, <2>3
  <1>4. CASE rollbackTimedOutApplyReply
    <2>1. /\ editor # Nothing /\ editor.fate = "tombstoned"
          /\ file' = editor.snap /\ editor' = Nothing
          /\ broken' = (broken \/ file' # file)
          /\ UNCHANGED <<buffer, transaction, server, overlay>>
      BY <1>4 DEF rollbackTimedOutApplyReply
    <2>2. file' \in Contents
      BY <2>1 DEF Types, EditorOK, Editors
    <2>3. EditorOK'
      BY <2>1 DEF server, Types, EditorOK
    <2>4. QED
      BY <2>1, <2>2, <2>3
      DEF server, overlay, Types, DiskOK, CommitOK, PageOK, ServerOK, GhostOK
  <1>5. QED
    BY <1>1, <1>2, <1>3, <1>4

LEMMA ServerTypes == ASSUME Types, ServerStops \/ Start PROVE Types'
  <1>1. CASE ServerStops
    <2>1. editor \in Editors \cup {Nothing} /\ dock \in Docks
          /\ request \in {Nothing, "commit", "repair"}
      BY DEF Types, EditorOK, PageOK
    <2>2. Shutdown(editor, dock) /\ UnderWay(request) /\ UNCHANGED <<disk, broken>>
      BY <1>1 DEF ServerStops
    <2>3. Midway
      BY <2>1, <2>2, DownTypes DEF Midway, disk, Types, DiskOK, GhostOK
    <2>4. QED
      BY <2>1, <2>2, <2>3, UnderWayTypes
  <1>2. CASE Start
    <2>1. DiskOK'
      BY <1>2, RollbackTypes DEF Start, Types, DiskOK
    <2>2. QED
      BY <1>2, <2>1 DEF Start, overlay, Types, CommitOK, EditorOK, PageOK,
                        ServerOK, GhostOK
  <1>3. QED
    BY <1>1, <1>2

LEMMA TypesInit == EditInit => Types
  <1> HAVE EditInit
  <1>1. MaxSaves \in Nat /\ MaxMishaps \in Nat
    BY ManualAssumption DEF ManualAssumption
  <1>2. 0 \in Texts
    BY <1>1 DEF Texts
  <1>3. DiskOK
    BY <1>2 DEF EditInit, DiskOK, Contents
  <1>4. PageOK
    BY <1>2 DEF EditInit, PageOK, Docks, Views
  <1>5. CommitOK /\ EditorOK
    BY DEF EditInit, CommitOK, EditorOK
  <1>6. ServerOK /\ GhostOK
    <2>1. 0 \in 0 .. MaxMishaps
      BY <1>1
    <2>2. running = TRUE /\ broken = FALSE /\ mishaps = 0
      BY DEF EditInit
    <2>3. QED
      BY <2>1, <2>2 DEF ServerOK, GhostOK
  <1>7. QED
    BY <1>3, <1>4, <1>5, <1>6 DEF Types

LEMMA TypesStep ==
  ASSUME Types, ~broken /\ request = "repair" => job = Nothing,
         [EditNext]_editVars
  PROVE  Types'
  <1>1. CASE UNCHANGED editVars
    BY <1>1 DEF editVars, disk, server, overlay, Types, DiskOK, CommitOK, EditorOK,
                PageOK, ServerOK, GhostOK
  <1>2. CASE ~broken /\ repair
    BY <1>2, RepairTypes DEF repair
  <1>3. QED
    BY <1>1, <1>2, PageTypes, StageTypes, UndoTypes, CommitTypes,
       WorkTypes, ServerTypes, AgentTypes DEF EditNext

-----------------------------------------------------------------------------
(* What is true as long as nothing unguarded has happened.                 *)

\* The dock is locked while a commit is asked for or in flight, and offers
\* something only if an edit is pending, unless its stored lock has lapsed.
Bolted ==
  /\ job # Nothing => request = Nothing
  /\ CommitUnderWay => Locked(dock)
  /\ Offers(dock) \/ request # Nothing => Pending(buffer) # {}

\* Lapsed or not, no decision is asked for under a commit or a request that a
\* tab would not hear of, and a repair finds no commit in flight.
Docked ==
  /\ dock.live \/ request # Nothing => running
  /\ request = "repair" => job = Nothing
  /\ job # Nothing => Quiet(dock)
  /\ request # Nothing => Quiet(dock) \/ dock.connected
  /\ ~dock.lapsed => Bolted

\* A transaction is about an entry that is pending, and what is not pending
\* is as it was.
Recovers ==
  running /\ transaction # Nothing =>
         /\ transaction.ids \cap EntryIds(buffer) # {}
         /\ \A e \in Elements \ Pending(buffer) : file[e] = transaction.content[e]

\* A commit j stands for the entries that are pending, and has written
\* nothing else.
Good(j) ==
  /\ DOMAIN j.batch # {}
  /\ \A e \in DOMAIN j.batch : buffer[e] = j.batch[e]
  /\ transaction # Nothing
  /\ \A e \in Elements \ DOMAIN j.batch : file[e] = transaction.content[e]
  /\ \A e \in DOMAIN j.batch \ j.applied : j.batch[e].id \in transaction.ids
  /\ j.attempt = 0 =>
       /\ j.snap = transaction.content \/ j.applied = DOMAIN j.batch
       /\ \A e \in DOMAIN j.batch \ j.applied :
            file[e] \in {transaction.content[e], j.batch[e].text}

Followed ==
  job # Nothing => /\ running /\ Good(job)
                   /\ job.attempt = 0 => job.snap = transaction.content

\* The agent has been given what the commit holds.
Working ==
  editor # Nothing /\ editor.fate = "live" =>
     editor.batch = [e \in event.els |-> job.batch[e]]

Safe == Docked /\ Recovers /\ Followed /\ Working

\* The inductive invariant.
EditInv == Types /\ (~broken => Safe)

LEMMA GoodPending ==
  ASSUME Types, NEW j, Shaped(j), Good(j)
  PROVE  Pending(buffer) # {} /\ DOMAIN j.batch \subseteq Pending(buffer)
  <1>1. j.batch \in [DOMAIN j.batch -> Entry] /\ DOMAIN j.batch \in SUBSET Elements
    BY BatchFacts DEF Shaped, Jobs
  <1>2. \A e \in DOMAIN j.batch : buffer[e] # Nothing
    BY <1>1, NothingAssumption DEF Good
  <1>3. QED
    BY <1>1, <1>2 DEF Pending, Good

\* What is known when a commit j goes on, with its agent and its dock.
Ready(j, ag, t) ==
  /\ Shaped(j) /\ Good(j) /\ HandedOn(ag)
  /\ running /\ transaction.ids \cap EntryIds(buffer) # {}
  /\ j.attempt = 0 => j.snap = transaction.content \/ j.todo = {}
  /\ t \in Docks /\ Quiet(t)
  /\ ~t.lapsed => Locked(t) /\ (request = Nothing \/ ~t.asked)

\* The requests that stay under way: a second commit's, once the lock lapsed.
Left(r, t) == r \in {Nothing, "commit"} /\ (r # Nothing => t.lapsed)

\* The commit is over, and its requests with it unless the lock has lapsed.
LEMMA OverSafe ==
  ASSUME job' = Nothing, NEW ag, HandedOn(ag), editor' = ag, Recovers',
         dock'.live \/ request' # Nothing => running',
         request' # Nothing => Quiet(dock') \/ dock'.connected,
         ~dock'.lapsed => /\ request' = Nothing
                          /\ Offers(dock') => Pending(buffer') # {}
  PROVE  Safe'
  BY DEF Safe, Docked, Bolted, CommitUnderWay, Followed, Working, HandedOn

LEMMA FinishSafe ==
  ASSUME Types, NEW j, NEW ag, NEW t, Ready(j, ag, t), NEW done,
         NEW src, Finish(j, done, src, ag, t), NEW r, Left(r, t), UnderWay(r)
  PROVE  Safe'
  <1> DEFINE kept == clearAppliedEntries(j.batch, done)
  <1>1. kept \in [Elements -> Entry \cup {Nothing}]
    BY ClearedTypes DEF Types
  <1>2. buffer' = kept
    BY DEF Finish
  <1>3. /\ request' = IF running' THEN r ELSE Nothing
        /\ ~t.lapsed => r = Nothing
    BY DEF UnderWay, Left
  <1>4. /\ ~t.lapsed => ~Offers(t)
        /\ t \in Docks /\ running /\ Quiet(t)
    BY DEF Ready, Locked, Offers
  <1>5. CASE /\ transaction' = Nothing /\ job' = Nothing /\ event' = Nothing
             /\ editor' = ag
             /\ dock' = handleManualEditActivity("done", t,
                          Cardinality(Pending(kept)))
             /\ UNCHANGED <<running, mishaps>>
    <2>1. /\ Cardinality(Pending(kept)) \in Nat
          /\ Cardinality(Pending(kept)) = 0 <=> Pending(kept) = {}
      BY <1>1, PendingFacts, CountFacts
    <2> DEFINE n == Cardinality(Pending(kept))
    <2>2. /\ ~t.lapsed /\ Offers(dock') => Pending(kept) # {}
          /\ dock'.lapsed = t.lapsed /\ (Quiet(dock') \/ dock'.connected)
      <3>1. dock' = handleManualEditActivity("done", t, n)
        BY <1>5
      <3> HIDE DEF n
      <3>2. /\ Alike(dock', t) /\ (Quiet(dock') \/ dock'.connected)
            /\ Offers(dock') => Offers(t) \/ n # 0
        BY <1>4, <2>1, <3>1, ActivityDock DEF n
      <3>3. QED
        BY <1>4, <2>1, <3>2 DEF Alike, n
    <2>3. Recovers'
      BY <1>5 DEF Recovers
    <2>4. QED
      BY <1>2, <1>3, <1>4, <1>5, <2>2, <2>3, OverSafe DEF Ready
  <1>6. CASE Shutdown(ag, t)
    <2>1. job' = Nothing /\ editor' = Died(ag) /\ dock' = Orphaned(t) /\ ~running'
      BY <1>6 DEF Shutdown
    <2>2. ag \in Editors \cup {Nothing}
      BY DEF Ready, HandedOn
    <2>3. /\ ~dock'.live /\ dock'.lapsed = t.lapsed
          /\ ~t.lapsed => ~Offers(dock')
      BY <1>4, <2>1, OrphanedDock DEF Ready
    <2>4. QED
      BY <1>3, <2>1, <2>2, <2>3, DiedTypes, OverSafe DEF Recovers
  <1>7. QED
    BY <1>5, <1>6 DEF Finish

LEMMA ThrowsSafe ==
  ASSUME Types, NEW j, NEW ag, NEW t, Ready(j, ag, t),
         CommitThrows(ag, t), NEW r, Left(r, t), UnderWay(r)
  PROVE  Safe'
  <1>1. /\ ~t.lapsed => ~Offers(t)
        /\ t \in Docks /\ running /\ Quiet(t)
    BY DEF Ready, Locked, Offers
  <1>2. Count \in Nat /\ (Count = 0 <=> Pending(buffer) = {})
    BY CountNat DEF Types
  <1>3. /\ ~t.lapsed /\ Offers(dock') => Pending(buffer) # {}
        /\ dock'.lapsed = t.lapsed /\ (Quiet(dock') \/ dock'.connected)
    BY <1>1, <1>2, ActivityDock DEF CommitThrows, Alike
  <1>4. Recovers' /\ job' = Nothing /\ editor' = ag
        /\ running' = running /\ buffer' = buffer
        /\ (~t.lapsed => request' = Nothing)
    BY DEF Recovers, CommitThrows, UnderWay, Left
  <1>5. QED
    BY <1>1, <1>3, <1>4, OverSafe DEF Ready

LEMMA DecisionSafe ==
  ASSUME Types, Recovers, NEW j, NEW ag, NEW t, Ready(j, ag, t),
         NeedsManualDecision(ag, t), NEW r, Left(r, t), UnderWay(r)
  PROVE  Safe'
  <1>1. Pending(buffer) # {}
    BY GoodPending DEF Ready
  <1>2. Recovers'
    BY DEF Recovers, NeedsManualDecision, disk
  <1>3. /\ job' = Nothing /\ editor' = ag /\ running' = running
        /\ buffer' = buffer /\ (~t.lapsed => request' = Nothing)
    BY DEF NeedsManualDecision, UnderWay, Left, disk
  <1>4. Count \in Nat
    BY CountNat DEF Types
  <1>5. dock'.lapsed = t.lapsed /\ (Quiet(dock') \/ dock'.connected)
    BY <1>4, ActivityDock DEF Ready, NeedsManualDecision, Alike
  <1>6. QED
    BY <1>1, <1>2, <1>3, <1>5, OverSafe DEF Ready

\* A commit that goes on is still good.
LEMMA DispatchSafe ==
  ASSUME Shaped(job'), job' # Nothing, Good(job)', Recovers', running',
         Quiet(dock'), request' # "repair",
         ~dock'.lapsed => Locked(dock') /\ request' = Nothing,
         NEW ag, HandedOn(ag), editor' = ag,
         job'.attempt = 0 => job'.snap = transaction'.content,
         Pending(buffer') # {}
  PROVE  Safe'
  BY DEF Safe, Docked, Bolted, CommitUnderWay, Followed, Working, HandedOn,
         Locked, Offers

LEMMA GoesOnSafe ==
  ASSUME Types, Recovers, NEW j, NEW ag, NEW t, Ready(j, ag, t),
         GoesOn(j, ag, t), NEW r, Left(r, t), UnderWay(r)
  PROVE  Safe'
  <1>1. PICK k, els :
          /\ Shaped(k) /\ els \subseteq DOMAIN k.batch
          /\ k.batch = j.batch /\ k.snap = j.snap
          /\ \/ k = j /\ j.todo # {}
             \/ k.attempt > 0 /\ k.applied \in {j.applied, DOMAIN j.batch}
          /\ Dispatch(k, els, file, ag, t) /\ UNCHANGED transaction
    BY DEF GoesOn
  <1> DEFINE i == [k EXCEPT !.todo = k.todo \ els]
  <1>2. /\ Shaped(i) /\ i.batch = k.batch /\ i.snap = k.snap
        /\ i.applied = k.applied /\ i.attempt = k.attempt
    BY <1>1 DEF Shaped, Jobs
  <1>3. job' = i /\ UNCHANGED <<file, buffer, transaction, running>>
        /\ dock' = t /\ editor' = ag
    BY <1>1 DEF Dispatch
  <1> HIDE DEF i
  <1>4. job' # Nothing
    BY <1>2, <1>3, NothingAssumption DEF Shaped
  <1>5. Good(job)'
    <2>1. CASE k = j
      BY <1>2, <1>3, <2>1 DEF Good, Ready
    <2>2. CASE k.attempt > 0 /\ k.applied \in {j.applied, DOMAIN j.batch}
      <3>1. k.attempt # 0
        BY <2>2
      <3>2. DOMAIN j.batch \ k.applied \subseteq DOMAIN j.batch \ j.applied
        BY <2>2
      <3>3. QED
        BY <1>1, <1>2, <1>3, <3>1, <3>2 DEF Good, Ready
    <2>3. QED
      BY <1>1, <2>1, <2>2
  <1>6. job'.attempt = 0 => job'.snap = transaction'.content
    <2>1. k.attempt > 0 => k.attempt # 0
      OBVIOUS
    <2>2. k.attempt = 0 => j.attempt = 0 /\ j.todo # {}
      BY <1>1, <2>1
    <2>3. k.attempt = 0 => j.snap = transaction.content
      BY <2>2 DEF Ready
    <2>4. QED
      BY <1>1, <1>2, <1>3, <2>3
  <1>7. /\ Recovers' /\ running' /\ Quiet(dock') /\ request' # "repair"
        /\ ~dock'.lapsed => Locked(dock') /\ request' = Nothing
    BY <1>3, NothingAssumption DEF Recovers, UnderWay, Left, Ready
  <1>8. Pending(buffer') # {}
    BY <1>3, GoodPending DEF Ready
  <1>9. QED
    BY <1>2, <1>3, <1>4, <1>5, <1>6, <1>7, <1>8, DispatchSafe DEF Ready

LEMMA OutcomeSafe ==
  ASSUME Types, Recovers, NEW j, NEW ag, NEW t, Ready(j, ag, t),
         Outcome(j, ag, t) \/ Undone(j, ag, t), NEW r, Left(r, t), UnderWay(r)
  PROVE  Safe'
  BY GoesOnSafe, FinishSafe, ThrowsSafe, DecisionSafe DEF Outcome, Undone, Done

\* What is broken stays broken: a commit never mends it.
LEMMA FinishBroken ==
  ASSUME broken, NEW j, NEW done, NEW src, NEW ag, NEW t,
         Finish(j, done, src, ag, t)
  PROVE  broken'
  BY DEF Finish

LEMMA OutcomeBroken ==
  ASSUME broken, NEW j, NEW ag, NEW t,
         Outcome(j, ag, t) \/ Undone(j, ag, t)
  PROVE  broken'
  <1>1. CASE GoesOn(j, ag, t)
    BY <1>1 DEF GoesOn, Dispatch
  <1>2. CASE CommitThrows(ag, t) \/ NeedsManualDecision(ag, t)
    BY <1>2 DEF CommitThrows, NeedsManualDecision
  <1>3. QED
    BY <1>1, <1>2, FinishBroken DEF Outcome, Undone, Done

LEMMA BrokenStays ==
  ASSUME Types, [EditNext]_editVars, broken PROVE broken'
  <1>1. CASE AgentReports
    BY <1>1, ReportOutcome, OutcomeBroken
  <1>2. CASE ApplyTimesOut
    BY <1>2, TimeoutOutcome, OutcomeBroken
  <1>3. CASE UNCHANGED editVars
    BY <1>3 DEF editVars
  <1>4. QED
    BY <1>1, <1>2, <1>3 DEF EditNext

-----------------------------------------------------------------------------
(* Every step keeps it so.                                                 *)

LEMMA RecoversSame ==
  ASSUME Recovers, UNCHANGED <<file, buffer, transaction>>, running' => running
  PROVE  Recovers'
  BY DEF Recovers

LEMMA FollowedSame ==
  ASSUME Followed, UNCHANGED <<file, buffer, transaction, job, running>>
  PROVE  Followed'
  BY DEF Followed, Good

LEMMA WorkingSame ==
  ASSUME Working, UNCHANGED <<job, event, editor>> PROVE Working'
  BY DEF Working

\* A step of the page keeps a locked dock locked, sends a request only for what
\* is pending, and offers nothing new, unless the lock has lapsed.
LEMMA PageOnlySafe ==
  ASSUME Safe, UNCHANGED <<disk, running, job, event, editor>>,
         dock'.live \/ request' # Nothing => running,
         request' = "repair" => job = Nothing,
         job # Nothing => Quiet(dock'),
         request' # Nothing => Quiet(dock') \/ dock'.connected,
         ~dock'.lapsed =>
           /\ job # Nothing => request' = Nothing
           /\ job # Nothing \/ request' # Nothing => Locked(dock')
           /\ Offers(dock') \/ request' # Nothing => Pending(buffer) # {}
  PROVE  Safe'
  <1>1. Docked'
    BY DEF disk, Docked, Bolted, CommitUnderWay
  <1>2. QED
    BY <1>1, RecoversSame, FollowedSame, WorkingSame DEF Safe, disk

LEMMA PageSafe ==
  ASSUME Types, Safe,
         \/ \E e \in Elements : applyEditing(e)
         \/ onPendingPillClick \/ onPendingKeepFixingClick
         \/ Reload \/ connectSSE \/ fetchPendingCount \/ StoredLockLapses
  PROVE  Safe'
  <1>1. /\ dock \in Docks /\ Count \in Nat /\ (Count = 0 <=> Pending(buffer) = {})
        /\ dock.live \in BOOLEAN
    BY CountNat DEF Types, PageOK, Docks
  <1>2. /\ dock.live \/ request # Nothing => running
        /\ request = "repair" => job = Nothing
        /\ job # Nothing => Quiet(dock)
        /\ request # Nothing => Quiet(dock) \/ dock.connected
        /\ ~dock.lapsed =>
             /\ job # Nothing => request = Nothing
             /\ job # Nothing \/ request # Nothing => Locked(dock)
             /\ Offers(dock) \/ request # Nothing => Pending(buffer) # {}
    BY DEF Safe, Docked, Bolted, CommitUnderWay
  <1>3. ASSUME NEW e \in Elements, applyEditing(e) PROVE Safe'
    BY <1>2, <1>3, PageOnlySafe DEF applyEditing, server
  <1>4. CASE onPendingPillClick \/ onPendingKeepFixingClick
    <2>1. Offers(dock) /\ request = Nothing
          /\ UNCHANGED <<disk, running, job, event, editor>>
      BY <1>4 DEF onPendingPillClick, onPendingKeepFixingClick, Offers, server
    <2>2. /\ ~dock.lapsed => job = Nothing /\ Pending(buffer) # {}
          /\ onPendingKeepFixingClick => job = Nothing
      BY <1>2, <2>1 DEF Locked, Offers, Quiet, onPendingKeepFixingClick
    <2>3. CASE dock.live
      <3>1. /\ dock' = Asking
            /\ \/ request' = "commit"
               \/ request' = "repair" /\ job = Nothing
        BY <1>4, <2>2, <2>3 DEF onPendingPillClick, onPendingKeepFixingClick
      <3>2. /\ dock'.live = dock.live /\ dock'.stored /\ dock'.view = "loading"
            /\ dock'.lapsed = dock.lapsed
        BY <1>1, <3>1 DEF Asking, setPendingApplyLoading, Docks
      <3>3. QED
        BY <1>2, <2>1, <2>2, <2>3, <3>1, <3>2, PageOnlySafe
        DEF Locked, Offers, Quiet
    <2>4. CASE ~dock.live
      <3>1. /\ request' = Nothing
            /\ \/ dock' = dock
               \/ dock' = showManualApplyDecision(dock) /\ job = Nothing
        BY <1>4, <2>1, <2>2, <2>4
        DEF onPendingPillClick, onPendingKeepFixingClick
      <3>2. dock'.live = dock.live /\ dock'.lapsed = dock.lapsed
        BY <1>1, <3>1, DecisionDock DEF Alike
      <3>3. QED
        BY <1>2, <2>1, <2>2, <2>4, <3>1, <3>2, PageOnlySafe
    <2>5. QED
      BY <2>3, <2>4
  <1>5. CASE Reload
    <2>1. UNCHANGED <<disk, running, job, event, editor>> /\ request' = request
      BY <1>5 DEF Reload, server
    <2>2. dock'.view = "none" /\ dock'.live = running
          /\ dock'.stored = (dock.stored /\ dock.live)
          /\ dock'.lapsed = (dock.lapsed /\ CommitUnderWay)
      BY <1>5, ReloadDock
    <2>3. /\ job # Nothing \/ request # Nothing => dock'.lapsed = dock.lapsed
          /\ dock'.lapsed \in BOOLEAN /\ dock.lapsed \in BOOLEAN
      BY <1>1, <2>2 DEF CommitUnderWay, Docks
    <2>4. ~dock'.lapsed /\ (job # Nothing \/ request # Nothing) =>
            Locked(dock') /\ (job # Nothing => request = Nothing)
                          /\ (request # Nothing => Pending(buffer) # {})
      BY <1>2, <2>2, <2>3 DEF Locked
    <2>5. QED
      BY <1>2, <2>1, <2>2, <2>3, <2>4, PageOnlySafe DEF Offers, Quiet
  <1>6. CASE connectSSE
    <2>1. dock'.view = dock.view /\ dock'.live = dock.live /\ dock'.stored = dock.stored
          /\ dock'.lapsed = dock.lapsed /\ dock'.connected /\ request' = request
          /\ UNCHANGED <<disk, running, job, event, editor>>
      BY <1>1, <1>6 DEF connectSSE, Docks, server
    <2>2. QED
      BY <1>2, <2>1, PageOnlySafe DEF Offers, Locked, Quiet
  <1>7. CASE StoredLockLapses
    <2>1. /\ dock'.view = dock.view /\ dock'.live = dock.live
          /\ dock'.connected = dock.connected
          /\ dock'.lapsed = (dock.lapsed \/ CommitUnderWay)
      BY <1>7, LapsedDock
    <2>2. request' = request /\ UNCHANGED <<disk, running, job, event, editor>>
      BY <1>7 DEF StoredLockLapses
    <2>3. QED
      BY <1>2, <2>1, <2>2, PageOnlySafe DEF Offers, Quiet, CommitUnderWay
  <1>8. CASE fetchPendingCount
    <2>1. dock' = updatePendingCounter(dock, Count) /\ request' = request
          /\ UNCHANGED <<disk, running, job, event, editor>>
      BY <1>8 DEF fetchPendingCount, server
    <2>2. job # Nothing => Pending(buffer) # {}
      BY GoodPending DEF Safe, Followed, Types, CommitOK
    <2>3. /\ ~dock.lapsed /\ (job # Nothing \/ request # Nothing) => Locked(dock')
          /\ Quiet(dock) => Quiet(dock')
      BY <1>1, <1>2, <2>1, <2>2, CounterDock
    <2>4. /\ dock'.live = dock.live /\ dock'.lapsed = dock.lapsed
          /\ dock'.connected = dock.connected
          /\ Offers(dock') => Count # 0
      BY <1>1, <2>1, CounterDock DEF Alike
    <2>5. QED
      BY <1>1, <1>2, <2>1, <2>3, <2>4, PageOnlySafe
  <1>9. QED
    BY <1>3, <1>4, <1>5, <1>6, <1>7, <1>8

LEMMA StageSafe ==
  ASSUME Types, Safe, stageEntry, ~broken' PROVE Safe'
  <1>1. PICK e \in Elements :
           /\ e = saving.el /\ saving # Nothing /\ saving.text \in Texts /\ running
           /\ buffer' \in [Elements -> Entry \cup {Nothing}]
           /\ buffer'[e] # Nothing /\ buffer'[e].text = saving.text
           /\ buffer[e] # Nothing => buffer'[e].id = buffer[e].id
           /\ \A d \in Elements \ {e} : buffer'[d] = buffer[d]
           /\ broken' = (broken \/ (job # Nothing /\ buffer[e] # Nothing))
           /\ dock' = dock \/ dock' = updatePendingCounter(dock,
                                        Cardinality(Pending(buffer) \cup {e}))
           /\ Pending(buffer') = Pending(buffer) \cup {e}
           /\ saving' = Nothing
           /\ UNCHANGED <<file, transaction, server, editor, request, saves>>
    BY StagedBuffer
  <1>2. /\ Cardinality(Pending(buffer) \cup {e}) \in Nat \ {0}
    <2>1. Pending(buffer) \cup {e} \in SUBSET Elements
      BY PendingFacts DEF Types, DiskOK
    <2>2. QED
      BY <2>1, CountFacts
  <1>3. /\ dock'.live = dock.live /\ dock'.connected = dock.connected
        /\ dock'.lapsed = dock.lapsed /\ (Locked(dock) => Locked(dock'))
        /\ Quiet(dock) => Quiet(dock')
    BY <1>1, <1>2, CounterDock DEF Types, PageOK, Alike
  <1>4. Docked'
    BY <1>1, <1>3 DEF Safe, Docked, Bolted, CommitUnderWay, server
  <1>5. EntryIds(buffer) \subseteq EntryIds(buffer')
    BY <1>1 DEF EntryIds, Pending
  <1>6. Recovers'
    BY <1>1, <1>5 DEF Safe, Recovers, server
  <1>7. Followed'
    <2>1. job' = job /\ running' = running /\ UNCHANGED <<file, transaction>>
      BY <1>1 DEF server
    <2>2. CASE job = Nothing
      BY <2>1, <2>2 DEF Followed
    <2>3. CASE job # Nothing
      <3>1. Good(job) /\ Shaped(job)
        BY <2>3 DEF Safe, Followed, Types, CommitOK
      <3>2. e \notin DOMAIN job.batch
        <4>1. e \notin Pending(buffer)
          BY <1>1, <2>3 DEF Pending
        <4>2. QED
          BY <3>1, <4>1, GoodPending
      <3>3. \A d \in DOMAIN job.batch : buffer'[d] = job.batch[d]
        <4>1. DOMAIN job.batch \in SUBSET Elements
          BY <3>1, BatchFacts DEF Shaped, Jobs
        <4>2. QED
          BY <1>1, <3>1, <3>2, <4>1 DEF Good
      <3>4. Good(job)'
        BY <2>1, <3>1, <3>3 DEF Good
      <3>5. QED
        BY <2>1, <3>4 DEF Safe, Followed
    <2>4. QED
      BY <2>2, <2>3
  <1>8. Working'
    BY <1>1 DEF Safe, Working, server
  <1>9. QED
    BY <1>4, <1>6, <1>7, <1>8 DEF Safe

LEMMA UndoSafe ==
  ASSUME Types, Safe, ~broken', discard \/ repairDecision PROVE Safe'
  <1>1. /\ Offers(dock) /\ dock \in Docks /\ dock.live /\ Count \in Nat
        /\ Count = 0 <=> Pending(buffer) = {}
    BY CountNat DEF discard, repairDecision, Offers, Types, PageOK
  <1>2. job = Nothing /\ event = Nothing
    <2>1. discard => job = Nothing
      BY DEF discard
    <2>2. repairDecision => job = Nothing
      BY DEF repairDecision, Safe, Docked, Quiet
    <2>3. QED
      BY <2>1, <2>2 DEF Types, CommitOK
  <1>3. /\ transaction' = Nothing /\ UNCHANGED <<running, job, event, editor, request>>
    BY <1>2 DEF discard, repairDecision, server
  <1>4. /\ dock'.live = dock.live /\ dock'.connected = dock.connected
        /\ dock'.lapsed = dock.lapsed
        /\ Offers(dock') => Pending(buffer') # {}
        /\ Quiet(dock) => Quiet(dock')
    <2>1. CASE discard
      BY <1>1, <2>1, CounterDock DEF discard, Alike
    <2>2. CASE repairDecision
      <3> DEFINE w == [dock EXCEPT !.stored = FALSE]
      <3>1. /\ w \in Docks /\ Alike(w, dock) /\ (Quiet(dock) => Quiet(w))
        BY <1>1 DEF Docks, Alike, Quiet
      <3>2. dock' = updatePendingCounter(w, Count) /\ buffer' = buffer
        BY <2>2 DEF repairDecision
      <3> HIDE DEF w
      <3>3. QED
        BY <1>1, <3>1, <3>2, CounterDock DEF Alike
    <2>3. QED
      BY <2>1, <2>2
  <1>9. ~dock.lapsed => request = Nothing
    BY <1>1 DEF Safe, Docked, Bolted, CommitUnderWay, Locked, Offers
  <1>5. Docked'
    BY <1>2, <1>3, <1>4, <1>9 DEF Safe, Docked, Bolted, CommitUnderWay
  <1>6. Recovers' /\ Followed'
    BY <1>2, <1>3 DEF Recovers, Followed
  <1>7. Working'
    BY <1>3, WorkingSame DEF Safe
  <1>8. QED
    BY <1>5, <1>6, <1>7 DEF Safe

LEMMA RollbackSource ==
  ASSUME Types, Safe, running
  PROVE  rollbackManualApplyTransaction(file, buffer) =
           IF transaction = Nothing THEN file ELSE transaction.content
  BY DEF Safe, Recovers, rollbackManualApplyTransaction

\* What a commit request finds of the page.
LEMMA Requested ==
  ASSUME Types, Safe, request # Nothing, NEW type \in {"started", "done"},
         NEW n \in Nat, NEW u, u = handleManualEditActivity(type, FirstDock, n)
  PROVE  /\ u \in Docks /\ u.lapsed = dock.lapsed /\ u.live = dock.live
         /\ ~u.asked /\ running
         /\ type = "started" => Quiet(u) /\ (~u.lapsed => Locked(u))
         /\ ~u.lapsed => Pending(buffer) # {}
  <1>1. /\ FirstDock \in Docks /\ ~FirstDock.asked
        /\ FirstDock.view = dock.view /\ FirstDock.stored = dock.stored
        /\ FirstDock.live = dock.live /\ FirstDock.connected = dock.connected
        /\ FirstDock.lapsed = dock.lapsed
    BY FirstTypes
  <1>2. /\ running /\ (Quiet(dock) \/ dock.connected)
        /\ ~dock.lapsed => Locked(dock) /\ Pending(buffer) # {}
    BY DEF Safe, Docked, Bolted, CommitUnderWay
  <1>3. /\ Quiet(FirstDock) \/ FirstDock.connected
        /\ ~dock.lapsed => Locked(FirstDock)
    BY <1>1, <1>2 DEF Quiet, Locked
  <1>4. /\ u \in Docks /\ Alike(u, FirstDock)
        /\ type = "started" => Quiet(u) /\ (Locked(FirstDock) => Locked(u))
    BY <1>1, <1>3, ActivityDock
  <1>5. QED
    BY <1>1, <1>2, <1>3, <1>4 DEF Alike

\* A commit that finds nothing to do.
LEMMA IdleCommitSafe ==
  ASSUME Types, Safe, commit, Pending(buffer) = {} PROVE Safe'
  <1>1. request = "commit" /\ request # Nothing /\ UnderWay(Nothing)
    BY CommitOutcome, NothingAssumption
  <1>2. /\ transaction' = Nothing
        /\ dock' = handleManualEditActivity("done", FirstDock, 0)
        /\ UNCHANGED <<file, buffer, running, job, event, mishaps, editor>>
    BY CommitOutcome
  <1>3. job = Nothing
    BY GoodPending DEF Safe, Followed, Types, CommitOK
  <1>4. HandedOn(editor) /\ request' = Nothing /\ Recovers'
    BY <1>1, <1>2, <1>3, IdleAgent DEF UnderWay, Recovers
  <1>5. dock'.live = dock.live /\ dock'.lapsed /\ running
    BY <1>1, <1>2, Requested
  <1>6. QED
    BY <1>2, <1>3, <1>4, <1>5, OverSafe

LEMMA CommitSafe == ASSUME Types, Safe, ~broken', commit PROVE Safe'
  <1> SUFFICES ASSUME Pending(buffer) # {} PROVE Safe'
    BY IdleCommitSafe
  <1>1. request # Nothing /\ Pending(buffer) # {} /\ job = Nothing
    BY CommitOutcome, NothingAssumption
  <1> DEFINE i == CommitJob
             u == handleManualEditActivity("started", FirstDock, Count)
  <1>2. /\ u \in Docks /\ Quiet(u) /\ (~u.lapsed => Locked(u))
        /\ HandedOn(editor)
    BY <1>1, CountNat, IdleAgent, Requested DEF Types
  <1>3. /\ transaction' = [ids |-> EntryIds(buffer), content |-> i.snap]
        /\ running /\ UnderWay(Nothing)
    BY <1>1, CommitOutcome
  <1>4. PICK C \in SUBSET DOMAIN i.batch : Dispatch(i, C, i.snap, editor, u)
    BY <1>1, CommitOutcome
  <1>5. /\ Shaped(i) /\ DOMAIN i.batch = Pending(buffer)
        /\ i.attempt = 0 /\ i.applied = {}
        /\ \A e \in Pending(buffer) : i.batch[e] = buffer[e]
    BY FirstTypes DEF CommitJob
  <1> HIDE DEF i, u
  <1> DEFINE k == [i EXCEPT !.todo = @ \ C]
  <1>6. /\ Shaped(k) /\ k.batch = i.batch /\ k.snap = i.snap
        /\ k.attempt = 0 /\ k.applied = {}
    BY <1>5 DEF Shaped, Jobs
  <1>7. /\ job' = k /\ file' = i.snap /\ editor' = editor
        /\ UNCHANGED <<buffer, running>> /\ dock' = u
    BY <1>4 DEF Dispatch
  <1> HIDE DEF k
  <1>8. job' # Nothing
    BY <1>6, <1>7, NothingAssumption DEF Shaped
  <1>9. transaction' # Nothing
    <2>1. i.snap \in Contents /\ EntryIds(buffer) \in SUBSET Texts
      BY <1>5, PendingFacts DEF Shaped, Jobs, Types, DiskOK
    <2>2. transaction' \in Transactions
      BY <1>3, <2>1 DEF Transactions
    <2>3. QED
      BY <2>2, NothingAssumption
  <1>10. transaction'.ids = EntryIds(buffer) /\ transaction'.content = i.snap
    BY <1>3
  <1>11. \A e \in Pending(buffer) : buffer[e].id \in EntryIds(buffer)
    BY DEF EntryIds
  <1>12. Good(job)'
    BY <1>1, <1>5, <1>6, <1>7, <1>9, <1>10, <1>11 DEF Good
  <1>13. Recovers'
    BY <1>1, <1>7, <1>10, <1>11 DEF Recovers
  <1>14. Quiet(dock') /\ (~dock'.lapsed => Locked(dock'))
    BY <1>2, <1>7
  <1>15. request' = Nothing /\ request' # "repair"
    BY <1>3, NothingAssumption DEF UnderWay
  <1>16. job'.snap = transaction'.content
    BY <1>6, <1>7, <1>10
  <1>17. QED
    BY <1>1, <1>2, <1>3, <1>6, <1>7, <1>8, <1>12, <1>13, <1>14, <1>15, <1>16,
       DispatchSafe

LEMMA RepairReady ==
  ASSUME Types, Safe, repair, transaction # Nothing, Pending(buffer) # {}
  PROVE  /\ Pending(buffer) # {}
         /\ Ready(RepairJob, editor,
                  handleManualEditActivity("started", FirstDock, Count))
  <1> DEFINE i == RepairJob
             t == handleManualEditActivity("started", FirstDock, Count)
  <1>1. request # Nothing /\ job = Nothing
    BY RepairOutcome, NothingAssumption DEF Safe, Docked
  <1>2. Pending(buffer) # {} /\ running
    BY <1>1, RepairOutcome DEF Safe, Docked
  <1>3. HandedOn(editor) /\ Count \in Nat
    BY <1>1, CountNat, IdleAgent DEF Types
  <1>4. t \in Docks /\ Quiet(t) /\ ~t.asked /\ (~t.lapsed => Locked(t))
    BY <1>1, <1>3, Requested
  <1>5. /\ Shaped(i) /\ DOMAIN i.batch = Pending(buffer)
        /\ i.applied = Pending(buffer) /\ i.todo = {}
        /\ \A e \in Pending(buffer) : i.batch[e] = buffer[e]
    BY FirstTypes DEF RepairJob
  <1> HIDE DEF i, t
  <1>6. /\ transaction.ids \cap EntryIds(buffer) # {}
        /\ \A e \in Elements \ Pending(buffer) : file[e] = transaction.content[e]
    BY <1>2 DEF Safe, Recovers
  <1>7. Good(i)
    BY <1>2, <1>5, <1>6 DEF Good
  <1>8. Ready(i, editor, t)
    BY <1>2, <1>3, <1>4, <1>5, <1>6, <1>7 DEF Ready
  <1>9. QED
    BY <1>2, <1>8 DEF i, t

LEMMA RepairSafe == ASSUME Types, Safe, repair PROVE Safe'
  <1>1. UnderWay(Nothing) /\ job = Nothing /\ request # Nothing
    BY RepairOutcome, NothingAssumption DEF Safe, Docked
  <1>2. CASE transaction # Nothing /\ Pending(buffer) # {}
    <2> DEFINE t == handleManualEditActivity("started", FirstDock, Count)
    <2>1. Outcome(RepairJob, editor, t)
      BY <1>2, RepairOutcome
    <2>2. Ready(RepairJob, editor, t)
      BY <1>2, RepairReady
    <2> HIDE DEF t
    <2>3. Left(Nothing, t)
      BY DEF Left
    <2>4. QED
      BY <1>1, <2>1, <2>2, <2>3, OutcomeSafe DEF Safe
  <1>3. CASE transaction = Nothing \/ Pending(buffer) = {}
    <2>1. /\ \/ dock' = handleManualEditActivity("done", FirstDock, 0)
             \/ dock' \in {showManualApplyDecision(FirstDock), FirstDock}
          /\ UNCHANGED <<disk, running, job, editor>>
      BY <1>3, RepairOutcome
    <2>2. dock'.live = dock.live /\ dock'.lapsed = dock.lapsed
      <3>1. CASE dock' = handleManualEditActivity("done", FirstDock, 0)
        BY <1>1, <3>1, Requested
      <3>2. CASE dock' \in {showManualApplyDecision(FirstDock), FirstDock}
        BY <3>2, FirstTypes, DecisionDock DEF Alike
      <3>3. QED
        BY <2>1, <3>1, <3>2
    <2>3. dock'.live => running'
      BY <2>1, <2>2 DEF Safe, Docked
    <2>4. /\ Recovers' /\ editor' = editor /\ job' = Nothing
          /\ ~dock.lapsed => Pending(buffer') # {}
      BY <1>1, <2>1 DEF Recovers, disk, Safe, Docked, Bolted
    <2>5. request' = Nothing
      BY <1>1 DEF UnderWay
    <2>6. HandedOn(editor)
      BY <1>1, IdleAgent
    <2>7. QED
      BY <2>2, <2>3, <2>4, <2>5, <2>6, OverSafe
  <1>4. QED
    BY <1>2, <1>3

LEMMA FollowReady ==
  ASSUME Types, Safe, job # Nothing, NEW j, Shaped(j), j.batch = job.batch,
         j.snap = job.snap, j.attempt = job.attempt,
         job.applied \subseteq j.applied, NEW ag, HandedOn(ag)
  PROVE  Ready(j, ag, dock) /\ Left(request, dock)
  <1>1. /\ Good(job) /\ running
        /\ job.attempt = 0 => job.snap = transaction.content
    BY DEF Safe, Followed
  <1>2. /\ dock \in Docks /\ Quiet(dock)
        /\ ~dock.lapsed => request = Nothing /\ Locked(dock)
        /\ request \in {Nothing, "commit"}
    BY DEF Safe, Docked, Bolted, CommitUnderWay, Types, PageOK
  <1>3. transaction.ids \cap EntryIds(buffer) # {}
    BY <1>1 DEF Good, Safe, Recovers
  <1>4. DOMAIN j.batch \ j.applied \subseteq DOMAIN job.batch \ job.applied
    OBVIOUS
  <1>5. Good(j)
    BY <1>1, <1>4 DEF Good
  <1>6. QED
    BY <1>1, <1>2, <1>3, <1>5 DEF Ready, Left

LEMMA AgentSafe ==
  ASSUME Types, Safe, AgentReports \/ ApplyTimesOut PROVE Safe'
  <1>1. CASE AgentReports
    <2>1. PICK j : /\ Shaped(j) /\ j.batch = job.batch /\ j.snap = job.snap
                   /\ j.attempt = job.attempt
                   /\ job.applied \subseteq j.applied
                   /\ Outcome(j, Nothing, dock)
      BY <1>1, ReportOutcome
    <2>2. job # Nothing /\ UnderWay(request) /\ HandedOn(Nothing)
      BY <1>1, ReportOutcome DEF HandedOn
    <2>3. Ready(j, Nothing, dock) /\ Left(request, dock)
      BY <2>1, <2>2, FollowReady
    <2>4. QED
      BY <2>1, <2>2, <2>3, OutcomeSafe DEF Safe
  <1>2. CASE ApplyTimesOut
    <2>1. PICK ag : HandedOn(ag) /\ (Outcome(job, ag, dock) \/ Undone(job, ag, dock))
      BY <1>2, TimeoutOutcome
    <2>2. job # Nothing /\ Shaped(job) /\ UnderWay(request)
      BY <1>2, TimeoutOutcome
    <2>3. Ready(job, ag, dock) /\ Left(request, dock)
      BY <2>1, <2>2, FollowReady
    <2>4. QED
      BY <2>1, <2>2, <2>3, OutcomeSafe DEF Safe
  <1>3. QED
    BY <1>1, <1>2

\* As long as nothing unguarded happens an agent writes what it was given.
LEMMA WorkSafe ==
  ASSUME Types, Safe, ~broken', AgentTakes \/ AgentWrites \/ AgentGone
                                \/ rollbackTimedOutApplyReply
  PROVE  Safe'
  <1>1. CASE AgentTakes
    <2> DEFINE b == [e \in event.els |-> job.batch[e]]
               a == [batch |-> b, fate |-> "live", snap |-> event.snap]
               v == [event EXCEPT !.taken = TRUE]
    <2>1. /\ event # Nothing /\ event' = v /\ editor' = a
          /\ UNCHANGED <<disk, running, job, mishaps, overlay, broken>>
      BY <1>1 DEF AgentTakes
    <2>2. event \in Events
      BY <2>1 DEF Types, CommitOK
    <2>3. a.batch = b /\ v.els = event.els
      BY <2>2 DEF Events
    <2> HIDE DEF a, v
    <2>4. Working'
      BY <2>1, <2>3 DEF Working
    <2>5. Docked' /\ Recovers' /\ Followed'
      BY <2>1, RecoversSame, FollowedSame
      DEF Safe, Docked, Bolted, CommitUnderWay, disk, overlay
    <2>6. QED
      BY <2>4, <2>5 DEF Safe
  <1>2. CASE AgentWrites
    <2>1. PICK e \in DOMAIN editor.batch :
            file' = [file EXCEPT ![e] = editor.batch[e].text]
      BY <1>2 DEF AgentWrites
    <2>2. /\ editor # Nothing /\ editor.fate = "live"
          /\ UNCHANGED <<buffer, transaction, server, editor, overlay>>
      BY <1>2 DEF AgentWrites
    <2>3. /\ event # Nothing /\ job # Nothing /\ Shaped(job)
          /\ event.els \subseteq DOMAIN job.batch
      BY <2>2 DEF Types, EditorOK, CommitOK
    <2>4. e \in DOMAIN job.batch /\ editor.batch[e] = job.batch[e]
      BY <2>1, <2>2, <2>3 DEF Safe, Working
    <2>5. DOMAIN job.batch \in SUBSET Elements /\ Good(job)
          /\ DOMAIN job.batch \subseteq Pending(buffer)
      BY <2>3, BatchFacts, GoodPending DEF Shaped, Jobs, Safe, Followed
    <2>6. file'[e] = job.batch[e].text
          /\ \A d \in Elements \ {e} : file'[d] = file[d]
      BY <2>1, <2>4, <2>5 DEF Types, DiskOK, Contents
    <2>7. /\ job' = job /\ running' = running /\ UNCHANGED <<buffer, transaction>>
          /\ event' = event /\ editor' = editor /\ UNCHANGED <<dock, request>>
      BY <2>2 DEF server, overlay
    <2>8. Good(job)'
      <3>1. \A d \in Elements \ DOMAIN job.batch :
              file'[d] = transaction.content[d]
        BY <2>4, <2>5, <2>6 DEF Good
      <3>2. job.attempt = 0 => \A d \in DOMAIN job.batch \ job.applied :
              file'[d] \in {transaction.content[d], job.batch[d].text}
        BY <2>5, <2>6 DEF Good
      <3>3. QED
        BY <2>5, <2>7, <3>1, <3>2 DEF Good
    <2>9. Recovers'
      <3>1. \A d \in Elements \ Pending(buffer) : file'[d] = file[d]
        BY <2>4, <2>5, <2>6
      <3>2. QED
        BY <2>7, <3>1 DEF Safe, Recovers
    <2>10. Followed'
      BY <2>7, <2>8 DEF Safe, Followed
    <2>11. Working' /\ Docked'
      BY <2>7 DEF Safe, Working, Docked, Bolted, CommitUnderWay
    <2>12. QED
      BY <2>9, <2>10, <2>11 DEF Safe
  <1>3. CASE AgentGone
    <2>1. /\ editor' = Nothing
          /\ UNCHANGED <<disk, running, job, mishaps, overlay, broken>>
      BY <1>3 DEF AgentGone
    <2>2. QED
      BY <2>1, RecoversSame, FollowedSame
      DEF Safe, Docked, Bolted, CommitUnderWay, Working, disk, overlay
  <1>4. CASE rollbackTimedOutApplyReply
    <2>1. /\ editor' = Nothing /\ file' = file
          /\ UNCHANGED <<buffer, transaction, server, overlay>>
      BY <1>4 DEF rollbackTimedOutApplyReply
    <2>2. QED
      BY <2>1, RecoversSame, FollowedSame
      DEF Safe, Docked, Bolted, CommitUnderWay, Working, server, overlay
  <1>5. QED
    BY <1>1, <1>2, <1>3, <1>4

LEMMA ServerSafe == ASSUME Types, Safe, ServerStops \/ Start PROVE Safe'
  <1>1. CASE ServerStops
    <2>1. /\ job' = Nothing /\ editor' = Died(editor) /\ dock' = Orphaned(dock) /\ ~running'
          /\ request' = Nothing /\ buffer' = buffer
      BY <1>1 DEF ServerStops, Shutdown, UnderWay, disk
    <2>2. HandedOn(Died(editor))
      BY DiedTypes DEF Types, EditorOK
    <2>3. /\ ~dock'.live
          /\ ~dock'.lapsed /\ Offers(dock') => Pending(buffer') # {}
      BY <2>1, OrphanedDock DEF Types, PageOK, Safe, Docked, Bolted
    <2>4. QED
      BY <2>1, <2>2, <2>3, OverSafe DEF Recovers
  <1>2. CASE Start
    <2>1. /\ ~running /\ running' /\ transaction' = Nothing
          /\ UNCHANGED <<buffer, job, event, editor, overlay>>
      BY <1>2 DEF Start
    <2>2. job = Nothing /\ request = Nothing /\ HandedOn(editor)
      BY <2>1, IdleAgent DEF Safe, Followed, Docked
    <2>3. QED
      BY <2>1, <2>2, OverSafe DEF overlay, Safe, Docked, Bolted, Recovers
  <1>3. QED
    BY <1>1, <1>2

LEMMA InitSafe == EditInit => Safe
  <1> HAVE EditInit
  <1>1. /\ job = Nothing /\ request = Nothing /\ editor = Nothing /\ transaction = Nothing
        /\ running /\ dock.view = "none"
    BY DEF EditInit
  <1>2. QED
    BY <1>1, NothingAssumption
    DEF Safe, Docked, Bolted, CommitUnderWay, Recovers, Followed, Working, Offers

LEMMA EditInvInit == EditInit => EditInv
  BY TypesInit, InitSafe DEF EditInv

LEMMA StepCases ==
  ASSUME [EditNext]_editVars
  PROVE  \/ UNCHANGED editVars
         \/ \/ \E e \in Elements : applyEditing(e)
            \/ onPendingPillClick \/ onPendingKeepFixingClick
            \/ Reload \/ connectSSE \/ fetchPendingCount \/ StoredLockLapses
         \/ stageEntry
         \/ discard \/ repairDecision
         \/ commit
         \/ repair
         \/ AgentTakes \/ AgentWrites \/ AgentGone \/ rollbackTimedOutApplyReply
         \/ ServerStops \/ Start
         \/ AgentReports \/ ApplyTimesOut
  BY Zenon DEF EditNext

LEMMA EditInvStep == ASSUME EditInv, [EditNext]_editVars PROVE EditInv'
  <1>1. Types /\ Types'
    BY TypesStep DEF EditInv, Safe, Docked
  <1>2. ASSUME ~broken' PROVE Safe'
    <2>1. Safe
      BY <1>1, <1>2, BrokenStays DEF EditInv
    <2>2. CASE UNCHANGED editVars
      BY <2>1, <2>2, RecoversSame, FollowedSame
      DEF editVars, disk, server, overlay, Safe, Docked, Bolted, CommitUnderWay,
          Working
    <2>3. CASE \/ \E e \in Elements : applyEditing(e)
               \/ onPendingPillClick \/ onPendingKeepFixingClick
               \/ Reload \/ connectSSE \/ fetchPendingCount \/ StoredLockLapses
      BY <1>1, <2>1, <2>3, PageSafe
    <2>4. CASE stageEntry
      BY <1>1, <1>2, <2>1, <2>4, StageSafe
    <2>5. CASE discard \/ repairDecision
      BY <1>1, <1>2, <2>1, <2>5, UndoSafe
    <2>6. CASE commit
      BY <1>1, <1>2, <2>1, <2>6, CommitSafe
    <2>7. CASE repair
      BY <1>1, <2>1, <2>7, RepairSafe
    <2>8. CASE AgentTakes \/ AgentWrites \/ AgentGone \/ rollbackTimedOutApplyReply
      BY <1>1, <1>2, <2>1, <2>8, WorkSafe
    <2>9. CASE ServerStops \/ Start
      BY <1>1, <2>1, <2>9, ServerSafe
    <2>10. CASE AgentReports \/ ApplyTimesOut
      BY <1>1, <2>1, <2>10, AgentSafe
    <2>11. QED
      BY <2>2, <2>3, <2>4, <2>5, <2>6, <2>7, <2>8, <2>9, <2>10, StepCases
  <1>3. QED
    BY <1>1, <1>2 DEF EditInv

\* The invariant says what the run checks.
LEMMA EditInvLocked == EditInv => LockedWhileApplying
  <1> HAVE EditInv
  <1>1. EditTypeOK
    BY DEF EditInv, Types, DiskOK, CommitOK, EditorOK, PageOK, ServerOK,
           GhostOK, EditTypeOK, Shaped
  <1>2. ASSUME job # Nothing, ~broken
        PROVE  /\ \/ dock.view \in {"none", "loading"}
                  \/ dock.view = "ready" /\ dock.lapsed
               /\ request # "repair"
    <2>1. /\ Quiet(dock) /\ (request = "repair" => job = Nothing)
          /\ ~dock.lapsed => Bolted
      BY <1>2 DEF EditInv, Safe, Docked
    <2>2. ~dock.lapsed => dock.view \in {"none", "loading"}
      BY <1>2, <2>1 DEF Bolted, CommitUnderWay, Locked
    <2>3. dock.view \in {"none", "loading"} \/ dock.view = "ready"
      BY <2>1 DEF Quiet
    <2>4. QED
      BY <1>2, <2>1, <2>2, <2>3
  <1>3. QED
    BY <1>1, <1>2 DEF LockedWhileApplying

LEMMA EditInvAlways == EditSpec => []EditInv
  BY EditInvInit, EditInvStep, PTL DEF EditSpec

\* While a commit is in flight the page offers neither Apply nor Discard nor a
\* decision, and a repair is not asked for: for any page and any bounds, and
\* with a stored lock that lapses at any time; once it has lapsed under the
\* commit, the page may offer Apply and Discard, but still no decision.
THEOREM EditsLockedWhileApplying == EditSpec => []LockedWhileApplying
  BY EditInvAlways, EditInvLocked, PTL

-----------------------------------------------------------------------------
(* The commit implements the ledger.                                       *)

Waits(b) == [e \in Elements |-> IF b[e] = Nothing THEN Nothing ELSE b[e].text]

\* The ledger sees nothing of a step.
Unseen == Waits(buffer') = Waits(buffer) /\ Recoverable' = Recoverable

LedgerMoves ==
  \/ Unseen
  \/ \E e \in Elements, t \in Texts :
       /\ Waits(buffer') = [Waits(buffer) EXCEPT ![e] = t]
       /\ Recoverable' = Recoverable
  \/ \E S \in SUBSET {e \in Elements : Waits(buffer)[e] # Nothing} :
       /\ Recoverable' = [e \in Elements |->
                            IF e \in S THEN Waits(buffer)[e] ELSE Recoverable[e]]
       /\ Waits(buffer') = [e \in Elements |->
                              IF e \in S THEN Nothing ELSE Waits(buffer)[e]]
  \/ /\ Waits(buffer') = [e \in Elements |-> Nothing]
     /\ Recoverable' = Recoverable

LEMMA UnseenDisk == ASSUME UNCHANGED <<file, buffer, transaction>> PROVE Unseen
  BY DEF Unseen, Recoverable, rollbackManualApplyTransaction, Waits

\* What a rollback leaves is what was recoverable.
LEMMA UnseenRollback ==
  ASSUME file' = Recoverable, transaction' = Nothing, UNCHANGED buffer
  PROVE  Unseen
  BY DEF Unseen, Recoverable, rollbackManualApplyTransaction, Waits

LEMMA ReadyRecoverable ==
  ASSUME NEW j, NEW ag, NEW t, Ready(j, ag, t)
  PROVE  /\ Recoverable = transaction.content /\ transaction # Nothing
         /\ transaction.ids \cap EntryIds(buffer) # {}
  BY DEF Ready, Good, Recoverable, rollbackManualApplyTransaction

LEMMA UndoneUnseen ==
  ASSUME Types, NEW j, NEW ag, NEW t, Ready(j, ag, t),
         j.snap = transaction.content, Undone(j, ag, t)
  PROVE  Unseen
  <1>1. clearAppliedEntries(j.batch, {}) = buffer
    BY DEF clearAppliedEntries, Types, DiskOK
  <1>2. /\ buffer' = buffer /\ file' = transaction.content /\ transaction' = Nothing
    BY <1>1 DEF Undone, Finish
  <1>3. QED
    BY <1>2, ReadyRecoverable, UnseenRollback

\* What is not reported applied is as it was when the commit is done.
LEMMA RestAsItWas ==
  ASSUME Types, ~broken', NEW j, NEW ag, NEW t, Ready(j, ag, t), Done(j, ag, t)
  PROVE  /\ \A e \in Elements \ j.applied : file[e] = transaction.content[e]
         /\ Recoverable' = file
  <1> DEFINE kept == clearAppliedEntries(j.batch, j.applied)
  <1>1. /\ Finish(j, j.applied, file, ag, t) /\ file' = file
        /\ buffer' = kept
    BY DEF Done, Finish
  <1>2. /\ Shaped(j) /\ Good(j) /\ transaction # Nothing
        /\ DOMAIN j.batch \in SUBSET Elements
        /\ j.batch \in [DOMAIN j.batch -> Entry]
    BY BatchFacts DEF Ready, Good, Shaped, Jobs
  <1>3. \A e \in Elements \ DOMAIN j.batch : file[e] = transaction.content[e]
    BY <1>2 DEF Good
  <1>4. CASE transaction' = Nothing /\ broken' = (broken \/ Unreported(j, j.applied))
    <2>1. ASSUME NEW e \in DOMAIN j.batch \ j.applied
          PROVE  file[e] = transaction.content[e]
      <3>1. CASE j.attempt = 0
        <4>1. j.snap = transaction.content
          BY <1>2, <2>1, <3>1 DEF Good
        <4>2. file[e] \in {transaction.content[e], j.batch[e].text}
          BY <1>2, <2>1, <3>1 DEF Good
        <4>3. ~(file[e] = j.batch[e].text /\ j.snap[e] # file[e])
          BY <2>1, <3>1 DEF Done, Leaked
        <4>4. QED
          BY <4>1, <4>2, <4>3
      <3>2. CASE j.attempt # 0
        <4>1. MaxAttempts \in Nat /\ j.attempt \in 0 .. MaxAttempts
          BY <1>2, ManualAssumption DEF ManualAssumption, Shaped, Jobs
        <4>2. j.attempt > 0
          BY <3>2, <4>1
        <4>3. ~Unreported(j, j.applied)
          BY <1>4
        <4>4. QED
          BY <1>2, <2>1, <4>2, <4>3 DEF Unreported
      <3>3. QED
        BY <3>1, <3>2
    <2>2. Recoverable' = file
      BY <1>1, <1>4 DEF Recoverable, rollbackManualApplyTransaction
    <2>3. QED
      BY <1>3, <2>1, <2>2
  <1>5. CASE /\ UNCHANGED transaction
             /\ broken' = (broken \/ transaction.ids \cap EntryIds(kept) # {})
    <2>1. transaction.ids \cap EntryIds(kept) = {}
      BY <1>5
    <2>2. Recoverable' = file
      BY <1>1, <1>5, <2>1 DEF Recoverable, rollbackManualApplyTransaction
    <2>3. ASSUME NEW e \in DOMAIN j.batch \ j.applied PROVE FALSE
      <3>1. e \in Elements /\ buffer[e] = j.batch[e] /\ j.batch[e] \in Entry
        BY <1>2, <2>3 DEF Good
      <3>2. kept[e] = buffer[e] /\ buffer[e] # Nothing
        BY <2>3, <3>1, NothingAssumption DEF clearAppliedEntries
      <3>3. kept[e].id \in EntryIds(kept)
        BY <3>1, <3>2 DEF EntryIds, Pending
      <3>4. kept[e].id \in transaction.ids
        BY <1>2, <2>3, <3>1, <3>2 DEF Good
      <3>5. QED
        BY <2>1, <3>3, <3>4
    <2>4. QED
      BY <1>3, <2>2, <2>3
  <1>6. QED
    BY <1>1, <1>4, <1>5 DEF Finish

LEMMA DoneKept ==
  ASSUME Types, ~broken', NEW j, NEW ag, NEW t, Ready(j, ag, t), Done(j, ag, t)
  PROVE  LedgerMoves
  <1> DEFINE S == j.applied
             w == Waits(buffer)
             r == Recoverable
  <1>1. /\ Shaped(j) /\ Good(j) /\ S \subseteq DOMAIN j.batch
        /\ DOMAIN j.batch \in SUBSET Elements
        /\ j.batch \in [DOMAIN j.batch -> Entry]
        /\ buffer' = clearAppliedEntries(j.batch, S)
    BY BatchFacts DEF Ready, Shaped, Jobs, Done, Finish
  <1>2. \A e \in S : /\ e \in Elements /\ buffer[e] = j.batch[e]
                     /\ buffer[e] # Nothing /\ w[e] = j.batch[e].text
                     /\ j.batch[e].text \in Texts
    <2>1. \A e \in S : /\ e \in Elements /\ buffer[e] = j.batch[e]
                       /\ j.batch[e] \in Entry
      BY <1>1 DEF Good
    <2>2. QED
      BY <2>1, NothingAssumption DEF Waits, Entry
  <1>3. S \in SUBSET {e \in Elements : w[e] # Nothing}
    BY <1>2, NothingAssumption
  <1>4. buffer' = [e \in Elements |-> IF e \in S THEN Nothing ELSE buffer[e]]
    BY <1>1, <1>2 DEF clearAppliedEntries
  <1>5. Waits(buffer') = [e \in Elements |-> IF e \in S THEN Nothing ELSE w[e]]
    BY <1>4 DEF Waits
  <1>6. Recoverable' = [e \in Elements |-> IF e \in S THEN w[e] ELSE r[e]]
    <2>1. file \in [Elements -> Texts]
      BY DEF Types, DiskOK, Contents
    <2>2. \A e \in S : file[e] = w[e]
      BY <1>2 DEF Done, Verified
    <2>3. \A e \in Elements \ S : file[e] = r[e]
      BY RestAsItWas, ReadyRecoverable
    <2> HIDE DEF w, r, S
    <2>4. file = [e \in Elements |-> IF e \in S THEN w[e] ELSE r[e]]
      BY <2>1, <2>2, <2>3
    <2>5. QED
      BY <2>4, RestAsItWas
  <1>7. QED
    BY <1>3, <1>5, <1>6 DEF LedgerMoves

LEMMA OutcomeKept ==
  ASSUME Types, ~broken', NEW j, NEW ag, NEW t, Ready(j, ag, t),
         Outcome(j, ag, t)
           \/ (Undone(j, ag, t) /\ j.snap = transaction.content)
  PROVE  LedgerMoves
  <1>1. CASE GoesOn(j, ag, t) \/ NeedsManualDecision(ag, t)
    <2>1. UNCHANGED <<file, buffer, transaction>>
      BY <1>1 DEF GoesOn, Dispatch, NeedsManualDecision, disk
    <2>2. QED
      BY <2>1, UnseenDisk DEF LedgerMoves
  <1>2. CASE CommitThrows(ag, t)
    BY <1>2, UnseenRollback DEF CommitThrows, Recoverable, LedgerMoves
  <1>3. CASE Undone(j, ag, t) /\ j.applied # DOMAIN j.batch
    <2>1. j.snap = transaction.content
      BY <1>3 DEF Undone, Ready, Good
    <2>2. QED
      BY <1>3, <2>1, UndoneUnseen DEF LedgerMoves
  <1>4. QED
    BY <1>1, <1>2, <1>3, DoneKept, UndoneUnseen DEF Outcome, LedgerMoves

LEMMA StageKept ==
  ASSUME Types, Safe, stageEntry PROVE LedgerMoves
  <1>1. PICK e \in Elements :
           /\ saving.text \in Texts /\ running
           /\ buffer' \in [Elements -> Entry \cup {Nothing}]
           /\ buffer'[e] # Nothing /\ buffer'[e].text = saving.text
           /\ buffer[e] # Nothing => buffer'[e].id = buffer[e].id
           /\ \A d \in Elements \ {e} : buffer'[d] = buffer[d]
           /\ UNCHANGED <<file, transaction>>
    BY StagedBuffer
  <1>2. Waits(buffer') = [Waits(buffer) EXCEPT ![e] = saving.text]
    BY <1>1 DEF Waits
  <1>3. EntryIds(buffer) \subseteq EntryIds(buffer')
    BY <1>1 DEF EntryIds, Pending
  <1>4. Recoverable' = Recoverable
    BY <1>1, <1>3 DEF Recoverable, rollbackManualApplyTransaction, Safe, Recovers
  <1>5. QED
    BY <1>1, <1>2, <1>4 DEF LedgerMoves

LEMMA UndoKept ==
  ASSUME Types, Safe, ~broken', discard \/ repairDecision \/ Start PROVE LedgerMoves
  <1>1. file' = Recoverable /\ transaction' = Nothing
    <2>1. CASE discard
      <3>1. job = Nothing
        BY <2>1 DEF discard
      <3>2. event = Nothing
        BY <3>1 DEF Types, CommitOK
      <3>3. QED
        BY <2>1, <3>2 DEF discard, Recoverable
    <2>2. QED
      BY <2>1 DEF repairDecision, Start, Recoverable
  <1>2. Recoverable' = Recoverable
    BY <1>1 DEF Recoverable, rollbackManualApplyTransaction
  <1>3. CASE discard
    BY <1>2, <1>3 DEF discard, Waits, LedgerMoves
  <1>4. CASE repairDecision \/ Start
    BY <1>1, <1>4, UnseenRollback DEF repairDecision, Start, LedgerMoves
  <1>5. QED
    BY <1>3, <1>4

LEMMA CommitKept ==
  ASSUME Types, Safe, ~broken', commit \/ repair PROVE LedgerMoves
  <1>1. CASE commit
    <2>1. CASE Pending(buffer) = {}
      <3>1. transaction' = Nothing /\ file' = file /\ buffer' = buffer
        BY <1>1, <2>1, CommitOutcome
      <3>2. EntryIds(buffer) = {}
        BY <2>1 DEF EntryIds
      <3>3. Recoverable = file
        BY <3>2 DEF Recoverable, rollbackManualApplyTransaction
      <3>4. QED
        BY <3>1, <3>3, UnseenRollback DEF LedgerMoves
    <2>2. CASE Pending(buffer) # {}
      <3>1. /\ transaction' = [ids |-> EntryIds(buffer), content |-> CommitJob.snap]
            /\ file' = CommitJob.snap /\ buffer' = buffer
        BY <1>1, <2>2, CommitOutcome DEF Dispatch
      <3>2. CommitJob.snap = Recoverable
        BY DEF CommitJob, Recoverable
      <3>3. Recoverable' \in {file', transaction'.content}
        BY DEF Recoverable, rollbackManualApplyTransaction
      <3>4. QED
        BY <3>1, <3>2, <3>3 DEF LedgerMoves, Unseen, Waits
    <2>3. QED
      BY <2>1, <2>2
  <1>2. CASE repair
    <2>1. CASE UNCHANGED disk
      BY <2>1, UnseenDisk DEF LedgerMoves, disk
    <2>2. CASE /\ transaction # Nothing /\ Pending(buffer) # {}
               /\ Outcome(RepairJob, editor,
                    handleManualEditActivity("started", FirstDock, Count))
      BY <1>2, <2>2, RepairReady, OutcomeKept
    <2>3. QED
      BY <1>2, <2>1, <2>2, RepairOutcome
  <1>3. QED
    BY <1>1, <1>2

LEMMA AgentKept ==
  ASSUME Types, Safe, ~broken', AgentReports \/ ApplyTimesOut PROVE LedgerMoves
  <1>1. CASE AgentReports
    <2>1. PICK j : /\ Shaped(j) /\ j.batch = job.batch /\ j.snap = job.snap
                   /\ j.attempt = job.attempt
                   /\ job.applied \subseteq j.applied
                   /\ Outcome(j, Nothing, dock)
      BY <1>1, ReportOutcome
    <2>2. job # Nothing /\ HandedOn(Nothing)
      BY <1>1, ReportOutcome DEF HandedOn
    <2>3. Ready(j, Nothing, dock)
      BY <2>1, <2>2, FollowReady
    <2>4. QED
      BY <2>1, <2>3, OutcomeKept
  <1>2. CASE ApplyTimesOut
    <2>1. PICK ag : HandedOn(ag) /\ (Outcome(job, ag, dock) \/ Undone(job, ag, dock))
      BY <1>2, TimeoutOutcome
    <2>2. job # Nothing /\ Shaped(job)
      BY <1>2, TimeoutOutcome
    <2>3. Ready(job, ag, dock)
      BY <2>1, <2>2, FollowReady
    <2>4. Undone(job, ag, dock) => job.snap = transaction.content
      BY <2>2 DEF Undone, Safe, Followed
    <2>5. QED
      BY <2>1, <2>3, <2>4, OutcomeKept
  <1>3. QED
    BY <1>1, <1>2

LEMMA WorkKept ==
  ASSUME Types, Safe, ~broken', AgentTakes \/ AgentWrites \/ AgentGone
                                \/ rollbackTimedOutApplyReply
  PROVE  LedgerMoves
  <1>1. CASE AgentTakes \/ AgentGone
    BY <1>1, UnseenDisk DEF AgentTakes, AgentGone, disk, LedgerMoves
  <1>2. CASE AgentWrites
    <2>1. /\ editor # Nothing /\ editor.fate = "live"
          /\ UNCHANGED <<buffer, transaction>>
      BY <1>2 DEF AgentWrites
    <2>2. job # Nothing
      BY <2>1 DEF Types, EditorOK, CommitOK
    <2>3. transaction # Nothing /\ transaction.ids \cap EntryIds(buffer) # {}
      BY <2>2 DEF Safe, Followed, Good, Recovers
    <2>4. QED
      BY <2>1, <2>3
      DEF LedgerMoves, Unseen, Waits, Recoverable, rollbackManualApplyTransaction
  <1>3. CASE rollbackTimedOutApplyReply
    <2>1. UNCHANGED <<file, buffer, transaction>>
      BY <1>3 DEF rollbackTimedOutApplyReply
    <2>2. QED
      BY <2>1, UnseenDisk DEF LedgerMoves
  <1>4. QED
    BY <1>1, <1>2, <1>3

LEMMA StepKept ==
  ASSUME EditInv, [EditNext]_editVars, ~broken' PROVE LedgerMoves
  <1>1. Types /\ Safe
    BY BrokenStays DEF EditInv
  <1>2. CASE UNCHANGED editVars
    BY <1>2, UnseenDisk DEF editVars, disk, LedgerMoves
  <1>3. CASE \/ \E e \in Elements : applyEditing(e)
             \/ onPendingPillClick \/ onPendingKeepFixingClick
             \/ Reload \/ connectSSE \/ fetchPendingCount \/ StoredLockLapses
             \/ ServerStops
    <2>1. UNCHANGED disk
      BY <1>3 DEF applyEditing, onPendingPillClick, onPendingKeepFixingClick,
                  Reload, connectSSE, fetchPendingCount, StoredLockLapses,
                  ServerStops
    <2>2. QED
      BY <2>1, UnseenDisk DEF disk, LedgerMoves
  <1>4. CASE stageEntry
    BY <1>1, <1>4, StageKept
  <1>5. CASE discard \/ repairDecision \/ Start
    BY <1>1, <1>5, UndoKept
  <1>6. CASE commit \/ repair
    BY <1>1, <1>6, CommitKept
  <1>7. CASE AgentTakes \/ AgentWrites \/ AgentGone \/ rollbackTimedOutApplyReply
    BY <1>1, <1>7, WorkKept
  <1>8. CASE AgentReports \/ ApplyTimesOut
    BY <1>1, <1>8, AgentKept
  <1>9. QED
    BY <1>2, <1>3, <1>4, <1>5, <1>6, <1>7, <1>8, StepCases

LEMMA LedgerInit == EditInit => Ledger!Init
  <1> HAVE EditInit
  <1>1. /\ buffer = [e \in Elements |-> Nothing] /\ transaction = Nothing
        /\ file = [e \in Elements |-> 0] /\ broken = FALSE
    BY DEF EditInit
  <1>2. Recoverable = file
    BY <1>1 DEF Recoverable, rollbackManualApplyTransaction
  <1>3. file \in [Elements -> Texts]
    BY <1>1, TextsNat
  <1>4. QED
    BY <1>1, <1>2, <1>3 DEF Ledger!Init

LEMMA LedgerStep ==
  ASSUME EditInv, EditInv', [EditNext]_editVars
  PROVE  [(~broken /\ ~broken' /\ Ledger!Kept) \/ broken']_<<
            [e \in Elements |->
               IF buffer[e] = Nothing THEN Nothing ELSE buffer[e].text],
            Recoverable, broken>>
  <1>1. CASE broken'
    BY <1>1
  <1>2. CASE ~broken'
    <2>1. LedgerMoves /\ ~broken
      BY <1>2, StepKept, BrokenStays DEF EditInv
    <2>2. CASE Unseen
      <3>1. broken' = broken
        BY <1>2, <2>1 DEF EditInv, Types, GhostOK
      <3>2. QED
        BY <2>2, <3>1 DEF Unseen, Waits
    <2>3. CASE \E e \in Elements, t \in Texts :
                 /\ Waits(buffer') = [Waits(buffer) EXCEPT ![e] = t]
                 /\ Recoverable' = Recoverable
      <3>1. Ledger!Kept
        BY <2>3 DEF Ledger!Kept, Ledger!Save, Waits
      <3>2. QED
        BY <1>2, <2>1, <3>1
    <2>4. CASE \E S \in SUBSET {e \in Elements : Waits(buffer)[e] # Nothing} :
                 /\ Recoverable' = [e \in Elements |->
                      IF e \in S THEN Waits(buffer)[e] ELSE Recoverable[e]]
                 /\ Waits(buffer') = [e \in Elements |->
                      IF e \in S THEN Nothing ELSE Waits(buffer)[e]]
      <3>1. Ledger!Kept
        BY <2>4 DEF Ledger!Kept, Ledger!Apply, Ledger!Waiting, Waits
      <3>2. QED
        BY <1>2, <2>1, <3>1
    <2>5. CASE /\ Waits(buffer') = [e \in Elements |-> Nothing]
               /\ Recoverable' = Recoverable
      <3>1. Ledger!Kept
        BY <2>5 DEF Ledger!Kept, Ledger!Discard, Waits
      <3>2. QED
        BY <1>2, <2>1, <3>1
    <2>6. QED
      BY <2>1, <2>2, <2>3, <2>4, <2>5 DEF LedgerMoves
  <1>3. QED
    BY <1>1, <1>2

\* Apply is all or nothing for each edit, and exact: an edit leaves the buffer
\* only when it is discarded or the source holds its last text, and what can be
\* recovered of the source changes in no other way.
THEOREM EditsImplementLedger == EditSpec => ImplementsLedger
  <1>1. EditInit => Ledger!Init
    BY LedgerInit
  <1>2. EditInv /\ EditInv' /\ [EditNext]_editVars =>
          [(~broken /\ ~broken' /\ Ledger!Kept) \/ broken']_<<
            [e \in Elements |->
               IF buffer[e] = Nothing THEN Nothing ELSE buffer[e].text],
            Recoverable, broken>>
    BY LedgerStep
  <1>3. QED
    BY <1>1, <1>2, EditInvAlways, PTL DEF EditSpec, ImplementsLedger, Ledger!Spec
-----------------------------------------------------------------------------
(* A commit can only go forward.                                           *)

\* How many more events a commit may send after the one it waits for: one for
\* each text that is left, and the repairs.
Remaining(j) == Cardinality(j.todo) + (MaxAttempts - j.attempt)

LEMMA TodoFacts ==
  ASSUME NEW j, Shaped(j)
  PROVE  /\ IsFiniteSet(j.todo) /\ Cardinality(j.todo) \in Nat
         /\ MaxAttempts \in Nat /\ j.attempt \in 0 .. MaxAttempts
         /\ DOMAIN j.batch \in SUBSET Elements
  <1>1. j.todo \in SUBSET Elements /\ j.attempt \in 0 .. MaxAttempts
        /\ DOMAIN j.batch \in SUBSET Elements
    BY BatchFacts DEF Shaped, Jobs
  <1>2. IsFiniteSet(j.todo)
    BY <1>1, FS_Subset, ManualAssumption DEF ManualAssumption
  <1>3. QED
    BY <1>1, <1>2, FS_CardinalityType, ManualAssumption DEF ManualAssumption

\* The commit is over, or has fewer events left to send than j had.
Advances(j) == job' = Nothing \/ Remaining(job') \in 0 .. (Remaining(j) - 1)

LEMMA EndedAdvances ==
  ASSUME NEW j, NEW done, NEW src, NEW ag, NEW t,
         \/ Finish(j, done, src, ag, t) \/ CommitThrows(ag, t)
         \/ NeedsManualDecision(ag, t)
  PROVE  job' = Nothing
  BY DEF Finish, Shutdown, CommitThrows, NeedsManualDecision

\* A chunk is never empty.
LEMMA ChunkAdvances ==
  ASSUME NEW j, Shaped(j), j.todo # {}, NEW C \in Chunks(j.todo), NEW src,
         NEW ag, NEW t, Dispatch(j, C, src, ag, t)
  PROVE  Advances(j)
  <1> DEFINE k == [j EXCEPT !.todo = @ \ C]
             rest == j.todo \ C
             nj == Cardinality(j.todo)
             nr == Cardinality(rest)
  <1>1. k.todo = rest /\ k.attempt = j.attempt
    BY DEF Shaped, Jobs
  <1>2. C \in SUBSET j.todo /\ (C = j.todo \/ Cardinality(C) = ChunkSize)
    BY DEF Chunks
  <1>3. ChunkSize # 0
    BY ManualAssumption DEF ManualAssumption
  <1>4. C # {}
    BY <1>2, <1>3, FS_EmptySet
  <1>5. rest \in SUBSET j.todo /\ rest # j.todo
    BY <1>2, <1>4
  <1>6. IsFiniteSet(j.todo) /\ nj \in Nat /\ MaxAttempts \in Nat
        /\ j.attempt \in 0 .. MaxAttempts
    BY TodoFacts
  <1>7. nr \in Nat /\ nr <= nj /\ nr # nj
    BY <1>5, <1>6, FS_Subset, FS_CardinalityType
  <1>8. job' = k
    BY DEF Dispatch
  <1>9. Remaining(job') = nr + (MaxAttempts - j.attempt)
        /\ Remaining(j) = nj + (MaxAttempts - j.attempt)
    BY <1>1, <1>8 DEF Remaining
  <1> HIDE DEF k, rest, nj, nr
  <1>10. QED
    BY <1>6, <1>7, <1>9 DEF Advances

\* A repair uses an attempt up, and takes in all that was left.
LEMMA RepairAdvances ==
  ASSUME NEW j, Shaped(j), NEW a, NEW n, n = j.attempt + 1, NEW ag, NEW t,
         Repair([j EXCEPT !.applied = a], n, ag, t)
  PROVE  Advances(j)
  <1> DEFINE i == [j EXCEPT !.applied = a]
             h == [i EXCEPT !.attempt = n]
             nj == Cardinality(j.todo)
             nr == Cardinality(job'.todo)
  <1>1. IsFiniteSet(j.todo) /\ nj \in Nat /\ MaxAttempts \in Nat
        /\ j.attempt \in 0 .. MaxAttempts
    BY TodoFacts
  <1>2. CASE n > MaxAttempts
    BY <1>2, EndedAdvances DEF Repair, Advances
  <1>3. CASE ~(n > MaxAttempts)
    <2>1. h.todo = j.todo /\ h.attempt = n /\ i.batch = j.batch
      BY DEF Shaped, Jobs
    <2>2. job' = [h EXCEPT !.todo = @ \ DOMAIN i.batch]
      BY <1>3 DEF Repair, Dispatch
    <2>3. job'.attempt = n /\ job'.todo = j.todo \ DOMAIN j.batch
      BY <2>1, <2>2 DEF Shaped, Jobs
    <2>4. job'.todo = {}
      BY <2>3 DEF Shaped
    <2>5. nr = 0
      BY <2>4, FS_EmptySet
    <2>6. Remaining(job') = nr + (MaxAttempts - n)
          /\ Remaining(j) = nj + (MaxAttempts - j.attempt)
      BY <2>3 DEF Remaining
    <2> HIDE DEF nr, nj
    <2>7. QED
      BY <1>1, <1>3, <2>5, <2>6 DEF Advances
  <1>4. QED
    BY <1>2, <1>3

LEMMA ValidateAdvances ==
  ASSUME NEW j, Shaped(j), NEW n, n = j.attempt + 1, NEW ag, NEW t,
         Validate(j, n, ag, t)
  PROVE  Advances(j)
  <1>1. CASE Repair(j, n, ag, t)
    <2>1. Repair([j EXCEPT !.applied = j.applied], n, ag, t)
      BY <1>1, AppliedSame
    <2>2. QED
      BY <2>1, RepairAdvances
  <1>2. CASE Finish(j, j.applied, file, ag, t) \/ CommitThrows(ag, t)
    BY <1>2, EndedAdvances DEF Advances
  <1>3. CASE Repair([j EXCEPT !.applied = IF @ = {} THEN DOMAIN j.batch ELSE @],
                    n, ag, t)
    <2>1. PICK a : Repair([j EXCEPT !.applied = a], n, ag, t)
      BY <1>3
    <2>2. QED
      BY <2>1, RepairAdvances
  <1>4. QED
    BY <1>1, <1>2, <1>3 DEF Validate

LEMMA AfterApplyAdvances ==
  ASSUME NEW j, Shaped(j), j.attempt = 0, NEW failed, NEW ag, NEW t,
         AfterApply(j, failed, ag, t)
  PROVE  Advances(j)
  <1>1. CASE Finish(j, {}, j.snap, ag, t)
    BY <1>1, EndedAdvances DEF Advances
  <1>2. CASE Validate(j, 1, ag, t)
    BY <1>2, ValidateAdvances
  <1>3. QED
    BY <1>1, <1>2 DEF AfterApply

LEMMA AfterChunkAdvances ==
  ASSUME NEW j, Shaped(j), j.attempt = 0, NEW failed, NEW ag,
         AfterChunk(j, failed, ag)
  PROVE  Advances(j)
  <1>1. CASE j.todo # {} /\ ~failed
    <2>1. PICK C \in Chunks(j.todo) : Dispatch(j, C, file, ag, dock)
      BY <1>1 DEF AfterChunk
    <2>2. QED
      BY <1>1, <2>1, ChunkAdvances
  <1>2. CASE ~(j.todo # {} /\ ~failed)
    BY <1>2, AfterApplyAdvances DEF AfterChunk
  <1>3. QED
    BY <1>1, <1>2

\* Every report and every timeout moves the commit on.
LEMMA ReportAdvances == ASSUME Types, AgentReports PROVE Advances(job)
  <1>1. job # Nothing /\ Shaped(job) /\ event.els \subseteq DOMAIN job.batch
    BY DEF AgentReports, Types, EditorOK, CommitOK
  <1>2. PICK S \in SUBSET event.els, error \in BOOLEAN :
          LET j == [job EXCEPT !.applied = @ \cup S]
          IN  IF j.attempt = 0 THEN AfterChunk(j, error, Nothing)
                               ELSE Validate(j, j.attempt + 1, Nothing, dock)
    BY DEF AgentReports
  <1> DEFINE j == [job EXCEPT !.applied = @ \cup S]
  <1>3. DOMAIN job.batch \in SUBSET Elements
    BY <1>1, TodoFacts
  <1>4. Shaped(j) /\ j.attempt = job.attempt /\ j.todo = job.todo
    BY <1>1, <1>3 DEF Shaped, Jobs
  <1>5. IF j.attempt = 0 THEN AfterChunk(j, error, Nothing)
                         ELSE Validate(j, j.attempt + 1, Nothing, dock)
    BY <1>2
  <1>6. Remaining(j) = Remaining(job)
    BY <1>4 DEF Remaining
  <1> HIDE DEF j
  <1>7. Advances(j)
    BY <1>4, <1>5, AfterChunkAdvances, ValidateAdvances
  <1>8. QED
    BY <1>6, <1>7 DEF Advances

LEMMA TimeoutAdvances == ASSUME Types, ApplyTimesOut PROVE Advances(job)
  <1>1. job # Nothing /\ Shaped(job)
    BY DEF ApplyTimesOut, Types, CommitOK
  <1>2. PICK ag :
          \/ job.attempt > 0 /\ Repair(job, job.attempt + 1, ag, dock)
          \/ job.attempt = 0 /\ Chunked(job) /\ AfterChunk(job, TRUE, ag)
          \/ /\ job.attempt = 0 /\ ~Chunked(job)
             /\ Finish(job, {}, job.snap, ag, dock)
    BY DEF ApplyTimesOut
  <1>3. CASE Repair(job, job.attempt + 1, ag, dock)
    <2>1. Repair([job EXCEPT !.applied = job.applied], job.attempt + 1, ag, dock)
      BY <1>1, <1>3, AppliedSame
    <2>2. QED
      BY <1>1, <2>1, RepairAdvances
  <1>4. CASE job.attempt = 0 /\ AfterChunk(job, TRUE, ag)
    BY <1>1, <1>4, AfterChunkAdvances
  <1>5. CASE Finish(job, {}, job.snap, ag, dock)
    BY <1>5, EndedAdvances DEF Advances
  <1>6. QED
    BY <1>2, <1>3, <1>4, <1>5

\* Nothing else touches a commit in flight, but a server that dies.
\* What the code does not guard against is not followed further.
LEMMA RepairUnbroken ==
  ASSUME [EditNext]_editVars, broken
  PROVE  UNCHANGED editVars \/ AgentReports \/ ApplyTimesOut
  BY Zenon DEF EditNext

LEMMA OthersLeaveJob ==
  ASSUME Types, ~broken /\ request = "repair" => job = Nothing,
         [EditNext]_editVars, job # Nothing, ~AgentReports, ~ApplyTimesOut
  PROVE  job' \in {Nothing, job}
  <1>1. CASE UNCHANGED editVars
    BY <1>1 DEF editVars, server
  <1>2. CASE \/ \E e \in Elements : applyEditing(e)
             \/ onPendingPillClick \/ onPendingKeepFixingClick
             \/ Reload \/ connectSSE \/ fetchPendingCount \/ StoredLockLapses
             \/ stageEntry \/ discard \/ repairDecision
    <2>1. ASSUME NEW e, applyEditing(e) PROVE job' = job
      BY <2>1 DEF applyEditing, server
    <2>2. onPendingPillClick => job' = job
      BY DEF onPendingPillClick, server
    <2>3. onPendingKeepFixingClick => job' = job
      BY DEF onPendingKeepFixingClick, server
    <2>4. Reload \/ connectSSE => job' = job
      BY DEF Reload, connectSSE, server
    <2>5. fetchPendingCount => job' = job
      BY DEF fetchPendingCount, server
    <2>6. stageEntry => job' = job
      BY DEF stageEntry, server
    <2>7. discard => job' = job
      BY DEF discard
    <2>8. repairDecision => job' = job
      BY DEF repairDecision, server
    <2>9. StoredLockLapses => job' = job
      BY DEF StoredLockLapses
    <2>10. QED
      BY <1>2, <2>1, <2>2, <2>3, <2>4, <2>5, <2>6, <2>7, <2>8, <2>9
  <1>3. CASE commit
    <2>1. \/ UNCHANGED <<file, buffer, running, job, event, mishaps, editor, broken>>
          \/ job = Nothing
          \/ UNCHANGED <<buffer, running, job, event, mishaps, editor>>
      BY <1>3, CommitOutcome
    <2>2. QED
      BY <2>1
  <1>4. CASE repair
    <2>1. CASE broken
      BY <1>1, <2>1, RepairUnbroken
    <2>2. CASE ~broken
      BY <1>4, <2>2, RepairOutcome
    <2>3. QED
      BY <2>1, <2>2
  <1>5. CASE \/ AgentTakes \/ AgentWrites \/ AgentGone
             \/ rollbackTimedOutApplyReply
    BY <1>5 DEF AgentTakes, AgentWrites, AgentGone, rollbackTimedOutApplyReply,
                server
  <1>6. CASE ServerStops \/ Start
    BY <1>6 DEF ServerStops, Shutdown, Start
  <1>7. QED
    BY <1>1, <1>2, <1>3, <1>4, <1>5, <1>6, StepCases

\* What the end of a commit rests on (CommitEnds): each report and each timeout
\* of an apply event ends the commit or leaves it fewer events to send, at most
\* one for each text and each repair, and nothing ever sets it back.
THEOREM CommitAdvances ==
  EditSpec => [][job # Nothing =>
                   \/ job' = Nothing
                   \/ job' = job /\ ~AgentReports /\ ~ApplyTimesOut
                   \/ Remaining(job') \in 0 .. (Remaining(job) - 1)]_editVars
  <1>1. EditInv => Types /\ (~broken /\ request = "repair" => job = Nothing)
    BY DEF EditInv, Safe, Docked
  <1>2. EditInv /\ [EditNext]_editVars =>
          [job # Nothing =>
             \/ job' = Nothing
             \/ job' = job /\ ~AgentReports /\ ~ApplyTimesOut
             \/ Remaining(job') \in 0 .. (Remaining(job) - 1)]_editVars
    BY <1>1, ReportAdvances, TimeoutAdvances, OthersLeaveJob DEF Advances
  <1>3. QED
    BY <1>2, EditInvAlways, PTL DEF EditSpec
=============================================================================
