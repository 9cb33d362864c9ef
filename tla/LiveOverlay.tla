---------------------------- MODULE LiveOverlay ----------------------------
(***************************************************************************)
(* The overlay of live mode in the developer's page (live-browser.js) and  *)
(* what it works with: the page's DOM, the project's source, which the     *)
(* agent's scripts rewrite, the dev server's hot updates, the live         *)
(* server's queue, journal and event stream, and the browser's storage.    *)
(* A session is opened on an element or beside one, its variants arrive,   *)
(* the developer looks through them and keeps one or none.  Pages are      *)
(* reloaded, the event stream drops, answers are late or lost, and some    *)
(* projects have no hot updates at all.                                    *)
(***************************************************************************)
EXTENDS LiveSource

CONSTANTS
  Elements,      \* how many elements the source has
  MaxSessions,   \* bound: sessions the developer opens
  MaxFaults,     \* bound: reloads, dropped streams, failed requests, errors
  MaxBoth,       \* bound: sessions and faults together
  Places,        \* where an insertion goes: before an element, after it
  Projects       \* the kinds of project: JSX or HTML; hot updates or none;
                 \* elements with the same tag and classes or all different

ASSUME OverlayAssumption ==
  /\ N \in Nat \ {0} /\ Elements \in Nat \ {0}
  /\ MaxSessions \in Nat /\ MaxFaults \in Nat /\ MaxBoth \in Nat
  /\ Places \subseteq {"before", "after"}
  /\ Projects \subseteq [jsx : BOOLEAN, hmr : BOOLEAN, alike : BOOLEAN]

Sessions == 1 .. MaxSessions
None == 0

VARIABLES
  project,   \* the kind of this project
  file,      \* the source file
  doc,       \* what it renders to
  hot,       \* a change of the source has not reached the page yet
  queue,     \* the server's pending events, the agent works on the first
  journal,   \* what the server knows of each session
  agent,     \* what the agent is doing
  posts,     \* requests of the page under way
  sse,       \* messages on the way to the page
  link,      \* the event stream is connected
  page,      \* the overlay's variables, its storage, and the page's DOM
  begun,     \* sessions opened so far
  faults,    \* reloads and failures so far
  picked,    \* for each session, the variants shown when it was accepted
  closed,    \* sessions the overlay has reported as over
  late,      \* those of them whose pending accept failed afterwards
  missed     \* a reply went out while the page did not listen

source == <<file, doc, hot>>
server == <<queue, journal, agent>>
wire   == <<posts, sse, link>>
ghosts == <<picked, closed, late, missed>>
vars == <<project, source, server, wire, page, begun, faults, ghosts>>

NoSel  == [c |-> NoMarkup, how |-> "none"]
NoSave == [id |-> None, st |-> "IDLE", arrived |-> FALSE, visible |-> 0,
           src |-> FALSE]
NoPend == [id |-> None, v |-> 0, html |-> FALSE, next |-> NoMarkup,
           finalizing |-> FALSE]
Plain(c) == [s |-> None, markup |-> c, n |-> 0]

\* A block as the browser first shows it: of several variants the first.
Shown(b) == [b |-> b, shown |-> IF b.n > 0 THEN 1 ELSE 0]
Mounted(d) == [i \in DOMAIN d |-> Shown(d[i])]

BlankPage ==
  [st |-> "IDLE", sel |-> NoSel, cur |-> None,
   arrived |-> FALSE, visible |-> 0, src |-> FALSE, pend |-> NoPend,
   saved |-> NoSave, handled |-> None, dom |-> <<>>, scout |-> FALSE,
   fetching |-> {}, swap |-> {}, acc |-> NoPend]

-----------------------------------------------------------------------------
(* The page's DOM and the browser's storage.                               *)

Wrappers(p) == {i \in DOMAIN p.dom : p.dom[i].b.s # None}
WrapperOf(p, s) == SelectInSeq(p.dom, LAMBDA x : s # None /\ x.b.s = s)

showVariantInDOM(p, s, v) ==
  LET i == WrapperOf(p, s)
  IN  IF i = 0 THEN p ELSE [p EXCEPT !.dom[i].shown = v]

readVisibleVariantFromDOM(p) ==
  LET i == WrapperOf(p, p.cur) IN IF i = 0 THEN 0 ELSE p.dom[i].shown

saveSession(p) ==
  IF p.cur = None THEN p
  ELSE [p EXCEPT !.saved = [id |-> p.cur, st |-> p.st, src |-> p.src,
                            arrived |-> p.arrived, visible |-> p.visible]]

savedVisible(p, s) ==
  IF p.saved.id = s /\ p.saved.visible > 0 THEN p.saved.visible ELSE 1

\* Mutant of markSessionHandled: the storage is not told.
markNothing(p) == p

markSessionHandled(p) ==
  IF p.cur = None THEN p ELSE [p EXCEPT !.handled = p.cur]

\* Both ways out of a session forget it; a discard also arms the timer that
\* takes the wrapper out of a page that gets no hot update.
Forgotten(p) == [p EXCEPT !.saved = NoSave, !.src = FALSE, !.cur = None,
                          !.sel = NoSel, !.st = "PICKING"]
\* Mutant of cleanup: without the timer.
cleanupAtOnce(p) == Forgotten(p)

cleanup(p) ==
  [Forgotten(p) EXCEPT !.swap = @ \cup ({p.cur} \ {None})]
cleanupAcceptedSession(p) == [Forgotten(p) EXCEPT !.pend = NoPend]

-----------------------------------------------------------------------------
(* Picking a session up again.                                             *)

\* Sessions the server lists as active, and those it can vouch for.
Active(known) == {s \in Sessions : known[s] \notin {"none", "over"}}
Vouched(known, s) == s \in Active(known) /\ known[s] # "asked"
NothingKnown == [s \in Sessions |-> "none"]

CanRestore(p, known) ==
  /\ p.saved.id # None /\ p.saved.id # p.handled
  /\ p.saved.st \in {"GENERATING", "CYCLING"}
  /\ Active(known) = {} \/ Vouched(known, p.saved.id)

\* The wrapper is not in the page: wait for it, and if the file is known
\* fetch it.
restoreSessionWithoutWrapper(p, known) ==
  LET s == p.saved.id
      ready == Vouched(known, s) /\ known[s] = "ready"
      arrived == p.saved.arrived \/ ready
      r == [p EXCEPT !.cur = s, !.st = "GENERATING", !.sel = NoSel,
                     !.arrived = arrived,
                     !.src = @ \/ p.saved.src \/ ready,
                     !.visible = IF p.saved.visible > 0 THEN p.saved.visible
                                 ELSE IF arrived THEN 1 ELSE 0]
  IN  saveSession([r EXCEPT !.fetching = IF r.src THEN @ \cup {s} ELSE @])

\* The page has a wrapper: its first one is the session, unless that one has
\* been decided already.
resumeFromWrapper(p) ==
  LET b == p.dom[Min(Wrappers(p))].b
      arrived == b.n > 0
      r == [p EXCEPT !.cur = b.s, !.arrived = arrived,
                     !.src = @ \/ (p.saved.id = b.s /\ p.saved.src),
                     !.visible = IF arrived THEN savedVisible(p, b.s) ELSE 0,
                     !.st = IF arrived THEN "CYCLING" ELSE "GENERATING",
                     !.sel = NoSel]
  IN  IF p.handled = b.s THEN p
      ELSE saveSession(showVariantInDOM(r, b.s, r.visible))

resumeSession(p) ==
  IF Wrappers(p) # {} THEN resumeFromWrapper(p)
  ELSE IF CanRestore(p, NothingKnown)
    THEN restoreSessionWithoutWrapper(p, NothingKnown)
    ELSE [p EXCEPT !.saved = NoSave, !.handled = None]

\* A page starts: what it does not resume at once a scout looks for.
init(p, d) ==
  LET r == resumeSession([BlankPage EXCEPT !.saved = p.saved,
                          !.handled = p.handled, !.dom = Mounted(d)])
  IN  [r EXCEPT !.scout = (r.cur = None)]

\* The stream is up, and says which sessions the server has.
connected(p, known) ==
  LET r == IF Wrappers(p) # {} \/ ~CanRestore(p, known) THEN p
           ELSE restoreSessionWithoutWrapper(p, known)
  IN  IF r.st = "IDLE" THEN [r EXCEPT !.st = "PICKING"] ELSE r

-----------------------------------------------------------------------------
(* What a change of the DOM sets off.                                      *)

\* The variants are there: show one, whatever the overlay is doing.
variantObserver(p) ==
  LET i == WrapperOf(p, p.cur)
      v == IF p.visible > 0 THEN p.visible ELSE savedVisible(p, p.cur)
      r == [p EXCEPT !.arrived = TRUE, !.visible = v, !.st = "CYCLING",
                     !.sel = NoSel]
  IN  IF i = 0 \/ p.arrived THEN p
      ELSE IF p.dom[i].b.n = 0 THEN p
      ELSE saveSession(IF p.visible > 0 THEN r
                       ELSE showVariantInDOM(r, p.cur, v))

\* The scout looks once; the observer always.
Mutated(p) ==
  variantObserver(IF p.scout /\ Wrappers(p) # {}
                    THEN resumeSession([p EXCEPT !.scout = FALSE])
                    ELSE p)

\* The page after a hot update: a block that is still there keeps the
\* variant it shows.
HotUpdated(p, d) ==
  LET old(b) == {i \in DOMAIN p.dom : p.dom[i].b = b /\ b.s # None}
      new(b) == IF old(b) = {} THEN Shown(b) ELSE p.dom[Min(old(b))]
  IN  Mutated([p EXCEPT !.dom = [i \in DOMAIN d |-> new(d[i])]])

\* The answer to fetching the source: the wrapper is put in by hand.
injectVariantsFromSource(p, d, s) ==
  LET f == [p EXCEPT !.fetching = @ \ {s}]
      w == SelectInSeq(d, LAMBDA b : b.s = s)
      old == WrapperOf(p, s)
      live == SelectInSeq(p.dom, LAMBDA x :
                            x.b.s = None /\ x.b.markup = d[w].markup)
      at == IF old # 0 THEN old ELSE live
      v == IF p.cur = s /\ p.visible > 0 THEN p.visible
           ELSE savedVisible(p, s)
      put == [f EXCEPT !.dom[at] = Shown(d[w])]
      ready == [put EXCEPT !.arrived = TRUE, !.visible = v,
                           !.st = "CYCLING", !.sel = NoSel]
  IN  IF w = 0 THEN f
      ELSE IF old = 0 /\ d[w].markup = NoMarkup THEN f
      ELSE IF at = 0
        THEN saveSession([f EXCEPT !.st = "GENERATING", !.sel = NoSel])
      ELSE IF d[w].n = 0 THEN Mutated(cleanup(put))
      ELSE Mutated(saveSession(showVariantInDOM(ready, s, v)))

\* Two seconds after a discard the original takes the wrapper's place.
swapOriginal(p, s) ==
  LET i == WrapperOf(p, s)
      r == [p EXCEPT !.swap = @ \ {s}]
      c == p.dom[i].b.markup
  IN  IF i = 0 THEN r
      ELSE Mutated([r EXCEPT !.dom =
             IF c = NoMarkup THEN RemoveAt(@, i)
             ELSE [@ EXCEPT ![i] = Shown(Plain(c))]])

\* Any element outside a wrapper with the accepted one's tag and classes.
acceptedDomAlreadyClean(p, a) ==
  a.html /\ \E i \in DOMAIN p.dom :
    p.dom[i].b.s = None /\ (project.alike \/ p.dom[i].b.markup = <<a.id, a.v>>)

\* 1.2 seconds after the acknowledgement the accepted variant takes the
\* wrapper's place, if the hot update has not put it there.
ensureAcceptedDomClean(p, a) ==
  LET i == WrapperOf(p, a.id)
      kept == Shown(Plain(<<a.id, a.v>>))
      next == SelectInSeq(p.dom, LAMBDA x : a.next # NoMarkup
                                              /\ x.b.markup = a.next)
      at == IF next = 0 THEN Len(p.dom) + 1 ELSE next
  IN  IF i # 0 THEN [p EXCEPT !.dom[i] = kept]
      ELSE IF acceptedDomAlreadyClean(p, a) \/ ~a.html THEN p
      ELSE [p EXCEPT !.dom = InsertAt(@, at, kept)]

reloadAfterMissingAcceptedDom(p, a) == ~a.html /\ WrapperOf(p, a.id) = 0

-----------------------------------------------------------------------------
(* The developer.                                                          *)

Idle == [at |-> "idle", id |-> None, says |-> "none"]
Event(type, id, sel, v) == [type |-> type, id |-> id, c |-> sel.c,
                            how |-> sel.how, v |-> v, got |-> FALSE]

Fault == /\ faults < MaxFaults /\ begun + faults < MaxBoth
         /\ faults' = faults + 1

Overlay(p) ==
  /\ page' = p
  /\ UNCHANGED <<project, source, server, wire, faults>>

\* An element to change, or one to insert beside.
handleClick ==
  /\ page.st = "PICKING" /\ begun < MaxSessions
  /\ begun + faults < MaxBoth
  /\ \E i \in DOMAIN page.dom, how \in {"replace"} \cup Places :
       /\ page.dom[i].b.s = None
       /\ Overlay([page EXCEPT !.st = "CONFIGURING",
                     !.sel = [c |-> page.dom[i].b.markup, how |-> how]])
  /\ UNCHANGED <<begun, ghosts>>

\* A click beside the selection, or Escape.
LeaveConfigure ==
  /\ page.st = "CONFIGURING"
  /\ Overlay([page EXCEPT !.sel = NoSel, !.st = "PICKING"])
  /\ UNCHANGED <<begun, ghosts>>

\* The server runs on the developer's machine: a key press comes after what
\* the last one and a fetch of the source were answered with.
Settled == page.fetching = {} /\ \A p \in posts : p.type = "generate"

\* handleGo and handleInsertCreate; the request follows the capture of the
\* element.
handleGo ==
  LET s == begun + 1
  IN  /\ page.st = "CONFIGURING" /\ page.sel # NoSel /\ Settled
      /\ s \in Sessions /\ s + faults <= MaxBoth
      /\ begun' = s
      /\ page' = saveSession([page EXCEPT !.cur = s, !.arrived = FALSE,
                   !.visible = 0, !.src = FALSE, !.pend = NoPend,
                   !.st = "GENERATING", !.sel = NoSel])
      /\ posts' = posts \cup {Event("generate", s, page.sel, 0)}
      /\ UNCHANGED <<project, source, server, sse, link, faults, ghosts>>

selectVariant ==
  /\ page.st = "CYCLING" /\ page.arrived
  /\ \E v \in 1 .. N \ {page.visible} :
       Overlay(saveSession(IF WrapperOf(page, page.cur) = 0 THEN page
                 ELSE showVariantInDOM([page EXCEPT !.visible = v],
                                       page.cur, v)))
  /\ UNCHANGED <<begun, ghosts>>

\* What the page keeps of the accepted variant, for a wrapper that is gone
\* when the acknowledgement comes.
snapshotAcceptedVariantDom(p, v) ==
  LET i == WrapperOf(p, p.cur)
  IN  [id |-> p.cur, v |-> v, html |-> (i # 0 /\ p.dom[i].b.n >= v),
       next |-> IF i \in {0, Len(p.dom)} THEN NoMarkup
                ELSE p.dom[i + 1].b.markup,
       finalizing |-> FALSE]

\* What the developer sees and presses Enter for.
OnScreen == LET i == WrapperOf(page, page.cur)
            IN  IF i = 0 THEN page.visible ELSE page.dom[i].shown

handleAcceptKey ==
  LET seen == readVisibleVariantFromDOM(page)
      v == IF seen > 0 THEN seen ELSE page.visible
  IN  /\ page.st = "CYCLING" /\ page.arrived /\ page.pend = NoPend
      /\ page.cur # None /\ Settled
      /\ page' = saveSession([page EXCEPT !.visible = v, !.st = "SAVING",
                   !.pend = snapshotAcceptedVariantDom(page, v)])
      /\ posts' = posts \cup {Event("accept", page.cur, NoSel, v)}
      /\ picked' = [picked EXCEPT ![page.cur] = @ \cup {OnScreen}]
      /\ UNCHANGED <<project, source, server, sse, link, begun, faults,
                     closed, late, missed>>

handleDiscardKey ==
  /\ page.st = "CYCLING" /\ page.cur # None /\ Settled
  /\ posts' = posts \cup {Event("discard", page.cur, NoSel, 0)}
  /\ UNCHANGED <<project, source, server, sse, link, page, begun, faults,
                 ghosts>>

Developer == handleClick \/ LeaveConfigure \/ handleGo \/ selectVariant
               \/ handleAcceptKey \/ handleDiscardKey

-----------------------------------------------------------------------------
(* The live server, as far as the page sees it.                            *)

Enqueued(e) ==
  IF \E i \in DOMAIN queue : queue[i].id = e.id /\ queue[i].type = e.type
    THEN queue ELSE Append(queue, e)

Arrives(p) ==
  /\ queue' = Enqueued(p)
  /\ journal' = [journal EXCEPT ![p.id] =
                   IF p.type = "generate" THEN "open" ELSE "asked"]

\* The page does something only with the answer to a discard.
PostArrives ==
  \E p \in posts :
    /\ ~p.got
    /\ Arrives(p)
    /\ posts' = (posts \ {p})
         \cup (IF p.type = "discard" THEN {[p EXCEPT !.got = TRUE]} ELSE {})
    /\ UNCHANGED <<project, source, agent, sse, link, page, begun, faults,
                   ghosts>>

PostAnswered ==
  \E p \in posts :
    /\ p.got
    /\ posts' = posts \ {p}
    /\ page' = cleanup(markSessionHandled(page))
    /\ closed' = closed \cup ({page.cur} \ {None})
    /\ UNCHANGED <<project, source, server, sse, link, begun, faults,
                   picked, late, missed>>

\* A request, or only its answer, is lost: an accept can be tried again.
PostFails ==
  /\ Fault
  /\ \E p \in posts :
       /\ posts' = posts \ {p}
       /\ \/ UNCHANGED <<queue, journal>>
          \/ ~p.got /\ Arrives(p)
       /\ page' = IF p.type # "accept" THEN page
                  ELSE [page EXCEPT !.st = "CYCLING",
                          !.pend = IF @.id = p.id THEN NoPend ELSE @]
       /\ late' = IF p.type = "accept" THEN late \cup ({p.id} \cap closed)
                  ELSE late
  /\ UNCHANGED <<project, source, agent, sse, link, begun, picked, closed,
                 missed>>

\* A reply takes the first event of the session off the queue, is recorded,
\* and goes out to the page that listens.
AgentReplies ==
  LET id == agent.id
      says == agent.says
      i == SelectInSeq(queue, LAMBDA e : e.id = id)
      phase == CASE says \in {"complete", "discarded"} -> "over"
                 [] says = "error"                     -> "failed"
                 [] OTHER                              -> "ready"
  IN  /\ agent.at = "reply"
      /\ queue' = IF i = 0 THEN queue ELSE RemoveAt(queue, i)
      /\ journal' = IF i = 0 /\ journal[id] = "over" THEN journal
                    ELSE [journal EXCEPT ![id] = phase]
      /\ sse' = IF link THEN Append(sse, [type |-> says, id |-> id])
                ELSE sse
      /\ agent' = IF says = "agent_done" /\ hasCarbonize(file, id)
                    THEN [agent EXCEPT !.at = "clean"] ELSE Idle
      /\ missed' = (missed \/ ~link)
      /\ UNCHANGED <<project, source, posts, link, page, begun, faults,
                     picked, closed, late>>

-----------------------------------------------------------------------------
(* The agent and its scripts.                                              *)

Rewrite(f) == /\ file' = f
              /\ doc' = Rendered(f)
              /\ hot' = project.hmr
              /\ UNCHANGED <<project, queue, journal, wire, page, begun,
                             ghosts>>

Replying(id, says) == [at |-> "reply", id |-> id, says |-> says]
Asked(types) == /\ agent = Idle /\ queue # <<>>
                /\ Head(queue).type \in types

AgentWraps ==
  /\ Asked({"generate"})
  /\ LET e == Head(queue)
         found == IndexOf(file, "element", e.c) # 0
     IN  /\ Rewrite(IF ~found THEN file
                    ELSE IF e.how = "replace"
                      THEN wrapCli(file, e.id, e.c, project.jsx)
                    ELSE insertCli(file, e.id, e.c, e.how, project.jsx))
         /\ agent' = IF found THEN [Idle EXCEPT !.at = "fill", !.id = e.id]
                     ELSE Replying(e.id, "error")
  /\ UNCHANGED faults

AgentFillsIn ==
  /\ agent.at = "fill"
  /\ \E css \in BOOLEAN : Rewrite(AgentFills(file, agent.id, css))
  /\ agent' = Replying(agent.id, "done")
  /\ UNCHANGED faults

\* The poll loop runs live-accept.mjs itself; an accept it cannot find the
\* markers of is reported like one that needs cleaning up.
AgentDecides ==
  /\ Asked({"accept", "discard"})
  /\ LET e == Head(queue)
     IN  IF ~HasSession(file, e.id)
           THEN /\ Rewrite(file)
                /\ agent' = Replying(e.id, IF e.type = "discard" THEN "error"
                                           ELSE "agent_done")
         ELSE IF e.type = "discard"
           THEN /\ Rewrite(handleDiscard(file, e.id, project.jsx))
                /\ agent' = Replying(e.id, "discarded")
         ELSE /\ Rewrite(handleAccept(file, e.id, e.v, project.jsx))
              /\ agent' = Replying(e.id, IF hasCss(file, e.id)
                                           THEN "agent_done"
                                           ELSE "complete")
  /\ UNCHANGED faults

AgentCleansUp ==
  /\ agent.at = "clean"
  /\ Rewrite(AgentCleans(file, agent.id, project.jsx))
  /\ agent' = Replying(agent.id, "complete")
  /\ UNCHANGED faults

AgentGivesUp ==
  /\ Asked({"generate"}) /\ Fault
  /\ agent' = Replying(Head(queue).id, "error")
  /\ UNCHANGED <<project, source, queue, journal, wire, page, begun, ghosts>>

-----------------------------------------------------------------------------
(* What reaches the page.                                                  *)

maybeCompleteAcceptedSession(p, id) ==
  IF p.pend.id # id THEN p
  ELSE IF p.cur \notin {None, id} THEN [p EXCEPT !.pend = NoPend]
  ELSE IF p.pend.finalizing THEN p
  ELSE LET a == [p.pend EXCEPT !.finalizing = TRUE]
       IN  markSessionHandled([p EXCEPT !.pend = a, !.acc = a,
                                        !.st = "CONFIRMED"])

\* Mutant of done: wait for the hot update.
doneUnfetched(p, id) ==
  LET r == [p EXCEPT !.src = TRUE]
  IN  IF p.st = "GENERATING" /\ p.arrived THEN [r EXCEPT !.st = "CYCLING"]
      ELSE r

done(p, id) ==
  LET r == [p EXCEPT !.src = TRUE]
  IN  IF p.st # "GENERATING" THEN r
      ELSE IF p.arrived THEN [r EXCEPT !.st = "CYCLING"]
      ELSE IF p.cur = id THEN [r EXCEPT !.fetching = @ \cup {id}]
      ELSE r

error(p, id) ==
  IF p.pend.id = id THEN [p EXCEPT !.pend = NoPend, !.st = "CYCLING"]
  ELSE [p EXCEPT !.st = "PICKING",
                 !.sel = IF @.how = "replace" THEN @ ELSE NoSel]

Received(p, m) ==
  CASE m.type = "done"     -> done(p, m.id)
    [] m.type = "complete" -> maybeCompleteAcceptedSession(p, m.id)
    [] m.type = "error"    -> error(p, m.id)
    [] m.type = "discarded" /\ p.cur = m.id
         -> cleanup(markSessionHandled(p))
    [] OTHER -> p

Message ==
  /\ sse # <<>>
  /\ LET m == Head(sse)
         p == Received(page, m)
     IN  /\ page' = p
         /\ closed' = IF page.cur = m.id
                          /\ (p.st = "CONFIRMED" \/ m.type = "discarded")
                        THEN closed \cup {m.id} ELSE closed
         /\ late' = IF m.type = "error" /\ page.pend.id = m.id
                      THEN late \cup ({m.id} \cap closed) ELSE late
  /\ sse' = Tail(sse)
  /\ UNCHANGED <<project, source, server, posts, link, begun, faults,
                 picked, missed>>

\* The page as it is after p, when only the page changes.
PageBecomes(p) ==
  /\ page' = p
  /\ UNCHANGED <<project, file, doc, server, begun, faults, ghosts>>

HotUpdate ==
  /\ hot /\ hot' = FALSE
  /\ PageBecomes(HotUpdated(page, doc)) /\ UNCHANGED wire

Fetched ==
  /\ \E s \in page.fetching :
       PageBecomes(injectVariantsFromSource(page, doc, s))
  /\ UNCHANGED <<hot, wire>>

SwapTimer ==
  /\ \E s \in page.swap : PageBecomes(swapOriginal(page, s))
  /\ UNCHANGED <<hot, wire>>

\* The page p starts afresh; what the stream was bringing is lost.
Starts(p) ==
  /\ page' = init(p, doc)
  /\ link' = FALSE /\ sse' = <<>> /\ hot' = FALSE
  /\ missed' = (missed \/ sse # <<>>)
  /\ UNCHANGED <<project, file, doc, agent, begun, picked, closed, late>>

AcceptTimer ==
  LET a == page.acc
      p == cleanupAcceptedSession(
             ensureAcceptedDomClean([page EXCEPT !.acc = NoPend], a))
  IN  /\ a # NoPend
      /\ IF reloadAfterMissingAcceptedDom(page, a)
           THEN Starts(p) /\ UNCHANGED <<queue, journal, posts, faults>>
           ELSE PageBecomes(Mutated(p)) /\ UNCHANGED <<hot, wire>>

Connect ==
  /\ ~link /\ link' = TRUE
  /\ PageBecomes(connected(page, journal))
  /\ UNCHANGED <<hot, posts, sse>>

System == PostArrives \/ PostAnswered \/ AgentReplies \/ AgentWraps
            \/ AgentFillsIn \/ AgentDecides \/ AgentCleansUp \/ Message
            \/ HotUpdate \/ Fetched \/ SwapTimer \/ AcceptTimer \/ Connect

-----------------------------------------------------------------------------
(* Faults, and the specification.                                          *)

\* A request under way may still arrive; its answer reaches nobody.
Reload ==
  /\ Fault /\ Starts(page)
  /\ posts' = {}
  /\ \/ UNCHANGED <<queue, journal>>
     \/ \E p \in posts : ~p.got /\ Arrives(p)

LinkDrops ==
  /\ Fault
  /\ link /\ link' = FALSE /\ sse' = <<>>
  /\ missed' = (missed \/ sse # <<>>)
  /\ UNCHANGED <<project, source, server, posts, page, begun, picked,
                 closed, late>>

Faults == PostFails \/ AgentGivesUp \/ Reload \/ LinkDrops

Init ==
  /\ project \in Projects
  /\ file = FlattenSeq([e \in 1 .. Elements |-> Markup(<<0, e>>)])
  /\ doc = Rendered(file) /\ hot = FALSE
  /\ queue = <<>> /\ journal = NothingKnown /\ agent = Idle
  /\ posts = {} /\ sse = <<>> /\ link = FALSE
  /\ page = init(BlankPage, doc)
  /\ begun = 0 /\ faults = 0
  /\ picked = [s \in Sessions |-> {}] /\ closed = {}
  /\ late = {} /\ missed = FALSE

Next == Developer \/ System \/ Faults

Spec == Init /\ [][Next]_vars

-----------------------------------------------------------------------------
(* What holds.                                                             *)

Markups == {<<s, v>> : s \in 0 .. MaxSessions, v \in 0 .. N + Elements}
Blocks == [s : 0 .. MaxSessions, markup : Markups, n : 0 .. N]
Types == {"generate", "accept", "discard"}

TypeOK ==
  /\ project \in Projects
  /\ \A i \in DOMAIN doc : doc[i] \in Blocks
  /\ \A i \in DOMAIN page.dom : /\ page.dom[i].b \in Blocks
                                /\ page.dom[i].shown \in 0 .. N
  /\ page.st \in {"IDLE", "PICKING", "CONFIGURING", "GENERATING", "CYCLING",
                  "SAVING", "CONFIRMED"}
  /\ page.cur \in Sessions \cup {None} /\ page.visible \in 0 .. N
  /\ page.fetching \subseteq Sessions /\ page.swap \subseteq Sessions
  /\ \A i \in DOMAIN queue : queue[i].type \in Types
  /\ journal \in [Sessions -> {"none", "open", "ready", "asked", "failed",
                               "over"}]
  /\ agent.at \in {"idle", "fill", "reply", "clean"}
  /\ picked \in [Sessions -> SUBSET (1 .. N)]
  /\ closed \subseteq Sessions /\ late \subseteq closed

\* What the source keeps of a session is a variant that was on the screen
\* when the developer accepted it: handleAccept (live-browser.js:6759) reads
\* the DOM, hot updates and late fetches repaint it, a failed accept can be
\* repeated, and live-accept.mjs cuts the variant out by its number.
PickedIsKept ==
  /\ TypeOK
  /\ \A i \in DOMAIN doc : doc[i].s = None /\ doc[i].markup[1] # 0
       => doc[i].markup[2] \in picked[doc[i].markup[1]]

Plainly(d) == [i \in DOMAIN d |-> IF d[i].s = None
                                    THEN Plain(d[i].markup) ELSE d[i]]
Document == INSTANCE PageDoc WITH doc <- Plainly(doc)
\* The scripts' work on lines and markers (live-wrap.mjs, live-insert.mjs,
\* live-accept.mjs) opens, fills and closes sessions as PageDoc says and
\* changes nothing else of the document, whatever order the requests of the
\* page come in.  The scaffold of an accepted variant is no part of that.
ImplementsPageDoc == Document!Spec

\* A session the overlay has reported as over is not opened again, although
\* its wrapper may still be in the page and the source after a reload:
\* markSessionHandled and resumeSession (live-browser.js:7131, 7235).  One
\* thing does open it again, after two faults (late): the answer to an accept
\* is lost, the developer goes on with the session, and the first accept has
\* completed it when the second fails, or when the agent reports an error for
\* the discard that came between them; both handlers go back to CYCLING
\* without a look (6804, 5479).
ClosedStaysClosed ==
  page.cur \in closed => page.st = "CONFIRMED" \/ page.cur \in late

AtRest == /\ page.cur = None /\ page.acc = NoPend /\ page.swap = {}
          /\ page.fetching = {} /\ queue = <<>> /\ posts = {} /\ sse = <<>>
          /\ agent = Idle /\ ~hot /\ \A i \in DOMAIN doc : doc[i].s = None
          /\ (project.hmr \/ faults = 0) /\ late = {}
          /\ \A s \in Sessions : Cardinality(picked[s]) <= 1
Content(d) == [i \in DOMAIN d |-> <<d[i].s, d[i].markup>>]
\* When everything has come to rest the page shows what the source says,
\* although the timers of cleanup and scheduleAcceptCleanup (live-browser.js:
\* 7155, 6830) put elements in by hand and race with the hot updates.  A page
\* without hot updates agrees if nothing went wrong on the way.  Not covered:
\* a session accepted twice, for different variants, and one that was opened
\* again after it was closed (late, as above): the page keeps its wrapper.
PageAgrees ==
  AtRest => Content([i \in DOMAIN page.dom |-> page.dom[i].b]) = Content(doc)

Busy == posts # {} \/ queue # <<>> \/ agent # Idle \/ sse # <<>> \/ hot
          \/ page.fetching # {} \/ page.acc # NoPend \/ ~link
Known == /\ page.st = "GENERATING"
              => \/ journal[page.cur] = "open"
                 \/ journal[page.cur] = "ready" /\ HasSession(file, page.cur)
         /\ page.st = "SAVING" => journal[page.cur] # "ready"
Insertion(s) == \E i \in DOMAIN doc : doc[i].s = s /\ doc[i].markup = NoMarkup
\* A page that shows a session as being generated or saved is waiting for
\* something that is still to come: whichever of the reply on the stream, the
\* hot update, the fetch of the source and the reconnect comes first, one of
\* them ends the wait (live-browser.js:5431, 5245, 4883, 7047).  Not covered:
\* a failed generate request and a session decided elsewhere or more than
\* once (Known), an insertion that no hot update shows, and replies lost while
\* the stream was down, which only a hot update makes up for.
NeverStranded ==
  /\ page.st \in {"GENERATING", "SAVING", "CONFIRMED"} /\ Known
  /\ Insertion(page.cur) => project.hmr /\ faults = 0
  /\ missed => project.hmr /\ page.st = "GENERATING"
  => Busy
=============================================================================
