----------------------------- MODULE NodeSyncProofs -----------------------------
(***************************************************************************)
(* Proofs about NodeSync, for every number of clients, inbounds and edits  *)
(* and every set of names, requests and syncers.                           *)
(***************************************************************************)
EXTENDS NodeSync, TLAPS

USE ConstantsAssumption DEF ConstantsAssumption

\* The variables in groups.
NodeT ==
  /\ nodeInbounds \in [Inbounds -> Switch \union {None, Gone}]
  /\ nodeClients \in [Clients -> Row \union {None, Gone}]
  /\ edits \in 0 .. MaxEdits

CacheT ==
  /\ inbounds \in [Inbounds -> Switch \union {None}]
  /\ clients \in [Clients -> Row \union {None}]
  /\ acked \subseteq Clients

SnapT ==
  /\ snapInbounds \in [Syncers -> [Inbounds -> Switch \union {None}]]
  /\ snapClients \in [Syncers -> [Clients -> Row \union {None}]]

RunT ==
  /\ pc \in [Procs -> {"idle", "ask", "ask2", "rows", "call", "cache"}]
  /\ op \in [Requests -> Op \union {None}]
  /\ answer \in [Requests -> Answer \union {None}]

HeldT ==
  /\ heldInbounds \in [Procs -> SUBSET Inbounds]
  /\ heldClients \in [Requests -> SUBSET Clients]

\* Nothing that the master keeps is about a client the node never had.
Known(c) == nodeClients[c] # None

CachedOK == \A c \in Clients : clients[c] # None => Known(c)

SnapOK ==
  \A y \in Syncers, c \in Clients : snapClients[y][c] # None => Known(c)

\* A client whose local id is held is cached.
HeldOK ==
  \A r \in Requests : \A c \in heldClients[r] : clients[c] # None

\* What an answer says of a deleted client is so.
Told(r) ==
  /\ op[r].kind = "delete" => \A c \in op[r].on : nodeClients[c] = Gone
  /\ \A c \in Clients : answer[r].clients[c] # None =>
       /\ Known(c)
       /\ op[r].kind = "bulkDelete" => nodeClients[c] = Gone
       /\ op[r].kind \in {"create", "update", "bulkStatus"} =>
            answer[r].clients[c] \in Row

Flight(r) ==
  /\ pc[r] \in {"call", "cache"} =>
       op[r] \in Requested /\ \A c \in op[r].on : Known(c)
  /\ pc[r] = "cache" => answer[r] \in Answer /\ Told(r)

FlightOK == \A r \in Requests : Flight(r)

AckedOK == \A c \in acked : nodeClients[c] = Gone

\* The inductive invariant.
DInv ==
  /\ NodeT /\ CacheT /\ SnapT /\ RunT /\ HeldT
  /\ CachedOK /\ SnapOK /\ HeldOK /\ FlightOK /\ AckedOK

\* A client is created once and deleted once.
Keeps ==
  \A c \in Clients : /\ nodeClients[c] = Gone => nodeClients'[c] = Gone
                     /\ nodeClients[c] # None => nodeClients'[c] # None

-----------------------------------------------------------------------------
(* The node.                                                               *)

LEMMA EditT == ASSUME NodeT, Edit PROVE edits' \in 0 .. MaxEdits
  BY DEF NodeT, Edit

LEMMA CreateKeeps ==
  ASSUME NodeT, NEW c \in Clients, NEW n \in Names, NEW i \in Inbounds,
         NodeCreate(c, n, i)
  PROVE  NodeT' /\ Keeps /\ nodeClients'[c] \in Row
  <1>1. [name |-> n, inbound |-> i, status |-> "active"] \in Row
    BY DEF Row, Statuses
  <1>2. edits' \in 0 .. MaxEdits
    BY EditT DEF NodeCreate
  <1>3. nodeClients[c] = None
    BY DEF NodeCreate, NextId
  <1>4. QED
    BY <1>1, <1>2, <1>3 DEF NodeCreate, NodeT, Keeps

LEMMA UpdateKeeps ==
  ASSUME NodeT, NEW c \in Clients, NEW row \in Row, NodeUpdate(c, row)
  PROVE  NodeT' /\ Keeps /\ nodeClients'[c] \in Row
  <1>1. edits' \in 0 .. MaxEdits
    BY EditT DEF NodeUpdate
  <1>2. QED
    BY <1>1 DEF NodeUpdate, NodeT, Keeps, LiveClient

LEMMA DeleteKeeps ==
  ASSUME NodeT, NEW C \in SUBSET Clients, NodeDelete(C)
  PROVE  /\ NodeT' /\ Keeps
         /\ \A c \in C : nodeClients'[c] = Gone
  <1>1. edits' \in 0 .. MaxEdits
    BY EditT DEF NodeDelete
  <1>2. QED
    BY <1>1 DEF NodeDelete, NodeT, Keeps

LEMMA SetStatusKeeps ==
  ASSUME NodeT, NEW C \in SUBSET Clients, \A c \in C : LiveClient(c),
         NEW s \in Statuses, NodeSetStatus(C, s)
  PROVE  /\ NodeT' /\ Keeps
         /\ \A c \in C : nodeClients'[c] \in Row
  <1>1. edits' \in 0 .. MaxEdits
    BY EditT DEF NodeSetStatus
  <1>2. \A c \in C : nodeClients[c] \in Row
    BY DEF NodeT, LiveClient
  <1>3. \A c \in C : [nodeClients[c] EXCEPT !.status = s] \in Row
    BY <1>2 DEF Row
  <1>4. \A c \in C : nodeClients'[c] \in Row
    BY <1>3 DEF NodeSetStatus
  <1>5. \A c \in Clients \ C : nodeClients'[c] = nodeClients[c]
    BY DEF NodeSetStatus
  <1>6. nodeClients' \in [Clients -> Row \union {None, Gone}]
    BY <1>3 DEF NodeSetStatus, NodeT
  <1>7. Keeps
    BY <1>2, <1>4, <1>5 DEF Keeps
  <1>8. QED
    BY <1>1, <1>4, <1>6, <1>7 DEF NodeSetStatus, NodeT

LEMMA InboundKeeps ==
  ASSUME NodeT, NEW i \in Inbounds, NEW s \in Switch, NodeSetInbound(i, s)
  PROVE  NodeT' /\ Keeps
  <1>1. edits' \in 0 .. MaxEdits
    BY EditT DEF NodeSetInbound
  <1>2. QED
    BY <1>1 DEF NodeSetInbound, NodeT, Keeps

LEMMA DropKeeps ==
  ASSUME NodeT, NEW i \in Inbounds, NodeDeleteInbound(i)
  PROVE  NodeT' /\ Keeps
  <1>1. edits' \in 0 .. MaxEdits
    BY EditT DEF NodeDeleteInbound
  <1>2. QED
    BY <1>1 DEF NodeDeleteInbound, NodeT, Keeps

LEMMA StillKeeps ==
  ASSUME NodeT, UNCHANGED node
  PROVE  NodeT' /\ Keeps
  BY DEF NodeT, Keeps, node

LEMMA EditKeeps == ASSUME NodeT, NodeEdit PROVE NodeT' /\ Keeps
  <1>1. ASSUME NEW c \in Clients, LiveClient(c), NodeDelete({c})
        PROVE  NodeT' /\ Keeps
    BY <1>1, DeleteKeeps, {c} \in SUBSET Clients
  <1>2. QED
    BY <1>1, CreateKeeps, UpdateKeeps, InboundKeeps, DropKeeps DEF NodeEdit

LEMMA RequestedOp ==
  /\ Requested \subseteq Op
  /\ \A o \in Requested :
       /\ o.kind \in {"update", "delete"} => \E c \in Clients : o.on = {c}
       /\ o.kind \in {"create", "setInbound", "deleteInbound"} =>
            o.inbound \in Inbounds
  BY DEF Requested, Op, Kinds

-----------------------------------------------------------------------------
(* A step of one request.                                                  *)

\* What a request carries stays true while the node changes.
LEMMA FlightStays ==
  ASSUME Keeps, NEW q \in Requests, Flight(q), RunT,
         pc'[q] = pc[q], op'[q] = op[q], answer'[q] = answer[q]
  PROVE  Flight(q)'
  <1>1. ASSUME op[q] \in Requested, NEW c \in op[q].on PROVE c \in Clients
    BY <1>1, RequestedOp DEF Op
  <1>2. ASSUME pc[q] \in {"call", "cache"} PROVE
          op'[q] \in Requested /\ \A c \in op'[q].on : Known(c)'
    BY <1>1, <1>2 DEF Flight, Known, Keeps
  <1>3. ASSUME pc[q] = "cache" PROVE answer'[q] \in Answer /\ Told(q)'
    <2>1. op[q] \in Requested /\ Told(q) /\ answer[q] \in Answer
      BY <1>3 DEF Flight
    <2>2. op[q].kind = "delete" => \A c \in op[q].on : nodeClients'[c] = Gone
      BY <2>1, <1>1 DEF Told, Keeps
    <2>3. ASSUME NEW c \in Clients, answer[q].clients[c] # None
          PROVE  /\ nodeClients'[c] # None
                 /\ op[q].kind = "bulkDelete" => nodeClients'[c] = Gone
                 /\ op[q].kind \in {"create", "update", "bulkStatus"} =>
                      answer[q].clients[c] \in Row
      BY <2>1, <2>3 DEF Told, Keeps, Known
    <2>4. QED
      BY <2>1, <2>2, <2>3 DEF Told, Known
  <1>4. QED
    BY <1>2, <1>3 DEF Flight

LEMMA RequestStep ==
  ASSUME DInv, NodeT', Keeps, NEW r \in Requests, UNCHANGED snap,
         CacheT', RunT', HeldT', CachedOK', HeldOK', AckedOK', Flight(r)',
         \A q \in Requests \ {r} :
           pc'[q] = pc[q] /\ op'[q] = op[q] /\ answer'[q] = answer[q]
  PROVE  DInv'
  <1>1. SnapT' /\ SnapOK'
    BY DEF DInv, SnapT, SnapOK, snap, Keeps, Known
  <1>2. FlightOK'
    <2>1. ASSUME NEW q \in Requests, q # r PROVE Flight(q)'
      BY <2>1, FlightStays DEF DInv, FlightOK
    <2>2. QED
      BY <2>1 DEF FlightOK
  <1>3. QED
    BY <1>1, <1>2 DEF DInv

\* The master changes nothing but what it keeps of a request.
LEMMA CacheStays ==
  ASSUME DInv, Keeps, UNCHANGED <<inbounds, clients, acked>>
  PROVE  CacheT' /\ CachedOK' /\ AckedOK'
  <1>1. CacheT'
    BY DEF DInv, CacheT
  <1>2. CachedOK'
    BY DEF DInv, CacheT, CachedOK, Keeps, Known
  <1>3. AckedOK'
    BY DEF DInv, CacheT, AckedOK, Keeps
  <1>4. QED
    BY <1>1, <1>2, <1>3

LEMMA EndRun ==
  ASSUME DInv, NEW r \in Requests, NEW C, NEW I, EndRequest(r, C, I)
  PROVE  /\ RunT' /\ HeldT' /\ Flight(r)'
         /\ \A q \in Requests \ {r} :
              pc'[q] = pc[q] /\ op'[q] = op[q] /\ answer'[q] = answer[q]
         /\ \A q \in Requests :
              heldClients'[q] \subseteq heldClients[q]
         /\ \A q \in Requests : \A c \in heldClients'[q] : c \notin C
  <1>1. r \in Procs /\ Requests \subseteq Procs
    BY DEF Procs
  <1>2. RunT' /\ pc'[r] = "idle"
    BY <1>1 DEF DInv, RunT, EndRequest, Goto
  <1>3. HeldT'
    BY <1>1 DEF DInv, HeldT, EndRequest
  <1>4. Flight(r)'
    BY <1>2 DEF Flight
  <1>5. \A q \in Requests \ {r} :
          pc'[q] = pc[q] /\ op'[q] = op[q] /\ answer'[q] = answer[q]
    BY <1>1 DEF DInv, RunT, EndRequest, Goto
  <1>6. \A q \in Requests : /\ heldClients'[q] \subseteq heldClients[q]
                            /\ \A c \in heldClients'[q] : c \notin C
    BY DEF EndRequest
  <1>7. QED
    BY <1>2, <1>3, <1>4, <1>5, <1>6

\* A request ends; what it has left in the cache is sound.
LEMMA EndStep ==
  ASSUME DInv, NEW r \in Requests, NEW C, NEW I, EndRequest(r, C, I),
         UNCHANGED <<node, snap>>, CacheT', CachedOK', AckedOK',
         \A c \in Clients \ C : clients[c] # None => clients'[c] # None
  PROVE  DInv'
  <1>1. NodeT' /\ Keeps
    BY StillKeeps DEF DInv
  <1>2. HeldOK'
    <2>1. ASSUME NEW q \in Requests, NEW c \in heldClients'[q]
          PROVE  clients'[c] # None
      <3>1. c \in heldClients[q] /\ c \notin C
        BY EndRun
      <3>2. c \in Clients /\ clients[c] # None
        BY <3>1 DEF DInv, HeldT, HeldOK
      <3>3. QED
        BY <3>1, <3>2
    <2>2. QED
      BY <2>1 DEF HeldOK
  <1>3. QED
    BY <1>1, <1>2, EndRun, RequestStep

LEMMA EndsSilently ==
  ASSUME DInv, NEW r \in Requests, EndRequest(r, {}, {}),
         UNCHANGED <<node, inbounds, clients, snap, acked>>
  PROVE  DInv'
  <1>1. NodeT' /\ Keeps
    BY StillKeeps DEF DInv
  <1>2. CacheT' /\ CachedOK' /\ AckedOK'
    BY <1>1, CacheStays
  <1>3. QED
    BY <1>2, EndStep
-----------------------------------------------------------------------------
(* Sync.                                                                   *)

\* A step of one syncer, which asks the node and writes the cache.
LEMMA SyncStep ==
  ASSUME DInv, NEW y \in Syncers, UNCHANGED <<node, op, answer, acked>>,
         CacheT', SnapT', HeldT', CachedOK', SnapOK',
         pc' \in [Procs -> {"idle", "ask", "ask2", "rows", "call", "cache"}],
         \A q \in Procs \ {y} : pc'[q] = pc[q],
         UNCHANGED heldClients,
         \A c \in Clients : clients[c] # None => clients'[c] # None
  PROVE  DInv'
  <1>1. NodeT' /\ Keeps
    BY StillKeeps DEF DInv
  <1>2. RunT'
    BY DEF DInv, RunT
  <1>3. HeldOK'
    <2>1. ASSUME NEW q \in Requests, NEW c \in heldClients[q]
          PROVE  clients'[c] # None
      BY DEF DInv, HeldT, HeldOK
    <2>2. QED
      BY <2>1 DEF HeldOK
  <1>4. AckedOK'
    BY <1>1 DEF DInv, CacheT, AckedOK, Keeps
  <1>5. FlightOK'
    <2>1. ASSUME NEW q \in Requests PROVE Flight(q)'
      <3>1. q \in Procs \ {y}
        BY DEF Procs
      <3>2. pc'[q] = pc[q] /\ op'[q] = op[q] /\ answer'[q] = answer[q]
        BY <3>1
      <3>3. RunT /\ Flight(q)
        BY DEF DInv, FlightOK
      <3>4. QED
        BY <1>1, <3>2, <3>3, FlightStays
    <2>2. QED
      BY <2>1 DEF FlightOK
  <1>6. QED
    BY <1>1, <1>2, <1>3, <1>4, <1>5 DEF DInv

LEMMA WentTo ==
  ASSUME RunT, NEW y \in Syncers,
         NEW l \in {"idle", "ask", "ask2", "rows", "call", "cache"}, Goto(y, l)
  PROVE  /\ pc' \in [Procs -> {"idle", "ask", "ask2", "rows", "call", "cache"}]
         /\ \A q \in Procs \ {y} : pc'[q] = pc[q]
  BY DEF RunT, Goto, Procs

LEMMA CacheSame ==
  ASSUME DInv, UNCHANGED <<node, inbounds, clients, acked>>
  PROVE  CacheT' /\ CachedOK'
  <1>1. Keeps
    BY StillKeeps DEF DInv
  <1>2. QED
    BY <1>1, CacheStays

LEMMA SnapSame ==
  ASSUME DInv, UNCHANGED <<node, snap>>
  PROVE  SnapT' /\ SnapOK'
  BY DEF DInv, SnapT, SnapOK, Known, node, snap

LEMMA TickKeeps ==
  ASSUME DInv, NEW y \in Syncers, Tick(y)
  PROVE  DInv'
  <1>1. /\ pc' \in [Procs -> {"idle", "ask", "ask2", "rows", "call", "cache"}]
        /\ \A q \in Procs \ {y} : pc'[q] = pc[q]
    BY WentTo DEF DInv, Tick
  <1>2. UNCHANGED <<node, inbounds, clients, heldInbounds, heldClients, snap,
                    op, answer, acked>>
    BY DEF Tick, cache
  <1>3. HeldT'
    BY <1>2 DEF DInv, HeldT
  <1>4. QED
    BY <1>1, <1>2, <1>3, CacheSame, SnapSame, SyncStep

LEMMA AskInboundsKeeps ==
  ASSUME DInv, NEW y \in Syncers, AskInbounds(y)
  PROVE  DInv'
  <1>1. /\ pc' \in [Procs -> {"idle", "ask", "ask2", "rows", "call", "cache"}]
        /\ \A q \in Procs \ {y} : pc'[q] = pc[q]
    BY WentTo DEF DInv, AskInbounds
  <1>2. UNCHANGED <<node, inbounds, clients, heldInbounds, heldClients,
                    snapClients, op, answer, acked>>
    BY DEF AskInbounds, cache
  <1>3. HeldT'
    BY <1>2 DEF DInv, HeldT
  <1>4. [i \in Inbounds |-> IF LiveInbound(i) THEN nodeInbounds[i] ELSE None]
          \in [Inbounds -> Switch \union {None}]
    BY DEF LiveInbound
  <1>5. SnapT'
    BY <1>2, <1>4 DEF AskInbounds, DInv, SnapT
  <1>6. SnapOK'
    BY <1>2 DEF DInv, SnapOK, Known, node
  <1>7. QED
    BY <1>1, <1>2, <1>3, <1>5, <1>6, CacheSame, SyncStep

LEMMA AskClientsKeeps ==
  ASSUME DInv, NEW y \in Syncers, AskClients(y)
  PROVE  DInv'
  <1>1. /\ pc' \in [Procs -> {"idle", "ask", "ask2", "rows", "call", "cache"}]
        /\ \A q \in Procs \ {y} : pc'[q] = pc[q]
    BY WentTo DEF DInv, AskClients
  <1>2. UNCHANGED <<node, inbounds, clients, heldInbounds, heldClients,
                    snapInbounds, op, answer, acked>>
    BY DEF AskClients, cache
  <1>3. HeldT'
    BY <1>2 DEF DInv, HeldT
  <1> DEFINE S == [c \in Clients |->
          IF LiveClient(c) /\ snapInbounds[y][nodeClients[c].inbound] # None
            THEN nodeClients[c] ELSE None]
  <1>4. /\ S \in [Clients -> Row \union {None}]
        /\ \A c \in Clients : S[c] # None => nodeClients[c] # None
    <2>1. \A c \in Clients : LiveClient(c) => nodeClients[c] \in Row
      BY DEF LiveClient, DInv, NodeT
    <2>2. QED
      BY <2>1 DEF LiveClient
  <1>5. snapClients' = [snapClients EXCEPT ![y] = S]
    BY DEF AskClients
  <1> HIDE DEF S
  <1>6. SnapT'
    BY <1>2, <1>4, <1>5 DEF DInv, SnapT
  <1>7. SnapOK'
    <2>1. ASSUME NEW z \in Syncers, NEW c \in Clients, snapClients'[z][c] # None
          PROVE  nodeClients[c] # None
      <3>1. snapClients'[z] = IF z = y THEN S ELSE snapClients[z]
        BY <1>5 DEF DInv, SnapT
      <3>2. QED
        BY <1>4, <2>1, <3>1 DEF DInv, SnapOK, Known
    <2>2. QED
      BY <1>2, <2>1 DEF SnapOK, Known, node
  <1>8. QED
    BY <1>1, <1>2, <1>3, <1>6, <1>7, CacheSame, SyncStep

LEMMA EndSyncKeeps ==
  ASSUME DInv, NEW y \in Syncers, EndSync(y),
         UNCHANGED <<node, inbounds, clients, heldClients, op, answer, acked>>
  PROVE  DInv'
  <1>1. /\ pc' \in [Procs -> {"idle", "ask", "ask2", "rows", "call", "cache"}]
        /\ \A q \in Procs \ {y} : pc'[q] = pc[q]
    BY WentTo DEF DInv, EndSync
  <1>2. HeldT'
    BY DEF DInv, HeldT, EndSync, Procs
  <1>3. SnapT'
    BY DEF DInv, SnapT, EndSync, NoInbounds, NoClients
  <1>4. SnapOK'
    BY DEF DInv, SnapT, SnapOK, EndSync, NoClients, Known, node
  <1>5. QED
    BY <1>1, <1>2, <1>3, <1>4, CacheSame, SyncStep

LEMMA UpsertInboundKeeps ==
  ASSUME DInv, NEW y \in Syncers, NEW i \in Inbounds, UpsertInbound(y, i)
  PROVE  DInv'
  <1>1. UNCHANGED <<node, clients, heldClients, snapClients, pc, op, answer,
                    acked>>
    BY DEF UpsertInbound
  <1>2. snapInbounds[y][i] \in Switch \union {None}
    BY DEF DInv, SnapT
  <1>3. CacheT'
    BY <1>1, <1>2 DEF UpsertInbound, Upserted, DInv, CacheT
  <1>4. CachedOK'
    BY <1>1 DEF DInv, CachedOK, Known, node
  <1>5. SnapT'
    BY <1>1 DEF UpsertInbound, DInv, SnapT
  <1>6. SnapOK'
    BY <1>1 DEF DInv, SnapOK, Known, node
  <1>7. HeldT'
    BY <1>1 DEF UpsertInbound, DInv, HeldT
  <1>8. pc' \in [Procs -> {"idle", "ask", "ask2", "rows", "call", "cache"}]
    BY <1>1 DEF DInv, RunT
  <1>9. QED
    BY <1>1, <1>3, <1>4, <1>5, <1>6, <1>7, <1>8, SyncStep

LEMMA UpsertClientKeeps ==
  ASSUME DInv, NEW y \in Syncers, NEW c \in Clients, UpsertClient(y, c)
  PROVE  DInv'
  <1>1. UNCHANGED <<node, inbounds, heldInbounds, heldClients, snapInbounds,
                    pc, op, answer, acked>>
    BY DEF UpsertClient
  <1> DEFINE row == snapClients[y][c]
  <1>2. /\ row \in Row /\ row # None
        /\ nodeClients[c] # None
    BY DEF UpsertClient, NextOf, DInv, SnapT, SnapOK, Known
  <1>3. /\ clients' = [clients EXCEPT ![c] = row]
        /\ snapClients' = [snapClients EXCEPT ![y][c] = None]
    BY DEF UpsertClient, Upserted
  <1> HIDE DEF row
  <1>4. CacheT'
    BY <1>1, <1>2, <1>3 DEF DInv, CacheT
  <1>5. CachedOK'
    BY <1>1, <1>2, <1>3 DEF DInv, CacheT, CachedOK, Known, node
  <1>6. SnapT'
    BY <1>1, <1>3 DEF DInv, SnapT
  <1>7. SnapOK'
    BY <1>1, <1>3 DEF DInv, SnapT, SnapOK, Known, node
  <1>8. HeldT'
    BY <1>1 DEF DInv, HeldT
  <1>9. \A d \in Clients : clients[d] # None => clients'[d] # None
    BY <1>2, <1>3 DEF DInv, CacheT
  <1>10. pc' \in [Procs -> {"idle", "ask", "ask2", "rows", "call", "cache"}]
    BY <1>1 DEF DInv, RunT
  <1>11. QED
    BY <1>1, <1>4, <1>5, <1>6, <1>7, <1>8, <1>9, <1>10, SyncStep

-----------------------------------------------------------------------------
(* Requests.                                                               *)

LEMMA StartKeeps ==
  ASSUME DInv, NEW r \in Requests, NEW o \in Requested, Start(r, o)
  PROVE  DInv'
  <1>1. o \in Op
    BY RequestedOp
  <1>2. UNCHANGED <<node, inbounds, clients, snap, answer, acked>>
    BY DEF Start
  <1>3. NodeT' /\ Keeps
    BY <1>2, StillKeeps DEF DInv
  <1>4. CacheT' /\ CachedOK' /\ AckedOK'
    BY <1>2, <1>3, CacheStays
  <1>5. r \in Procs
    BY DEF Procs
  <1>6. RunT'
    BY <1>1, <1>2, <1>5 DEF Start, Goto, DInv, RunT
  <1>7. HeldT'
    BY <1>1, <1>5 DEF Start, DInv, HeldT, Op
  <1>8. \A c \in o.on : c \in Clients /\ clients[c] # None
    BY <1>1 DEF Start, Op
  <1>9. HeldOK'
    <2>1. ASSUME NEW q \in Requests, NEW c \in heldClients'[q]
          PROVE  clients[c] # None
      <3>1. heldClients'[q] = IF q = r THEN o.on ELSE heldClients[q]
        BY DEF Start, DInv, HeldT
      <3>2. QED
        BY <1>8, <3>1, <2>1 DEF DInv, HeldOK
    <2>2. QED
      BY <1>2, <2>1 DEF HeldOK
  <1>10. Flight(r)'
    <2>1. pc'[r] = "call" /\ op'[r] = o
      BY <1>5 DEF Start, Goto, DInv, RunT
    <2>2. \A c \in o.on : Known(c)'
      BY <1>2, <1>8 DEF DInv, CachedOK, Known, node
    <2>3. QED
      BY <1>1, <2>1, <2>2 DEF Flight
  <1>11. \A q \in Requests \ {r} :
           pc'[q] = pc[q] /\ op'[q] = op[q] /\ answer'[q] = answer[q]
    BY <1>2 DEF Start, Goto, DInv, RunT, Procs
  <1>12. QED
    BY <1>2, <1>3, <1>4, <1>6, <1>7, <1>9, <1>10, <1>11, RequestStep

\* The node has acted: what the answer says must be so.
LEMMA CallStep ==
  ASSUME DInv, NodeT', Keeps, NEW r \in Requests, pc[r] = "call",
         NEW C \in [Clients -> Row \union {None, Gone}],
         NEW I \in [Inbounds -> Switch \union {None}], Answered(r, C, I),
         op[r].kind = "delete" => \A c \in op[r].on : nodeClients'[c] = Gone,
         \A c \in Clients : C[c] # None =>
           /\ nodeClients'[c] # None
           /\ op[r].kind = "bulkDelete" => nodeClients'[c] = Gone
           /\ op[r].kind \in {"create", "update", "bulkStatus"} => C[c] \in Row
  PROVE  DInv'
  <1>1. UNCHANGED <<inbounds, clients, heldInbounds, heldClients, snap, op,
                    acked>>
    BY DEF Answered, cache
  <1>2. CacheT' /\ CachedOK' /\ AckedOK'
    BY <1>1, CacheStays
  <1>3. r \in Procs
    BY DEF Procs
  <1> DEFINE a == [clients |-> C, inbounds |-> I]
  <1>4. a \in Answer /\ a.clients = C
    BY DEF Answer
  <1>5. /\ answer' = [answer EXCEPT ![r] = a]
        /\ pc' = [pc EXCEPT ![r] = "cache"]
    BY DEF Answered, Goto
  <1> HIDE DEF a
  <1>6. RunT'
    BY <1>1, <1>3, <1>4, <1>5 DEF DInv, RunT
  <1>7. HeldT' /\ HeldOK'
    BY <1>1 DEF DInv, HeldT, HeldOK
  <1>8. answer'[r] = a /\ pc'[r] = "cache" /\ op'[r] = op[r]
    BY <1>1, <1>3, <1>5 DEF DInv, RunT
  <1>9. op[r] \in Requested /\ \A c \in op[r].on : c \in Clients /\ Known(c)
    BY RequestedOp DEF DInv, FlightOK, Flight, Op
  <1>10. Told(r)'
    BY <1>4, <1>8 DEF Told, Known
  <1>11. \A c \in op[r].on : Known(c)'
    BY <1>9 DEF Keeps, Known
  <1>12. Flight(r)'
    BY <1>4, <1>8, <1>9, <1>10, <1>11 DEF Flight
  <1>13. \A q \in Requests \ {r} :
           pc'[q] = pc[q] /\ op'[q] = op[q] /\ answer'[q] = answer[q]
    BY <1>1, <1>5 DEF DInv, RunT, Procs
  <1>14. QED
    BY <1>1, <1>2, <1>6, <1>7, <1>12, <1>13, RequestStep

LEMMA Nothing == NoInbounds \in [Inbounds -> Switch \union {None}]
  BY DEF NoInbounds

LEMMA NothingOf ==
  /\ NoClients \in [Clients -> Row \union {None, Gone}]
  /\ \A c \in Clients : NoClients[c] = None
  BY DEF NoClients

LEMMA RowsOf ==
  ASSUME NEW T \in [Clients -> Row \union {None, Gone}],
         NEW C \in SUBSET Clients
  PROVE  /\ Rows(C, T) \in [Clients -> Row \union {None, Gone}]
         /\ \A c \in Clients : Rows(C, T)[c] # None =>
              c \in C /\ Rows(C, T)[c] = T[c]
  BY DEF Rows

\* The request that calls is about clients that the node has had.
LEMMA Caller ==
  ASSUME DInv, NEW r \in Requests, pc[r] \in {"call", "cache"}
  PROVE  /\ NodeT
         /\ op[r] \in Requested /\ op[r].on \in SUBSET Clients
         /\ \A c \in op[r].on : nodeClients[c] # None
  BY RequestedOp DEF DInv, FlightOK, Flight, Op, Known

LEMMA CallCreateKeeps ==
  ASSUME DInv, NEW r \in Requests, CallCreate(r)
  PROVE  DInv'
  <1>1. PICK c \in Clients, n \in Names :
          /\ NodeCreate(c, n, op[r].inbound)
          /\ Answered(r, Rows({c}, nodeClients'), NoInbounds)
    BY DEF CallCreate
  <1>2. pc[r] = "call" /\ op[r].kind = "create"
    BY DEF CallCreate, Calling
  <1>3. op[r].inbound \in Inbounds /\ NodeT
    BY <1>2, Caller, RequestedOp
  <1>4. NodeT' /\ Keeps /\ nodeClients'[c] \in Row
    BY <1>1, <1>3, CreateKeeps
  <1>5. /\ {c} \in SUBSET Clients
        /\ nodeClients' \in [Clients -> Row \union {None, Gone}]
    BY <1>4 DEF NodeT
  <1> DEFINE A == Rows({c}, nodeClients')
  <1>6. /\ A \in [Clients -> Row \union {None, Gone}]
        /\ \A d \in Clients : A[d] # None => d = c /\ A[d] = nodeClients'[d]
    BY <1>5, RowsOf
  <1>7. Answered(r, A, NoInbounds)
    BY <1>1
  <1> HIDE DEF A
  <1>8. \A d \in Clients : A[d] # None =>
          nodeClients'[d] # None /\ A[d] \in Row
    BY <1>4, <1>6
  <1>9. QED
    BY <1>2, <1>4, <1>6, <1>7, <1>8, Nothing, CallStep

LEMMA CallUpdateKeeps ==
  ASSUME DInv, NEW r \in Requests, CallUpdate(r)
  PROVE  DInv'
  <1>1. PICK c \in op[r].on, row \in Row :
          /\ NodeUpdate(c, row)
          /\ Answered(r, Rows({c}, nodeClients'), NoInbounds)
    BY DEF CallUpdate
  <1>2. pc[r] = "call" /\ op[r].kind = "update"
    BY DEF CallUpdate, Calling
  <1>3. c \in Clients /\ NodeT
    BY <1>2, Caller
  <1>4. NodeT' /\ Keeps /\ nodeClients'[c] \in Row
    BY <1>1, <1>3, UpdateKeeps
  <1>5. /\ {c} \in SUBSET Clients
        /\ nodeClients' \in [Clients -> Row \union {None, Gone}]
    BY <1>3, <1>4 DEF NodeT
  <1> DEFINE A == Rows({c}, nodeClients')
  <1>6. /\ A \in [Clients -> Row \union {None, Gone}]
        /\ \A d \in Clients : A[d] # None => d = c /\ A[d] = nodeClients'[d]
    BY <1>5, RowsOf
  <1>7. Answered(r, A, NoInbounds)
    BY <1>1
  <1> HIDE DEF A
  <1>8. \A d \in Clients : A[d] # None =>
          nodeClients'[d] # None /\ A[d] \in Row
    BY <1>4, <1>6
  <1>9. QED
    BY <1>2, <1>4, <1>6, <1>7, <1>8, Nothing, CallStep

\* Deleting a client that the node does not know finds it deleted: only a
\* client that the node has had can be asked for.
LEMMA CallDeleteKeeps ==
  ASSUME DInv, NEW r \in Requests, CallDelete(r)
  PROVE  DInv'
  <1> DEFINE A == Rows(op[r].on, [c \in Clients |-> Gone])
  <1>1. pc[r] = "call" /\ op[r].kind = "delete" /\ Answered(r, A, NoInbounds)
    BY DEF CallDelete, Calling
  <1>2. PICK c \in Clients : op[r].on = {c}
    BY <1>1, Caller, RequestedOp
  <1>3. nodeClients[c] # None /\ NodeT
    BY <1>1, <1>2, Caller
  <1>4. NodeT' /\ Keeps /\ nodeClients'[c] = Gone
    <2>1. CASE LiveClient(c)
      <3>1. NodeDelete({c}) /\ {c} \in SUBSET Clients
        BY <1>2, <2>1 DEF CallDelete
      <3>2. QED
        BY <1>3, <3>1, DeleteKeeps
    <2>2. CASE ~ LiveClient(c)
      <3>1. UNCHANGED node /\ nodeClients[c] = Gone
        BY <1>2, <1>3, <2>2 DEF CallDelete, LiveClient
      <3>2. QED
        BY <1>3, <3>1, StillKeeps DEF node
    <2>3. QED
      BY <2>1, <2>2
  <1>5. /\ A \in [Clients -> Row \union {None, Gone}]
        /\ \A d \in Clients : A[d] # None => d = c
    BY <1>2 DEF Rows
  <1> HIDE DEF A
  <1>6. \A d \in Clients : A[d] # None => nodeClients'[d] # None
    BY <1>4, <1>5
  <1>7. QED
    BY <1>1, <1>2, <1>4, <1>5, <1>6, Nothing, CallStep

LEMMA CallBulkKeeps ==
  ASSUME DInv, NEW r \in Requests, CallBulk(r)
  PROVE  DInv'
  <1> DEFINE found == {c \in op[r].on : LiveClient(c)}
             A == Rows(found, nodeClients')
  <1>1. /\ pc[r] = "call" /\ op[r].kind \in {"bulkDelete", "bulkStatus"}
        /\ Answered(r, A, NoInbounds)
        /\ op[r].kind = "bulkDelete" => NodeDelete(found)
        /\ op[r].kind # "bulkDelete" =>
             \E s \in Statuses : NodeSetStatus(found, s)
    BY DEF CallBulk, Calling
  <1>2. /\ found \in SUBSET Clients /\ NodeT
        /\ \A c \in found : LiveClient(c) /\ nodeClients[c] # None
    BY <1>1, Caller
  <1> HIDE DEF found
  <1>3. /\ NodeT' /\ Keeps
        /\ op[r].kind = "bulkDelete" =>
             \A c \in found : nodeClients'[c] = Gone
        /\ op[r].kind = "bulkStatus" =>
             \A c \in found : nodeClients'[c] \in Row
    <2>1. CASE op[r].kind = "bulkDelete"
      BY <1>1, <1>2, <2>1, DeleteKeeps
    <2>2. CASE op[r].kind = "bulkStatus"
      <3>1. PICK s \in Statuses : NodeSetStatus(found, s)
        BY <1>1, <2>2
      <3>2. QED
        BY <1>2, <2>2, <3>1, SetStatusKeeps
    <2>3. QED
      BY <1>1, <2>1, <2>2
  <1>4. nodeClients' \in [Clients -> Row \union {None, Gone}]
    BY <1>3 DEF NodeT
  <1>5. /\ A \in [Clients -> Row \union {None, Gone}]
        /\ \A d \in Clients : A[d] # None =>
             d \in found /\ A[d] = nodeClients'[d]
    BY <1>2, <1>4, RowsOf
  <1> HIDE DEF A
  <1>6. \A d \in Clients : A[d] # None =>
          /\ nodeClients'[d] # None
          /\ op[r].kind = "bulkDelete" => nodeClients'[d] = Gone
          /\ op[r].kind = "bulkStatus" => A[d] \in Row
    BY <1>2, <1>3, <1>5 DEF Keeps
  <1>7. QED
    BY <1>1, <1>3, <1>5, <1>6, Nothing, CallStep

LEMMA CallInboundKeeps ==
  ASSUME DInv, NEW r \in Requests, CallInbound(r)
  PROVE  DInv'
  <1>1. PICK i \in Inbounds, s \in Switch :
          /\ NodeSetInbound(i, s)
          /\ Answered(r, NoClients, [NoInbounds EXCEPT ![i] = s])
    BY DEF CallInbound
  <1>2. pc[r] = "call" /\ op[r].kind \in {"addInbound", "setInbound"}
    BY DEF CallInbound, Calling
  <1>3. NodeT' /\ Keeps
    BY <1>1, InboundKeeps DEF DInv
  <1>4. [NoInbounds EXCEPT ![i] = s] \in [Inbounds -> Switch \union {None}]
    BY Nothing
  <1>5. QED
    BY <1>1, <1>2, <1>3, <1>4, NothingOf, CallStep

LEMMA CallDeleteInboundKeeps ==
  ASSUME DInv, NEW r \in Requests, CallDeleteInbound(r)
  PROVE  DInv'
  <1>1. /\ pc[r] = "call" /\ op[r].kind = "deleteInbound"
        /\ Answered(r, NoClients, NoInbounds)
    BY DEF CallDeleteInbound, Calling
  <1>2. op[r].inbound \in Inbounds /\ NodeT
    BY <1>1, Caller, RequestedOp
  <1>3. NodeT' /\ Keeps
    BY <1>2, DropKeeps, StillKeeps DEF CallDeleteInbound
  <1>4. QED
    BY <1>1, <1>3, Nothing, NothingOf, CallStep

LEMMA CacheClientKeeps ==
  ASSUME DInv, NEW r \in Requests, CacheClient(r)
  PROVE  DInv'
  <1>1. PICK c \in Returned(r) :
          clients' = Upserted(clients, c, answer[r].clients[c])
    BY DEF CacheClient
  <1>2. /\ pc[r] = "cache" /\ op[r].kind \in {"create", "update"}
        /\ EndRequest(r, {}, {}) /\ UNCHANGED <<node, inbounds, snap, acked>>
    BY DEF CacheClient, Caching
  <1> DEFINE row == answer[r].clients[c]
  <1>3. c \in Clients /\ row # None /\ row \in Row /\ nodeClients[c] # None
    BY <1>1, <1>2 DEF Returned, DInv, FlightOK, Flight, Told, Known
  <1>4. clients' = [clients EXCEPT ![c] = row]
    BY <1>1 DEF Upserted
  <1> HIDE DEF row
  <1>5. CacheT'
    BY <1>2, <1>3, <1>4 DEF DInv, CacheT
  <1>6. CachedOK'
    BY <1>2, <1>3, <1>4 DEF DInv, CacheT, CachedOK, Known, node
  <1>7. AckedOK'
    BY <1>2 DEF DInv, AckedOK, node
  <1>8. \A d \in Clients \ {} : clients[d] # None => clients'[d] # None
    BY <1>3, <1>4 DEF DInv, CacheT
  <1>9. QED
    BY <1>2, <1>5, <1>6, <1>7, <1>8, EndStep

\* Dropping rows from the cache is sound whatever the node has done.
LEMMA Dropped ==
  ASSUME DInv, NEW C, clients' = Without(C), UNCHANGED node
  PROVE  /\ clients' \in [Clients -> Row \union {None}]
         /\ CachedOK'
         /\ \A c \in Clients \ C : clients[c] # None => clients'[c] # None
  BY DEF DInv, CacheT, CachedOK, Without, Known, node

LEMMA CacheDeleteKeeps ==
  ASSUME DInv, NEW r \in Requests, CacheDelete(r)
  PROVE  DInv'
  <1> DEFINE C == heldClients[r]
  <1>1. /\ pc[r] = "cache" /\ op[r].kind = "delete"
        /\ clients' = Without(C)
        /\ acked' = acked \union op[r].on
        /\ EndRequest(r, C, {}) /\ UNCHANGED <<node, inbounds, snap>>
    BY DEF CacheDelete, Caching
  <1> HIDE DEF C
  <1>2. /\ op[r].on \in SUBSET Clients
        /\ \A c \in op[r].on : nodeClients[c] = Gone
    BY <1>1, Caller DEF DInv, FlightOK, Flight, Told
  <1>3. CacheT'
    BY <1>1, <1>2, Dropped DEF DInv, CacheT
  <1>4. AckedOK'
    BY <1>1, <1>2 DEF DInv, AckedOK, node
  <1>5. QED
    BY <1>1, <1>3, <1>4, Dropped, EndStep

LEMMA CacheBulkKeeps ==
  ASSUME DInv, NEW r \in Requests, CacheBulk(r)
  PROVE  DInv'
  <1> DEFINE C == Returned(r)
  <1>1. /\ pc[r] = "cache" /\ op[r].kind \in {"bulkDelete", "bulkStatus"}
        /\ C \subseteq heldClients[r]
        /\ UNCHANGED <<node, inbounds, snap>>
    BY DEF CacheBulk, Caching
  <1>2. /\ C \subseteq Clients
        /\ \A c \in C : clients[c] # None /\ clients[c] \in Row
    BY <1>1 DEF Returned, DInv, HeldOK, HeldT, CacheT
  <1>3. CASE /\ op[r].kind = "bulkDelete" /\ clients' = Without(C)
             /\ acked' = acked \union C /\ EndRequest(r, C, {})
    <2>1. \A c \in C : nodeClients[c] = Gone
      BY <1>1, <1>3 DEF Returned, DInv, FlightOK, Flight, Told
    <2> HIDE DEF C
    <2>2. CacheT'
      BY <1>1, <1>2, <1>3, Dropped DEF DInv, CacheT
    <2>3. AckedOK'
      BY <1>1, <1>3, <2>1 DEF DInv, AckedOK, node
    <2>4. QED
      BY <1>1, <1>3, <2>2, <2>3, Dropped, EndStep
  <1>4. CASE /\ op[r].kind = "bulkStatus"
             /\ clients' = [c \in Clients |->
                  IF c \in C
                    THEN [clients[c] EXCEPT !.status = answer[r].clients[c].status]
                    ELSE clients[c]]
             /\ EndRequest(r, {}, {}) /\ UNCHANGED acked
    <2>1. \A c \in C : answer[r].clients[c] \in Row
      BY <1>1, <1>4 DEF Returned, DInv, FlightOK, Flight, Told
    <2> HIDE DEF C
    <2>2. \A c \in C : [clients[c] EXCEPT !.status = answer[r].clients[c].status]
                         \in Row
      BY <1>2, <2>1 DEF Row
    <2>3. \A c \in C : clients'[c] \in Row
      BY <1>2, <1>4, <2>2
    <2>4. \A c \in Clients \ C : clients'[c] = clients[c]
      BY <1>4
    <2>5. clients' \in [Clients -> Row \union {None}]
      BY <1>4, <2>2 DEF DInv, CacheT
    <2>6. CacheT'
      BY <1>1, <1>4, <2>5 DEF DInv, CacheT
    <2>7. CachedOK'
      BY <1>1, <1>2, <2>4 DEF DInv, CachedOK, Known, node
    <2>8. AckedOK'
      BY <1>1, <1>4 DEF DInv, AckedOK, node
    <2>9. \A c \in Clients \ {} : clients[c] # None => clients'[c] # None
      BY <2>3, <2>4
    <2>10. QED
      BY <1>1, <1>4, <2>6, <2>7, <2>8, <2>9, EndStep
  <1>5. QED
    BY <1>3, <1>4 DEF CacheBulk

LEMMA CacheInboundKeeps ==
  ASSUME DInv, NEW r \in Requests, CacheInbound(r)
  PROVE  DInv'
  <1>1. PICK i \in Inbounds :
          /\ answer[r].inbounds[i] # None
          /\ inbounds' = Upserted(inbounds, i, answer[r].inbounds[i])
    BY DEF CacheInbound
  <1>2. /\ pc[r] = "cache" /\ EndRequest(r, {}, {})
        /\ UNCHANGED <<node, clients, snap, acked>>
    BY DEF CacheInbound, Caching
  <1>3. answer[r].inbounds[i] \in Switch
    BY <1>1, <1>2 DEF DInv, FlightOK, Flight, Answer
  <1>4. CacheT'
    BY <1>1, <1>2, <1>3 DEF Upserted, DInv, CacheT
  <1>5. CachedOK' /\ AckedOK'
    BY <1>2 DEF DInv, CachedOK, AckedOK, Known, node
  <1>6. QED
    BY <1>2, <1>4, <1>5, EndStep

LEMMA CacheDeleteInboundKeeps ==
  ASSUME DInv, NEW r \in Requests, CacheDeleteInbound(r)
  PROVE  DInv'
  <1> DEFINE I == heldInbounds[r]
             C == {c \in Clients : clients[c] # None /\ clients[c].inbound \in I}
  <1>1. /\ inbounds' = [i \in Inbounds |-> IF i \in I THEN None ELSE inbounds[i]]
        /\ clients' = Without(C) /\ EndRequest(r, C, I)
        /\ UNCHANGED <<node, snap, acked>>
    BY DEF CacheDeleteInbound
  <1> HIDE DEF C, I
  <1>2. CacheT'
    BY <1>1, Dropped DEF DInv, CacheT
  <1>3. AckedOK'
    BY <1>1 DEF DInv, AckedOK, node
  <1>4. QED
    BY <1>1, <1>2, <1>3, Dropped, EndStep

-----------------------------------------------------------------------------
(* All of them.                                                            *)

LEMMA DInvInit == Init => DInv
  <1> SUFFICES ASSUME Init PROVE DInv
    OBVIOUS
  <1>1. (CHOOSE n \in Names : TRUE) \in Names
    OBVIOUS
  <1> DEFINE row == [name |-> CHOOSE n \in Names : TRUE, inbound |-> 1,
                     status |-> "active"]
  <1>2. row \in Row
    BY <1>1 DEF Row, Inbounds, Statuses
  <1>3. NodeT
    <2>1. nodeClients = [NoClients EXCEPT ![1] = row]
      BY DEF Init
    <2> HIDE DEF row
    <2>2. nodeClients \in [Clients -> Row \union {None, Gone}]
      BY <1>2, <2>1 DEF NoClients
    <2>3. nodeInbounds \in [Inbounds -> Switch \union {None, Gone}]
      BY DEF Init, Switch
    <2>4. edits \in 0 .. MaxEdits
      BY DEF Init
    <2>5. QED
      BY <2>2, <2>3, <2>4 DEF NodeT
  <1>4. CacheT /\ CachedOK /\ AckedOK
    BY DEF Init, CacheT, CachedOK, AckedOK, NoInbounds, NoClients
  <1>5. SnapT /\ SnapOK
    BY DEF Init, SnapT, SnapOK, NoInbounds, NoClients
  <1>6. RunT /\ FlightOK
    BY DEF Init, RunT, FlightOK, Flight, Procs
  <1>7. HeldT /\ HeldOK
    BY DEF Init, HeldT, HeldOK
  <1>8. QED
    BY <1>3, <1>4, <1>5, <1>6, <1>7 DEF DInv

LEMMA NodeEditStep == ASSUME DInv, NodeEdit PROVE DInv'
  <1>1. NodeT' /\ Keeps
    BY EditKeeps DEF DInv
  <1>2. UNCHANGED <<inbounds, clients, heldInbounds, heldClients, snap, pc,
                    op, answer, acked>>
    BY DEF NodeEdit, cache
  <1>3. CacheT' /\ CachedOK' /\ AckedOK'
    BY <1>1, <1>2, CacheStays
  <1>4. SnapT' /\ SnapOK'
    BY <1>1, <1>2 DEF DInv, SnapT, SnapOK, snap, Keeps, Known
  <1>5. RunT' /\ HeldT' /\ HeldOK'
    BY <1>2 DEF DInv, RunT, HeldT, HeldOK
  <1>6. FlightOK'
    BY <1>1, <1>2, FlightStays DEF DInv, FlightOK
  <1>7. QED
    BY <1>1, <1>3, <1>4, <1>5, <1>6 DEF DInv

LEMMA SyncerStep ==
  ASSUME DInv, NEW y \in Syncers,
         Sync(y) \/ AskInbounds(y) \/ AskClients(y) \/ AskFails(y)
  PROVE  DInv'
  <1>1. CASE Synced(y)
    BY <1>1, EndSyncKeeps DEF Synced
  <1>2. CASE AskFails(y)
    BY <1>2, EndSyncKeeps DEF AskFails
  <1>3. ASSUME NEW c \in Clients, UpsertFails(y, c) PROVE DInv'
    BY <1>3, EndSyncKeeps DEF UpsertFails
  <1>4. QED
    BY <1>1, <1>2, <1>3, TickKeeps, AskInboundsKeeps, AskClientsKeeps,
       UpsertInboundKeeps, UpsertClientKeeps DEF Sync

LEMMA OperateStep ==
  ASSUME DInv, NEW r \in Requests, Operate(r)
  PROVE  DInv'
  <1>1. CASE CallFails(r)
    BY <1>1, EndsSilently DEF CallFails
  <1>2. CASE AnswerLost(r)
    BY <1>2, EndsSilently DEF AnswerLost
  <1>3. CASE CacheRefuses(r)
    BY <1>3, EndsSilently DEF CacheRefuses
  <1>4. CASE CacheBulkFails(r)
    BY <1>4, EndsSilently DEF CacheBulkFails
  <1>5. CASE \E o \in Requested : Start(r, o)
    BY <1>5, StartKeeps
  <1>6. CASE \/ CallCreate(r) \/ CallUpdate(r) \/ CallDelete(r) \/ CallBulk(r)
             \/ CallInbound(r) \/ CallDeleteInbound(r)
    BY <1>6, CallCreateKeeps, CallUpdateKeeps, CallDeleteKeeps, CallBulkKeeps,
       CallInboundKeeps, CallDeleteInboundKeeps
  <1>7. CASE \/ CacheClient(r) \/ CacheDelete(r) \/ CacheBulk(r)
             \/ CacheInbound(r) \/ CacheDeleteInbound(r)
    BY <1>7, CacheClientKeeps, CacheDeleteKeeps, CacheBulkKeeps,
       CacheInboundKeeps, CacheDeleteInboundKeeps
  <1>8. QED
    BY <1>1, <1>2, <1>3, <1>4, <1>5, <1>6, <1>7 DEF Operate

LEMMA DInvStep == DInv /\ [Next]_vars => DInv'
  <1> SUFFICES ASSUME DInv, [Next]_vars PROVE DInv'
    OBVIOUS
  <1>1. CASE UNCHANGED vars
    <2>1. UNCHANGED <<node, inbounds, clients, heldInbounds, heldClients,
                      snap, pc, op, answer, acked>>
      BY <1>1 DEF vars, cache
    <2>2. NodeT' /\ Keeps
      BY <2>1, StillKeeps DEF DInv
    <2>3. CacheT' /\ CachedOK' /\ AckedOK'
      BY <2>1, <2>2, CacheStays
    <2>4. SnapT' /\ SnapOK'
      BY <2>1, SnapSame
    <2>5. RunT' /\ HeldT' /\ HeldOK'
      BY <2>1 DEF DInv, RunT, HeldT, HeldOK
    <2>6. FlightOK'
      BY <2>1, <2>2, FlightStays DEF DInv, FlightOK
    <2>7. QED
      BY <2>2, <2>3, <2>4, <2>5, <2>6 DEF DInv
  <1>2. QED
    BY <1>1, NodeEditStep, SyncerStep, OperateStep DEF Next

LEMMA AlwaysDInv == Spec => []DInv
  BY DInvInit, DInvStep, PTL DEF Spec

(* A deletion that the master reports as done has been done by the node,   *)
(* whatever the node's administrator and overlapping requests do meanwhile *)
(* (service.go:324-337,448-467).                                           *)
THEOREM DeletionsAreTrue == Spec => []DeletedIsGone
  <1>1. DInv => DeletedIsGone
    BY DEF DInv, NodeT, CacheT, SnapT, RunT, HeldT, AckedOK, DeletedIsGone,
           TypeOK
  <1>2. QED
    BY <1>1, AlwaysDInv, PTL

-----------------------------------------------------------------------------
(* How the cache comes to follow the node.                                 *)

KnownInbound(i) == nodeInbounds[i] # None

\* The foreign key of the node's clients.
LinksOK ==
  \A c \in Clients : LiveClient(c) => LiveInbound(nodeClients[c].inbound)

\* Nothing that the master keeps is about an inbound the node never had.
InboundsOK ==
  /\ \A i \in Inbounds : inbounds[i] # None => KnownInbound(i)
  /\ \A y \in Syncers, i \in Inbounds :
       snapInbounds[y][i] # None => KnownInbound(i)
  /\ \A p \in Procs : \A i \in heldInbounds[p] : KnownInbound(i)

\* A request holds only what it is about; when it is to drop a cached
\* inbound, the node has deleted that inbound for good.
Owns(r) ==
  /\ pc[r] \in {"call", "cache"} =>
       /\ heldClients[r] \subseteq op[r].on
       /\ heldInbounds[r] \subseteq {op[r].inbound}
  /\ pc[r] = "cache" =>
       /\ op[r].kind = "deleteInbound" =>
            \A i \in heldInbounds[r] : nodeInbounds[i] = Gone
       /\ \A i \in Inbounds : answer[r].inbounds[i] # None => KnownInbound(i)

OwnsOK == \A r \in Requests : Owns(r)

\* The inductive invariant, next to DInv.
EInv == LinksOK /\ InboundsOK /\ OwnsOK

\* An inbound is created once and deleted once.
KeepsInbounds ==
  \A i \in Inbounds : /\ nodeInbounds[i] = Gone => nodeInbounds'[i] = Gone
                      /\ nodeInbounds[i] # None => nodeInbounds'[i] # None

\* What can happen to the node in a step.
NodeActs ==
  \/ UNCHANGED node
  \/ \E c \in Clients, n \in Names, i \in Inbounds : NodeCreate(c, n, i)
  \/ \E c \in Clients, row \in Row : NodeUpdate(c, row)
  \/ \E C \in SUBSET Clients : NodeDelete(C)
  \/ \E C \in SUBSET Clients, s \in Statuses :
       (\A c \in C : LiveClient(c)) /\ NodeSetStatus(C, s)
  \/ \E i \in Inbounds, s \in Switch : NodeSetInbound(i, s)
  \/ \E i \in Inbounds : NodeDeleteInbound(i)

LEMMA CreateActs ==
  ASSUME NEW c \in Clients, NEW n \in Names, NEW i \in Inbounds,
         NodeCreate(c, n, i)
  PROVE  NodeActs
  BY Zenon DEF NodeActs

LEMMA UpdateActs ==
  ASSUME NEW c \in Clients, NEW row \in Row, NodeUpdate(c, row)
  PROVE  NodeActs
  BY Zenon DEF NodeActs

LEMMA DeleteActs ==
  ASSUME NEW C \in SUBSET Clients, NodeDelete(C)
  PROVE  NodeActs
  BY Zenon DEF NodeActs

LEMMA StatusActs ==
  ASSUME NEW C \in SUBSET Clients, NEW s \in Statuses,
         \A c \in C : LiveClient(c), NodeSetStatus(C, s)
  PROVE  NodeActs
  BY Zenon DEF NodeActs

LEMMA CreateLinks ==
  ASSUME NodeT, LinksOK, NEW c \in Clients, NEW n \in Names, NEW i \in Inbounds,
         NodeCreate(c, n, i)
  PROVE  LinksOK' /\ KeepsInbounds
  BY DEF NodeT, LinksOK, KeepsInbounds, NodeCreate, LiveClient, LiveInbound

LEMMA UpdateLinks ==
  ASSUME NodeT, LinksOK, NEW c \in Clients, NEW row \in Row, NodeUpdate(c, row)
  PROVE  LinksOK' /\ KeepsInbounds
  BY DEF NodeT, LinksOK, KeepsInbounds, NodeUpdate, LiveClient, LiveInbound

LEMMA DeleteLinks ==
  ASSUME NodeT, LinksOK, NEW C \in SUBSET Clients, NodeDelete(C)
  PROVE  LinksOK' /\ KeepsInbounds
  BY DEF NodeT, LinksOK, KeepsInbounds, NodeDelete, LiveClient, LiveInbound

LEMMA StatusLinks ==
  ASSUME NodeT, LinksOK, NEW C \in SUBSET Clients, NEW s \in Statuses,
         \A c \in C : LiveClient(c), NodeSetStatus(C, s)
  PROVE  LinksOK' /\ KeepsInbounds
  <1>1. \A c \in C : nodeClients[c] \in Row
    BY DEF NodeT, LiveClient
  <1>2. \A c \in C : nodeClients'[c].inbound = nodeClients[c].inbound
    BY <1>1 DEF NodeSetStatus, Row
  <1>3. \A c \in Clients \ C : nodeClients'[c] = nodeClients[c]
    BY DEF NodeSetStatus
  <1>4. UNCHANGED nodeInbounds
    BY DEF NodeSetStatus
  <1>5. QED
    BY <1>2, <1>3, <1>4 DEF LinksOK, KeepsInbounds, LiveClient, LiveInbound

LEMMA SwitchLinks ==
  ASSUME NodeT, LinksOK, NEW i \in Inbounds, NEW s \in Switch,
         NodeSetInbound(i, s)
  PROVE  LinksOK' /\ KeepsInbounds
  <1>1. nodeInbounds' = [nodeInbounds EXCEPT ![i] = s] /\ UNCHANGED nodeClients
    BY DEF NodeSetInbound
  <1>2. nodeInbounds[i] # Gone
    BY DEF NodeSetInbound, NextId, LiveInbound
  <1>3. \A j \in Inbounds : LiveInbound(j) => LiveInbound(j)'
    BY <1>1 DEF NodeT, LiveInbound
  <1>4. KeepsInbounds
    BY <1>1, <1>2 DEF NodeT, KeepsInbounds
  <1>5. \A c \in Clients : LiveClient(c) => nodeClients[c].inbound \in Inbounds
    BY DEF NodeT, LiveClient, Row
  <1>6. QED
    BY <1>1, <1>3, <1>4, <1>5 DEF LinksOK, LiveClient

LEMMA DropLinks ==
  ASSUME NodeT, LinksOK, NEW i \in Inbounds, NodeDeleteInbound(i)
  PROVE  LinksOK' /\ KeepsInbounds
  <1>1. /\ nodeInbounds' = [nodeInbounds EXCEPT ![i] = Gone]
        /\ \A c \in Clients : LiveClient(c)' =>
             /\ nodeClients'[c] = nodeClients[c] /\ LiveClient(c)
             /\ nodeClients[c].inbound # i
    BY DEF NodeDeleteInbound, LiveClient
  <1>2. QED
    BY <1>1 DEF NodeT, LinksOK, KeepsInbounds, LiveInbound

LEMMA LinksStay ==
  ASSUME NodeT, LinksOK, NodeActs
  PROVE  LinksOK' /\ KeepsInbounds
  <1>1. CASE UNCHANGED node
    BY <1>1 DEF LinksOK, KeepsInbounds, LiveClient, LiveInbound, node
  <1>2. QED
    BY <1>1, CreateLinks, UpdateLinks, DeleteLinks, StatusLinks, SwitchLinks,
       DropLinks DEF NodeActs

-----------------------------------------------------------------------------
(* Answers of the node.                                                    *)

\* What an answer says is the state of the node when it is given.
True(C, I) ==
  /\ \A c \in Clients : C[c] \in {None, nodeClients'[c]}
  /\ \A i \in Inbounds : I[i] \in {None, nodeInbounds'[i]}

\* A call that is answered.
Answers(r) ==
  \E C, I : /\ pc[r] = "call" /\ Answered(r, C, I) /\ True(C, I)
            /\ op[r].kind = "deleteInbound" => ~ LiveInbound(op[r].inbound)'

LEMMA NoneIsTrue == \A i \in Inbounds : NoInbounds[i] = None
  BY DEF NoInbounds

LEMMA RowsTrue ==
  ASSUME NEW C
  PROVE  True(Rows(C, nodeClients'), NoInbounds)
  BY NoneIsTrue DEF True, Rows

LEMMA AnswersIntro ==
  ASSUME NEW r \in Requests, NEW C, NEW I, Answered(r, C, I), True(C, I),
         pc[r] = "call", op[r].kind # "deleteInbound"
  PROVE  Answers(r)
  BY DEF Answers

LEMMA CallsAnswered ==
  ASSUME DInv, NEW r \in Requests,
         CallCreate(r) \/ CallUpdate(r) \/ CallBulk(r)
  PROVE  Answers(r) /\ NodeActs
  <1>1. pc[r] = "call" /\ op[r].kind # "deleteInbound"
    BY DEF CallCreate, CallUpdate, CallBulk, Calling
  <1>2. \E C : Answered(r, Rows(C, nodeClients'), NoInbounds)
    BY DEF CallCreate, CallUpdate, CallBulk
  <1>3. Answers(r)
    BY <1>1, <1>2, RowsTrue, AnswersIntro
  <1>4. CASE CallCreate(r)
    <2>1. op[r].inbound \in Inbounds
      BY <1>1, <1>4, Caller, RequestedOp DEF CallCreate, Calling
    <2>2. PICK c \in Clients, n \in Names : NodeCreate(c, n, op[r].inbound)
      BY <1>4 DEF CallCreate
    <2>3. QED
      BY <1>3, <2>1, <2>2, CreateActs
  <1>5. CASE CallUpdate(r)
    <2>1. op[r].on \in SUBSET Clients
      BY <1>1, Caller
    <2>2. PICK c \in op[r].on, row \in Row : NodeUpdate(c, row)
      BY <1>5 DEF CallUpdate
    <2>3. c \in Clients
      BY <2>1
    <2>4. QED
      BY <1>3, <2>2, <2>3, UpdateActs
  <1>6. CASE CallBulk(r)
    <2> DEFINE found == {c \in op[r].on : LiveClient(c)}
    <2>1. found \in SUBSET Clients /\ \A c \in found : LiveClient(c)
      BY <1>1, Caller
    <2>2. NodeDelete(found) \/ \E s \in Statuses : NodeSetStatus(found, s)
      BY <1>6 DEF CallBulk
    <2> HIDE DEF found
    <2>3. CASE NodeDelete(found)
      BY <1>3, <2>1, <2>3, DeleteActs
    <2>4. ASSUME NEW s \in Statuses, NodeSetStatus(found, s)
          PROVE  NodeActs
      BY <2>1, <2>4, StatusActs
    <2>5. QED
      BY <1>3, <2>2, <2>3, <2>4
  <1>7. QED
    BY <1>4, <1>5, <1>6

LEMMA DeletesAnswered ==
  ASSUME DInv, NEW r \in Requests, CallDelete(r)
  PROVE  Answers(r) /\ NodeActs
  <1> DEFINE A == Rows(op[r].on, [c \in Clients |-> Gone])
  <1>1. pc[r] = "call" /\ op[r].kind = "delete" /\ Answered(r, A, NoInbounds)
    BY DEF CallDelete, Calling
  <1>2. PICK c \in Clients : op[r].on = {c}
    BY <1>1, Caller, RequestedOp
  <1>3. nodeClients[c] # None /\ NodeT
    BY <1>1, <1>2, Caller
  <1>4. NodeActs /\ nodeClients'[c] = Gone
    <2>1. CASE LiveClient(c)
      <3>1. NodeDelete({c}) /\ {c} \in SUBSET Clients
        BY <1>2, <2>1 DEF CallDelete
      <3>2. QED
        BY <1>3, <3>1, DeleteKeeps DEF NodeActs
    <2>2. CASE ~ LiveClient(c)
      BY <1>2, <1>3, <2>2 DEF CallDelete, LiveClient, NodeActs, node
    <2>3. QED
      BY <2>1, <2>2
  <1>5. True(A, NoInbounds)
    BY <1>2, <1>4, NoneIsTrue DEF True, Rows
  <1> HIDE DEF A
  <1>6. QED
    BY <1>1, <1>4, <1>5, AnswersIntro

LEMMA InboundsAnswered ==
  ASSUME DInv, NEW r \in Requests, CallInbound(r)
  PROVE  Answers(r) /\ NodeActs
  <1>1. PICK i \in Inbounds, s \in Switch :
          /\ NodeSetInbound(i, s)
          /\ Answered(r, NoClients, [NoInbounds EXCEPT ![i] = s])
    BY DEF CallInbound
  <1>2. pc[r] = "call" /\ op[r].kind \in {"addInbound", "setInbound"}
    BY DEF CallInbound, Calling
  <1>3. nodeInbounds'[i] = s
    BY <1>1 DEF NodeSetInbound, DInv, NodeT
  <1>4. True(NoClients, [NoInbounds EXCEPT ![i] = s])
    BY <1>3 DEF True, NoClients, NoInbounds
  <1>5. QED
    BY <1>1, <1>2, <1>4, AnswersIntro DEF NodeActs

LEMMA InboundDeleted ==
  ASSUME DInv, NEW r \in Requests, CallDeleteInbound(r)
  PROVE  Answers(r) /\ NodeActs
  <1>1. /\ pc[r] = "call" /\ op[r].kind = "deleteInbound"
        /\ Answered(r, NoClients, NoInbounds)
    BY DEF CallDeleteInbound, Calling
  <1>2. op[r].inbound \in Inbounds /\ NodeT
    BY <1>1, Caller, RequestedOp
  <1>3. NodeActs
    BY <1>2 DEF CallDeleteInbound, NodeActs
  <1>4. ~ LiveInbound(op[r].inbound)'
    <2>1. CASE LiveInbound(op[r].inbound)
      <3>1. nodeInbounds' = [nodeInbounds EXCEPT ![op[r].inbound] = Gone]
        BY <2>1 DEF CallDeleteInbound, NodeDeleteInbound
      <3>2. nodeInbounds'[op[r].inbound] = Gone /\ op' = op
        BY <1>1, <1>2, <3>1 DEF NodeT, Answered
      <3>3. QED
        BY <3>2 DEF LiveInbound
    <2>2. CASE ~ LiveInbound(op[r].inbound)
      BY <1>1, <2>2 DEF CallDeleteInbound, LiveInbound, node, Answered
    <2>3. QED
      BY <2>1, <2>2
  <1>5. True(NoClients, NoInbounds)
    BY NoneIsTrue, NothingOf DEF True
  <1>6. QED
    BY <1>1, <1>3, <1>4, <1>5 DEF Answers

-----------------------------------------------------------------------------
(* What moves between the node, the snapshots, the answers and the cache.  *)

\* The cache takes what a snapshot has, and a snapshot what the node has.
SyncMoves(y) ==
  /\ UNCHANGED <<node, op, answer, heldClients>>
  /\ \A q \in Requests : pc'[q] = pc[q] /\ heldInbounds'[q] = heldInbounds[q]
  /\ \A i \in Inbounds :
       \/ inbounds'[i] = inbounds[i]
       \/ snapInbounds[y][i] # None /\ inbounds'[i] = snapInbounds[y][i]
  /\ \A c \in Clients :
       \/ clients'[c] = clients[c]
       \/ snapClients[y][c] # None /\ clients'[c] = snapClients[y][c]
  /\ \A z \in Syncers, i \in Inbounds :
       snapInbounds'[z][i] \in {snapInbounds[z][i], None, nodeInbounds[i]}
  /\ \A z \in Syncers, c \in Clients :
       snapClients'[z][c] \in {snapClients[z][c], None, nodeClients[c]}
  /\ \A p \in Procs : \A i \in heldInbounds'[p] :
       i \in Inbounds /\ (i \in heldInbounds[p] \/ KnownInbound(i))

\* The cache takes what an answer says, or drops what the node has deleted.
Ends(r) ==
  /\ UNCHANGED <<node, snap>>
  /\ \E C, I : EndRequest(r, C, I)
  /\ \A i \in Inbounds :
       \/ inbounds'[i] = inbounds[i]
       \/ /\ pc[r] = "cache" /\ answer[r].inbounds[i] # None
          /\ inbounds'[i] = answer[r].inbounds[i]
       \/ inbounds'[i] = None /\ nodeInbounds[i] = Gone
  /\ \A c \in Clients :
       \/ clients'[c] = clients[c]
       \/ /\ pc[r] = "cache" /\ answer[r].clients[c] # None
          /\ \/ clients'[c] = answer[r].clients[c]
             \/ clients'[c] = [clients[c] EXCEPT !.status =
                                 answer[r].clients[c].status]
       \/ /\ clients'[c] = None
          /\ ~ LiveClient(c) \/ nodeInbounds[clients[c].inbound] = Gone

LEMMA SnapsSame ==
  ASSUME UNCHANGED snap
  PROVE  /\ \A z \in Syncers, i \in Inbounds :
              snapInbounds'[z][i] \in {snapInbounds[z][i], None, nodeInbounds[i]}
         /\ \A z \in Syncers, c \in Clients :
              snapClients'[z][c] \in {snapClients[z][c], None, nodeClients[c]}
  BY DEF snap

LEMMA EndSyncMoves ==
  ASSUME DInv, NEW y \in Syncers, EndSync(y),
         UNCHANGED <<node, inbounds, clients, heldClients, op, answer>>
  PROVE  SyncMoves(y)
  <1>1. \A q \in Procs \ {y} : pc'[q] = pc[q] /\ heldInbounds'[q] = heldInbounds[q]
    BY DEF EndSync, Goto, DInv, RunT, HeldT, Procs
  <1>2. \A z \in Syncers, i \in Inbounds :
          snapInbounds'[z][i] \in {snapInbounds[z][i], None}
    BY NoneIsTrue DEF EndSync, DInv, SnapT
  <1>3. \A z \in Syncers, c \in Clients :
          snapClients'[z][c] \in {snapClients[z][c], None}
    BY NothingOf DEF EndSync, DInv, SnapT
  <1>4. \A p \in Procs : heldInbounds'[p] \subseteq heldInbounds[p]
                         /\ heldInbounds[p] \subseteq Inbounds
    BY DEF EndSync, DInv, HeldT, Procs
  <1>5. \A q \in Requests : q \in Procs \ {y}
    BY DEF Procs
  <1>6. QED
    BY <1>1, <1>2, <1>3, <1>4, <1>5 DEF SyncMoves

LEMMA AsksMove ==
  ASSUME DInv, NEW y \in Syncers, Tick(y) \/ AskInbounds(y) \/ AskClients(y)
  PROVE  SyncMoves(y)
  <1>1. /\ UNCHANGED <<node, inbounds, clients, heldInbounds, heldClients, op,
                       answer>>
        /\ \A q \in Procs \ {y} : pc'[q] = pc[q]
    BY DEF Tick, AskInbounds, AskClients, cache, Goto, DInv, RunT, Procs
  <1>2. \A q \in Requests : q \in Procs \ {y}
    BY DEF Procs
  <1>3. \A p \in Procs : heldInbounds[p] \subseteq Inbounds
    BY DEF DInv, HeldT
  <1>4. \A z \in Syncers, i \in Inbounds :
          snapInbounds'[z][i] \in {snapInbounds[z][i], None, nodeInbounds[i]}
    BY DEF Tick, AskInbounds, AskClients, snap, DInv, SnapT
  <1>5. \A z \in Syncers, c \in Clients :
          snapClients'[z][c] \in {snapClients[z][c], None, nodeClients[c]}
    BY DEF Tick, AskInbounds, AskClients, snap, DInv, SnapT
  <1>6. QED
    BY <1>1, <1>2, <1>3, <1>4, <1>5 DEF SyncMoves

LEMMA UpsertsMove ==
  ASSUME DInv, InboundsOK, NEW y \in Syncers
  PROVE  /\ \A i \in Inbounds : UpsertInbound(y, i) => SyncMoves(y)
         /\ \A c \in Clients : UpsertClient(y, c) => SyncMoves(y)
  <1>1. ASSUME NEW i \in Inbounds, UpsertInbound(y, i) PROVE SyncMoves(y)
    <2>1. /\ UNCHANGED <<node, clients, heldClients, snapClients, pc, op, answer>>
          /\ snapInbounds[y][i] # None
          /\ inbounds' = [inbounds EXCEPT ![i] = snapInbounds[y][i]]
          /\ snapInbounds' = [snapInbounds EXCEPT ![y][i] = None]
          /\ heldInbounds' = [heldInbounds EXCEPT ![y] = @ \union {i}]
      BY <1>1 DEF UpsertInbound, Upserted, NextOf
    <2>2. \A q \in Requests : heldInbounds'[q] = heldInbounds[q]
      BY <2>1 DEF DInv, HeldT, Procs
    <2>3. \A j \in Inbounds : \/ inbounds'[j] = inbounds[j]
                              \/ j = i /\ inbounds'[j] = snapInbounds[y][i]
      BY <2>1 DEF DInv, CacheT
    <2>4. \A z \in Syncers, j \in Inbounds :
            snapInbounds'[z][j] \in {snapInbounds[z][j], None}
      BY <2>1 DEF DInv, SnapT
    <2>5. KnownInbound(i)
      BY <2>1 DEF InboundsOK
    <2>6. \A p \in Procs : \A j \in heldInbounds'[p] :
            j \in Inbounds /\ (j \in heldInbounds[p] \/ j = i)
      BY <2>1 DEF DInv, HeldT, Procs
    <2>7. QED
      BY <2>1, <2>2, <2>3, <2>4, <2>5, <2>6 DEF SyncMoves
  <1>2. ASSUME NEW c \in Clients, UpsertClient(y, c) PROVE SyncMoves(y)
    <2>1. /\ UNCHANGED <<node, inbounds, heldInbounds, heldClients,
                         snapInbounds, pc, op, answer>>
          /\ snapClients[y][c] # None
          /\ clients' = [clients EXCEPT ![c] = snapClients[y][c]]
          /\ snapClients' = [snapClients EXCEPT ![y][c] = None]
      BY <1>2 DEF UpsertClient, Upserted, NextOf
    <2>2. \A d \in Clients : \/ clients'[d] = clients[d]
                             \/ d = c /\ clients'[d] = snapClients[y][c]
      BY <2>1 DEF DInv, CacheT
    <2>3. \A z \in Syncers, d \in Clients :
            snapClients'[z][d] \in {snapClients[z][d], None}
      BY <2>1 DEF DInv, SnapT
    <2>4. \A p \in Procs : heldInbounds[p] \subseteq Inbounds
      BY DEF DInv, HeldT
    <2>5. QED
      BY <2>1, <2>2, <2>3, <2>4 DEF SyncMoves
  <1>3. QED
    BY <1>1, <1>2

LEMMA SyncerMoves ==
  ASSUME DInv, InboundsOK, NEW y \in Syncers,
         Sync(y) \/ AskInbounds(y) \/ AskClients(y) \/ AskFails(y)
  PROVE  SyncMoves(y)
  <1>1. CASE Synced(y)
    BY <1>1, EndSyncMoves DEF Synced
  <1>2. CASE AskFails(y)
    BY <1>2, EndSyncMoves DEF AskFails
  <1>3. ASSUME NEW c \in Clients, UpsertFails(y, c) PROVE SyncMoves(y)
    BY <1>3, EndSyncMoves DEF UpsertFails
  <1>4. QED
    BY <1>1, <1>2, <1>3, AsksMove, UpsertsMove DEF Sync

LEMMA EndsSame ==
  ASSUME NEW r \in Requests, NEW C, NEW I, EndRequest(r, C, I),
         UNCHANGED <<node, inbounds, clients, snap>>
  PROVE  Ends(r)
  BY DEF Ends

LEMMA WritesEnd ==
  ASSUME DInv, OwnsOK, NEW r \in Requests,
         CacheClient(r) \/ CacheDelete(r) \/ CacheInbound(r)
  PROVE  Ends(r)
  <1>1. UNCHANGED <<node, snap>> /\ \E C, I : EndRequest(r, C, I)
    BY DEF CacheClient, CacheDelete, CacheInbound
  <1>2. pc[r] = "cache" /\ Flight(r) /\ Owns(r)
    BY DEF CacheClient, CacheDelete, CacheInbound, Caching, DInv, FlightOK, OwnsOK
  <1>3. CASE CacheClient(r)
    <2>1. PICK c \in Returned(r) :
            clients' = Upserted(clients, c, answer[r].clients[c])
      BY <1>3 DEF CacheClient
    <2>2. \A d \in Clients : \/ clients'[d] = clients[d]
                             \/ d = c /\ clients'[d] = answer[r].clients[d]
      BY <2>1 DEF Upserted, DInv, CacheT
    <2>3. UNCHANGED inbounds /\ answer[r].clients[c] # None
      BY <1>3, <2>1 DEF CacheClient, Returned
    <2>4. QED
      BY <1>1, <1>2, <2>2, <2>3 DEF Ends
  <1>4. CASE CacheDelete(r)
    <2>1. op[r].kind = "delete" /\ clients' = Without(heldClients[r])
          /\ UNCHANGED inbounds
      BY <1>4 DEF CacheDelete, Caching
    <2>2. \A c \in heldClients[r] : nodeClients[c] = Gone
      BY <1>2, <2>1 DEF Owns, Flight, Told
    <2>3. QED
      BY <1>1, <2>1, <2>2 DEF Ends, Without, LiveClient
  <1>5. CASE CacheInbound(r)
    <2>1. PICK i \in Inbounds :
            /\ answer[r].inbounds[i] # None
            /\ inbounds' = Upserted(inbounds, i, answer[r].inbounds[i])
      BY <1>5 DEF CacheInbound
    <2>2. \A j \in Inbounds : \/ inbounds'[j] = inbounds[j]
                              \/ j = i /\ inbounds'[j] = answer[r].inbounds[j]
      BY <2>1 DEF Upserted, DInv, CacheT
    <2>3. UNCHANGED clients
      BY <1>5 DEF CacheInbound
    <2>4. QED
      BY <1>1, <1>2, <2>1, <2>2, <2>3 DEF Ends
  <1>6. QED
    BY <1>3, <1>4, <1>5

LEMMA BatchEnds ==
  ASSUME DInv, NEW r \in Requests, CacheBulk(r)
  PROVE  Ends(r)
  <1>1. /\ UNCHANGED <<node, inbounds, snap>> /\ pc[r] = "cache"
        /\ \E C, I : EndRequest(r, C, I)
    BY DEF CacheBulk, Caching
  <1>2. \/ op[r].kind = "bulkDelete" /\ clients' = Without(Returned(r))
        \/ clients' = [c \in Clients |->
             IF c \in Returned(r)
               THEN [clients[c] EXCEPT !.status = answer[r].clients[c].status]
               ELSE clients[c]]
    BY DEF CacheBulk
  <1>3. CASE op[r].kind = "bulkDelete" /\ clients' = Without(Returned(r))
    <2>1. \A c \in Returned(r) : nodeClients[c] = Gone
      BY <1>1, <1>3 DEF Returned, DInv, FlightOK, Flight, Told
    <2>2. QED
      BY <1>1, <1>3, <2>1 DEF Ends, Without, LiveClient
  <1>4. CASE clients' = [c \in Clients |->
             IF c \in Returned(r)
               THEN [clients[c] EXCEPT !.status = answer[r].clients[c].status]
               ELSE clients[c]]
    <2>1. \A c \in Returned(r) : answer[r].clients[c] # None
      BY DEF Returned
    <2>2. QED
      BY <1>1, <1>4, <2>1 DEF Ends
  <1>5. QED
    BY <1>2, <1>3, <1>4

LEMMA DropsEnd ==
  ASSUME DInv, OwnsOK, NEW r \in Requests, CacheDeleteInbound(r)
  PROVE  Ends(r)
  <1> DEFINE I == heldInbounds[r]
             C == {c \in Clients :
                     clients[c] # None /\ clients[c].inbound \in I}
  <1>1. /\ inbounds' = [i \in Inbounds |-> IF i \in I THEN None ELSE inbounds[i]]
        /\ clients' = Without(C) /\ EndRequest(r, C, I)
        /\ UNCHANGED <<node, snap>>
    BY DEF CacheDeleteInbound
  <1>2. \A i \in I : nodeInbounds[i] = Gone
    BY DEF CacheDeleteInbound, Caching, OwnsOK, Owns
  <1>3. \A c \in C : nodeInbounds[clients[c].inbound] = Gone
    BY <1>2
  <1> HIDE DEF C, I
  <1>4. QED
    BY <1>1, <1>2, <1>3 DEF Ends, Without

\* A request starts, is answered or ends.
LEMMA RequestMoves ==
  ASSUME DInv, OwnsOK, NEW r \in Requests, Operate(r)
  PROVE  \/ \E o \in Requested : Start(r, o)
         \/ Answers(r) /\ NodeActs
         \/ Ends(r)
  <1>1. CASE CallFails(r) \/ AnswerLost(r) \/ CacheRefuses(r)
             \/ CacheBulkFails(r)
    BY <1>1, EndsSame DEF CallFails, AnswerLost, CacheRefuses, CacheBulkFails
  <1>2. CASE \/ CacheClient(r) \/ CacheDelete(r) \/ CacheBulk(r)
             \/ CacheInbound(r) \/ CacheDeleteInbound(r)
    BY <1>2, WritesEnd, BatchEnds, DropsEnd
  <1>3. CASE \/ CallCreate(r) \/ CallUpdate(r) \/ CallDelete(r) \/ CallBulk(r)
             \/ CallInbound(r) \/ CallDeleteInbound(r)
    BY <1>3, CallsAnswered, DeletesAnswered, InboundsAnswered, InboundDeleted
  <1>4. QED
    BY <1>1, <1>2, <1>3 DEF Operate

LEMMA EditActs == ASSUME NodeEdit PROVE NodeActs
  <1>1. ASSUME NEW c \in Clients, NodeDelete({c}) PROVE NodeActs
    <2>1. {c} \in SUBSET Clients
      OBVIOUS
    <2>2. QED
      BY <1>1, <2>1, DeleteActs
  <1>2. ASSUME NEW i \in Inbounds, NodeDeleteInbound(i) PROVE NodeActs
    BY <1>2, Zenon DEF NodeActs
  <1>3. ASSUME NEW i \in Inbounds, NEW s \in Switch, NodeSetInbound(i, s)
        PROVE  NodeActs
    BY <1>3, Zenon DEF NodeActs
  <1>4. QED
    BY <1>1, <1>2, <1>3, CreateActs, UpdateActs, Zenon DEF NodeEdit

LEMMA SameActs == ASSUME UNCHANGED node PROVE NodeActs
  BY Zenon DEF NodeActs

\* A request that only loses what it holds.
LEMMA OwnsStay ==
  ASSUME NEW q \in Requests, Owns(q), KeepsInbounds,
         pc'[q] = pc[q], op'[q] = op[q], answer'[q] = answer[q],
         heldClients'[q] \subseteq heldClients[q],
         heldInbounds'[q] \subseteq heldInbounds[q],
         heldInbounds[q] \subseteq Inbounds
  PROVE  Owns(q)'
  <1>1. pc'[q] \in {"call", "cache"} =>
          /\ heldClients'[q] \subseteq op'[q].on
          /\ heldInbounds'[q] \subseteq {op'[q].inbound}
    BY DEF Owns
  <1>2. ASSUME pc'[q] = "cache", op'[q].kind = "deleteInbound",
               NEW i \in heldInbounds'[q]
        PROVE  nodeInbounds'[i] = Gone
    BY <1>2 DEF Owns, KeepsInbounds
  <1>3. ASSUME pc'[q] = "cache", NEW i \in Inbounds, answer'[q].inbounds[i] # None
        PROVE  KnownInbound(i)'
    BY <1>3 DEF Owns, KeepsInbounds, KnownInbound
  <1>4. QED
    BY <1>1, <1>2, <1>3 DEF Owns

\* The cache and the snapshots stay, and each goroutine holds no more.
LEMMA InboundsStay ==
  ASSUME InboundsOK, KeepsInbounds, UNCHANGED snap,
         \A i \in Inbounds :
           inbounds'[i] \in {inbounds[i], None} \/ nodeInbounds[i] # None,
         \A p \in Procs : heldInbounds[p] \subseteq Inbounds,
         \A p \in Procs : heldInbounds'[p] \subseteq heldInbounds[p]
  PROVE  InboundsOK'
  BY DEF InboundsOK, KeepsInbounds, KnownInbound, snap

LEMMA EInvEdit ==
  ASSUME DInv, EInv, NodeEdit
  PROVE  EInv'
  <1>1. LinksOK' /\ KeepsInbounds
    BY EditActs, LinksStay DEF DInv, EInv
  <1>2. UNCHANGED <<cache, snap, pc, op, answer>>
    BY DEF NodeEdit
  <1>3. \A p \in Procs : heldInbounds[p] \subseteq Inbounds
    BY DEF DInv, HeldT
  <1>4. InboundsOK'
    BY <1>1, <1>2, <1>3, InboundsStay DEF EInv, cache
  <1>5. ASSUME NEW q \in Requests PROVE Owns(q)'
    <2>1. q \in Procs /\ Owns(q)
      BY DEF Procs, EInv, OwnsOK
    <2>2. QED
      BY <1>1, <1>2, <1>3, <2>1, OwnsStay DEF cache
  <1>6. QED
    BY <1>1, <1>4, <1>5 DEF EInv, OwnsOK

LEMMA EInvSync ==
  ASSUME DInv, EInv, NEW y \in Syncers, SyncMoves(y)
  PROVE  EInv'
  <1>1. LinksOK' /\ KeepsInbounds
    BY SameActs, LinksStay DEF DInv, EInv, SyncMoves
  <1>2. UNCHANGED nodeInbounds
    BY DEF SyncMoves, node
  <1>3. \A i \in Inbounds : inbounds'[i] # None => KnownInbound(i)'
    BY <1>2 DEF SyncMoves, EInv, InboundsOK, KnownInbound
  <1>4. \A z \in Syncers, i \in Inbounds :
          snapInbounds'[z][i] # None => KnownInbound(i)'
    BY <1>2 DEF SyncMoves, EInv, InboundsOK, KnownInbound
  <1>5. \A p \in Procs : \A i \in heldInbounds'[p] : KnownInbound(i)'
    BY <1>2 DEF SyncMoves, EInv, InboundsOK, KnownInbound
  <1>6. ASSUME NEW q \in Requests PROVE Owns(q)'
    <2>1. q \in Procs /\ Owns(q)
      BY DEF Procs, EInv, OwnsOK
    <2>2. heldInbounds[q] \subseteq Inbounds
      BY <2>1 DEF DInv, HeldT
    <2>3. /\ pc'[q] = pc[q] /\ heldInbounds'[q] = heldInbounds[q]
          /\ UNCHANGED <<op, answer, heldClients>>
      BY DEF SyncMoves
    <2>4. QED
      BY <1>1, <2>1, <2>2, <2>3, OwnsStay
  <1>7. QED
    BY <1>1, <1>3, <1>4, <1>5, <1>6 DEF EInv, OwnsOK, InboundsOK

LEMMA EInvStart ==
  ASSUME DInv, EInv, NEW r \in Requests, NEW o \in Requested, Start(r, o)
  PROVE  EInv'
  <1>1. /\ UNCHANGED <<node, inbounds, clients, snap, answer>>
        /\ op' = [op EXCEPT ![r] = o] /\ pc' = [pc EXCEPT ![r] = "call"]
        /\ heldClients' = [heldClients EXCEPT ![r] = o.on]
        /\ heldInbounds' = [heldInbounds EXCEPT ![r] = {o.inbound} \ {0}]
    BY DEF Start, Goto
  <1>2. LinksOK' /\ KeepsInbounds
    BY <1>1, SameActs, LinksStay DEF DInv, EInv
  <1>3. UNCHANGED <<nodeInbounds, snapInbounds>>
    BY <1>1 DEF node, snap
  <1>4. \A i \in {o.inbound} \ {0} : KnownInbound(i)
    <2>1. o.inbound \in {0} \union Inbounds
      BY RequestedOp DEF Op
    <2>2. o.inbound # 0 => inbounds[o.inbound] # None
      BY DEF Start
    <2>3. QED
      BY <2>1, <2>2 DEF EInv, InboundsOK
  <1>5. \A p \in Procs :
          heldInbounds'[p] = IF p = r THEN {o.inbound} \ {0} ELSE heldInbounds[p]
    BY <1>1 DEF DInv, HeldT
  <1>6. InboundsOK'
    BY <1>1, <1>3, <1>4, <1>5 DEF EInv, InboundsOK, KnownInbound
  <1>7. r \in Procs /\ pc'[r] = "call" /\ op'[r] = o /\ heldClients'[r] = o.on
    BY <1>1 DEF DInv, RunT, HeldT, Procs
  <1>8. Owns(r)'
    BY <1>5, <1>7 DEF Owns
  <1>9. ASSUME NEW q \in Requests \ {r} PROVE Owns(q)'
    <2>1. q \in Procs /\ Owns(q) /\ heldInbounds[q] \subseteq Inbounds
      BY DEF Procs, EInv, OwnsOK, DInv, HeldT
    <2>2. /\ pc'[q] = pc[q] /\ op'[q] = op[q] /\ answer'[q] = answer[q]
          /\ heldClients'[q] = heldClients[q]
          /\ heldInbounds'[q] = heldInbounds[q]
      BY <1>1, <1>5, <2>1 DEF DInv, RunT, HeldT
    <2>3. QED
      BY <1>2, <2>1, <2>2, OwnsStay
  <1>10. QED
    BY <1>2, <1>6, <1>8, <1>9 DEF EInv, OwnsOK

LEMMA EInvAnswers ==
  ASSUME DInv, DInv', EInv, NEW r \in Requests, Answers(r), NodeActs
  PROVE  EInv'
  <1>1. LinksOK' /\ KeepsInbounds
    BY LinksStay DEF DInv, EInv
  <1>2. PICK C, I :
          /\ pc[r] = "call" /\ Answered(r, C, I) /\ True(C, I)
          /\ op[r].kind = "deleteInbound" => ~ LiveInbound(op[r].inbound)'
    BY DEF Answers
  <1>3. /\ UNCHANGED <<cache, snap, op>> /\ pc' = [pc EXCEPT ![r] = "cache"]
        /\ answer' = [answer EXCEPT ![r] = [clients |-> C, inbounds |-> I]]
    BY <1>2 DEF Answered, Goto
  <1>4. \A p \in Procs : heldInbounds[p] \subseteq Inbounds
    BY DEF DInv, HeldT
  <1>5. InboundsOK'
    BY <1>1, <1>3, <1>4, InboundsStay DEF EInv, cache
  <1>6. Owns(r)'
    <2>1. r \in Procs /\ Owns(r) /\ heldInbounds[r] \subseteq Inbounds
      BY DEF Procs, EInv, OwnsOK, DInv, HeldT
    <2>2. /\ pc'[r] = "cache" /\ answer'[r].inbounds = I
          /\ UNCHANGED <<op, heldClients, heldInbounds>>
      BY <1>3, <2>1 DEF DInv, RunT, cache
    <2>3. heldClients[r] \subseteq op[r].on
          /\ heldInbounds[r] \subseteq {op[r].inbound}
      BY <1>2, <2>1 DEF Owns
    <2>4. ASSUME op[r].kind = "deleteInbound", NEW i \in heldInbounds[r]
          PROVE  nodeInbounds'[i] = Gone
      <3>1. i = op[r].inbound /\ i \in Inbounds
        BY <2>1, <2>3
      <3>2. op'[r].inbound = i
        BY <2>2, <3>1
      <3>3. ~ (nodeInbounds'[i] \in Switch)
        BY <1>2, <2>4, <3>1, <3>2 DEF LiveInbound
      <3>4. nodeInbounds'[i] # None
        BY <1>1, <2>1, <3>1 DEF KeepsInbounds, EInv, InboundsOK, KnownInbound
      <3>5. nodeInbounds'[i] \in Switch \union {None, Gone}
        BY <3>1 DEF DInv, NodeT
      <3>6. QED
        BY <3>3, <3>4, <3>5
    <2>5. \A i \in Inbounds : I[i] # None => KnownInbound(i)'
      BY <1>2 DEF True, KnownInbound
    <2>6. QED
      BY <2>2, <2>3, <2>4, <2>5 DEF Owns
  <1>7. ASSUME NEW q \in Requests \ {r} PROVE Owns(q)'
    <2>1. q \in Procs /\ Owns(q) /\ heldInbounds[q] \subseteq Inbounds
      BY DEF Procs, EInv, OwnsOK, DInv, HeldT
    <2>2. /\ pc'[q] = pc[q] /\ op'[q] = op[q] /\ answer'[q] = answer[q]
          /\ heldClients'[q] = heldClients[q]
          /\ heldInbounds'[q] = heldInbounds[q]
      BY <1>3, <2>1 DEF DInv, RunT, cache
    <2>3. QED
      BY <1>1, <2>1, <2>2, OwnsStay
  <1>8. QED
    BY <1>1, <1>5, <1>6, <1>7 DEF EInv, OwnsOK

LEMMA EInvEnds ==
  ASSUME DInv, EInv, NEW r \in Requests, Ends(r)
  PROVE  EInv'
  <1>1. LinksOK' /\ KeepsInbounds
    BY SameActs, LinksStay DEF DInv, EInv, Ends
  <1>2. UNCHANGED <<node, snap>> /\ \E C, I : EndRequest(r, C, I)
    BY DEF Ends
  <1>3. r \in Procs
    BY DEF Procs
  <1>4. /\ pc' = [pc EXCEPT ![r] = "idle"] /\ op' = [op EXCEPT ![r] = None]
        /\ answer' = [answer EXCEPT ![r] = None]
        /\ \A q \in Requests : heldClients'[q] \subseteq heldClients[q]
        /\ \A p \in Procs : heldInbounds'[p] \subseteq heldInbounds[p]
    BY <1>2 DEF EndRequest, Goto
  <1>5. \A i \in Inbounds :
          inbounds'[i] \in {inbounds[i], None} \/ nodeInbounds[i] # None
    <2>1. \A i \in Inbounds :
            pc[r] = "cache" /\ answer[r].inbounds[i] # None => KnownInbound(i)
      BY DEF EInv, OwnsOK, Owns
    <2>2. QED
      BY <2>1 DEF Ends, KnownInbound
  <1>6. \A p \in Procs : heldInbounds[p] \subseteq Inbounds
    BY DEF DInv, HeldT
  <1>7. InboundsOK'
    BY <1>1, <1>2, <1>4, <1>5, <1>6, InboundsStay DEF EInv
  <1>8. Owns(r)'
    BY <1>3, <1>4 DEF Owns, DInv, RunT
  <1>9. ASSUME NEW q \in Requests \ {r} PROVE Owns(q)'
    <2>1. q \in Procs /\ Owns(q) /\ heldInbounds[q] \subseteq Inbounds
      BY DEF Procs, EInv, OwnsOK, DInv, HeldT
    <2>2. pc'[q] = pc[q] /\ op'[q] = op[q] /\ answer'[q] = answer[q]
      BY <1>4, <2>1 DEF DInv, RunT
    <2>3. QED
      BY <1>1, <1>4, <2>1, <2>2, OwnsStay
  <1>10. QED
    BY <1>1, <1>7, <1>8, <1>9 DEF EInv, OwnsOK

LEMMA EInvSame == ASSUME EInv, UNCHANGED vars PROVE EInv'
  BY DEF EInv, LinksOK, InboundsOK, OwnsOK, Owns, KnownInbound, LiveClient,
         LiveInbound, vars, node, cache, snap

\* What a step does to what is known of the node.
LEMMA StepMoves ==
  ASSUME DInv, EInv, [Next]_vars
  PROVE  \/ NodeEdit
         \/ \E y \in Syncers : SyncMoves(y)
         \/ \E r \in Requests, o \in Requested : Start(r, o)
         \/ \E r \in Requests : Answers(r) /\ NodeActs
         \/ \E r \in Requests : Ends(r)
         \/ UNCHANGED vars
  <1>1. ASSUME NEW y \in Syncers,
               Sync(y) \/ AskInbounds(y) \/ AskClients(y) \/ AskFails(y)
        PROVE  SyncMoves(y)
    BY <1>1, SyncerMoves DEF EInv
  <1>2. ASSUME NEW r \in Requests, Operate(r)
        PROVE  \/ \E o \in Requested : Start(r, o)
               \/ Answers(r) /\ NodeActs
               \/ Ends(r)
    BY <1>2, RequestMoves DEF EInv
  <1>3. QED
    BY <1>1, <1>2, Zenon DEF Next

LEMMA EInvStep ==
  ASSUME DInv, DInv', EInv, [Next]_vars
  PROVE  EInv'
  BY StepMoves, EInvEdit, EInvSync, EInvStart, EInvAnswers, EInvEnds, EInvSame,
     Zenon

LEMMA EInvInit == Init => EInv
  <1> SUFFICES ASSUME Init PROVE EInv
    OBVIOUS
  <1>1. 1 \in Inbounds /\ "on" \in Switch
    BY DEF Inbounds, Switch
  <1>2. nodeInbounds[1] = "on"
    BY <1>1 DEF Init
  <1>3. ASSUME NEW c \in Clients, LiveClient(c)
        PROVE  nodeClients[c].inbound = 1
    <2>1. c = 1
      BY <1>3 DEF Init, LiveClient, NoClients
    <2>2. nodeClients[c] = [name |-> CHOOSE n \in Names : TRUE, inbound |-> 1,
                            status |-> "active"]
      BY <2>1 DEF Init, NoClients
    <2>3. QED
      BY <2>2
  <1>4. LinksOK
    BY <1>1, <1>2, <1>3 DEF LinksOK, LiveInbound
  <1>5. InboundsOK
    BY NoneIsTrue DEF Init, InboundsOK
  <1>6. OwnsOK
    BY DEF Init, OwnsOK, Owns, Procs
  <1>7. QED
    BY <1>4, <1>5, <1>6 DEF EInv

LEMMA AlwaysEInv == Spec => [](DInv /\ EInv)
  <1>1. Init => DInv /\ EInv
    BY DInvInit, EInvInit
  <1>2. DInv /\ EInv /\ [Next]_vars => (DInv /\ EInv)'
    BY DInvStep, EInvStep
  <1>3. QED
    BY <1>1, <1>2, PTL DEF Spec

-----------------------------------------------------------------------------
(* Once the node is left alone, its rows settle in the cache.              *)

\* A snapshot or an answer on its way says something else than the node.
StaleInbound(i) ==
  \/ \E y \in Syncers : snapInbounds[y][i] \notin {None, nodeInbounds[i]}
  \/ \E r \in Requests :
       pc[r] = "cache" /\ answer[r].inbounds[i] \notin {None, nodeInbounds[i]}

StaleClient(c) ==
  \/ \E y \in Syncers : snapClients[y][c] \notin {None, nodeClients[c]}
  \/ \E r \in Requests :
       pc[r] = "cache" /\ answer[r].clients[c] \notin {None, nodeClients[c]}

\* Cached as it is, and nothing on its way says otherwise.
SettledInbound(i) ==
  LiveInbound(i) /\ inbounds[i] = nodeInbounds[i] /\ ~ StaleInbound(i)

SettledClient(c) ==
  LiveClient(c) /\ clients[c] = nodeClients[c] /\ ~ StaleClient(c)

InboundSettles(i) ==
  /\ StaleInbound(i)' => StaleInbound(i)
  /\ SettledInbound(i) => SettledInbound(i)'

ClientSettles(c) ==
  /\ StaleClient(c)' => StaleClient(c)
  /\ SettledClient(c) => SettledClient(c)'

\* A step that leaves the node's rows as they are.
Settling ==
  UNCHANGED <<nodeInbounds, nodeClients>> =>
    /\ \A i \in Inbounds : InboundSettles(i)
    /\ \A c \in Clients : ClientSettles(c)

\* Nothing stale comes up, and the cache changes only by what is on its way.
LEMMA InboundSettlesIntro ==
  ASSUME NEW i \in Inbounds, UNCHANGED nodeInbounds,
         StaleInbound(i)' => StaleInbound(i),
         SettledInbound(i) => inbounds'[i] = inbounds[i]
  PROVE  InboundSettles(i)
  BY DEF InboundSettles, SettledInbound, LiveInbound

LEMMA ClientSettlesIntro ==
  ASSUME NEW c \in Clients, UNCHANGED nodeClients,
         StaleClient(c)' => StaleClient(c),
         SettledClient(c) => clients'[c] = clients[c]
  PROVE  ClientSettles(c)
  BY DEF ClientSettles, SettledClient, LiveClient

LEMMA SyncSettles ==
  ASSUME NEW y \in Syncers, SyncMoves(y)
  PROVE  Settling
  <1>1. UNCHANGED <<nodeInbounds, nodeClients, answer>>
        /\ \A q \in Requests : pc'[q] = pc[q]
    BY DEF SyncMoves, node
  <1>2. ASSUME NEW i \in Inbounds PROVE InboundSettles(i)
    <2>1. StaleInbound(i)' => StaleInbound(i)
      BY <1>1 DEF SyncMoves, StaleInbound
    <2>2. SettledInbound(i) => inbounds'[i] = inbounds[i]
      BY DEF SyncMoves, SettledInbound, StaleInbound
    <2>3. QED
      BY <1>1, <2>1, <2>2, InboundSettlesIntro
  <1>3. ASSUME NEW c \in Clients PROVE ClientSettles(c)
    <2>1. StaleClient(c)' => StaleClient(c)
      BY <1>1 DEF SyncMoves, StaleClient
    <2>2. SettledClient(c) => clients'[c] = clients[c]
      BY DEF SyncMoves, SettledClient, StaleClient
    <2>3. QED
      BY <1>1, <2>1, <2>2, ClientSettlesIntro
  <1>4. QED
    BY <1>2, <1>3 DEF Settling

LEMMA StartSettles ==
  ASSUME RunT, NEW r \in Requests, NEW o \in Requested, Start(r, o)
  PROVE  Settling
  <1>1. UNCHANGED <<nodeInbounds, nodeClients, inbounds, clients, snapInbounds,
                    snapClients, answer>>
    BY DEF Start, node, snap
  <1>2. \A q \in Requests : pc'[q] = "cache" => pc[q] = "cache"
    BY DEF Start, Goto, RunT, Procs
  <1>3. \A i \in Inbounds : StaleInbound(i)' => StaleInbound(i)
    BY <1>1, <1>2 DEF StaleInbound
  <1>4. \A c \in Clients : StaleClient(c)' => StaleClient(c)
    BY <1>1, <1>2 DEF StaleClient
  <1>5. QED
    BY <1>1, <1>3, <1>4, InboundSettlesIntro, ClientSettlesIntro DEF Settling

LEMMA AnswerSettles ==
  ASSUME RunT, NEW r \in Requests, Answers(r),
         UNCHANGED <<nodeInbounds, nodeClients>>
  PROVE  Settling
  <1>1. PICK C, I : Answered(r, C, I) /\ True(C, I)
    BY DEF Answers
  <1>2. UNCHANGED <<inbounds, clients, snapInbounds, snapClients>>
    BY <1>1 DEF Answered, cache, snap
  <1>3. r \in Procs /\ answer'[r] = [clients |-> C, inbounds |-> I]
    BY <1>1 DEF Answered, RunT, Procs
  <1>4. \A q \in Requests \ {r} : pc'[q] = pc[q] /\ answer'[q] = answer[q]
    BY <1>1 DEF Answered, Goto, RunT, Procs
  <1>5. \A i \in Inbounds : answer'[r].inbounds[i] \in {None, nodeInbounds'[i]}
    BY <1>1, <1>3 DEF True
  <1>6. \A c \in Clients : answer'[r].clients[c] \in {None, nodeClients'[c]}
    BY <1>1, <1>3 DEF True
  <1>7. \A i \in Inbounds : StaleInbound(i)' => StaleInbound(i)
    BY <1>2, <1>4, <1>5 DEF StaleInbound
  <1>8. \A c \in Clients : StaleClient(c)' => StaleClient(c)
    BY <1>2, <1>4, <1>6 DEF StaleClient
  <1>9. QED
    BY <1>2, <1>7, <1>8, InboundSettlesIntro, ClientSettlesIntro DEF Settling

\* A row that gets its own status is the same row.
LEMMA StatusIsSame ==
  ASSUME NEW row \in Row
  PROVE  [row EXCEPT !.status = row.status] = row
  BY DEF Row

LEMMA EndSettles ==
  ASSUME NodeT, RunT, LinksOK, NEW r \in Requests, Ends(r)
  PROVE  Settling
  <1>1. /\ UNCHANGED <<nodeInbounds, nodeClients, snapInbounds, snapClients>>
        /\ \E C, I : EndRequest(r, C, I)
    BY DEF Ends, node, snap
  <1>2. r \in Procs /\ pc' = [pc EXCEPT ![r] = "idle"]
        /\ answer' = [answer EXCEPT ![r] = None]
    BY <1>1 DEF EndRequest, Goto, Procs
  <1>3. \A q \in Requests : pc'[q] = "cache" =>
          pc[q] = "cache" /\ answer'[q] = answer[q]
    BY <1>2 DEF RunT, Procs
  <1>4. ASSUME NEW i \in Inbounds PROVE InboundSettles(i)
    <2>1. StaleInbound(i)' => StaleInbound(i)
      BY <1>1, <1>3 DEF StaleInbound
    <2>2. ASSUME SettledInbound(i) PROVE inbounds'[i] = inbounds[i]
      <3>1. nodeInbounds[i] # Gone /\ inbounds[i] = nodeInbounds[i]
        BY <2>2 DEF SettledInbound, LiveInbound
      <3>2. pc[r] = "cache" => answer[r].inbounds[i] \in {None, nodeInbounds[i]}
        BY <2>2 DEF SettledInbound, StaleInbound
      <3>3. QED
        BY <3>1, <3>2 DEF Ends
    <2>3. QED
      BY <1>1, <2>1, <2>2, InboundSettlesIntro
  <1>5. ASSUME NEW c \in Clients PROVE ClientSettles(c)
    <2>1. StaleClient(c)' => StaleClient(c)
      BY <1>1, <1>3 DEF StaleClient
    <2>2. ASSUME SettledClient(c) PROVE clients'[c] = clients[c]
      <3>1. LiveClient(c) /\ clients[c] = nodeClients[c] /\ nodeClients[c] \in Row
        BY <2>2 DEF SettledClient, LiveClient, NodeT
      <3>2. pc[r] = "cache" => answer[r].clients[c] \in {None, nodeClients[c]}
        BY <2>2 DEF SettledClient, StaleClient
      <3>3. nodeInbounds[clients[c].inbound] # Gone
        BY <3>1 DEF LinksOK, LiveInbound
      <3>4. [clients[c] EXCEPT !.status = nodeClients[c].status] = clients[c]
        BY <3>1, StatusIsSame
      <3>5. QED
        BY <3>1, <3>2, <3>3, <3>4 DEF Ends
    <2>3. QED
      BY <1>1, <2>1, <2>2, ClientSettlesIntro
  <1>6. QED
    BY <1>4, <1>5 DEF Settling

LEMMA RestSettles ==
  ASSUME NodeEdit \/ UNCHANGED vars
  PROVE  Settling
  <1> SUFFICES ASSUME UNCHANGED <<nodeInbounds, nodeClients>> PROVE Settling
    BY DEF Settling
  <1>1. UNCHANGED <<inbounds, clients, snapInbounds, snapClients, pc, answer>>
    BY DEF NodeEdit, vars, cache, snap
  <1>2. \A i \in Inbounds : StaleInbound(i)' => StaleInbound(i)
    BY <1>1 DEF StaleInbound
  <1>3. \A c \in Clients : StaleClient(c)' => StaleClient(c)
    BY <1>1 DEF StaleClient
  <1>4. QED
    BY <1>1, <1>2, <1>3, InboundSettlesIntro, ClientSettlesIntro DEF Settling

LEMMA SettlingStep ==
  ASSUME DInv, EInv, [Next]_vars
  PROVE  Settling
  <1>1. NodeT /\ RunT /\ LinksOK
    BY DEF DInv, EInv
  <1>2. ASSUME NEW r \in Requests, Answers(r) PROVE Settling
    <2>1. SUFFICES ASSUME UNCHANGED <<nodeInbounds, nodeClients>>
                   PROVE  Settling
      BY DEF Settling
    <2>2. QED
      BY <1>1, <1>2, <2>1, AnswerSettles
  <1>3. QED
    BY <1>1, <1>2, StepMoves, RestSettles, SyncSettles, StartSettles, EndSettles,
       Zenon

(* What holds of the cache of a node that is left alone, of which Converges *)
(* is the end: no step makes a snapshot or an answer on its way stale, and *)
(* a live row that is cached as it is, while nothing on its way says       *)
(* otherwise, stays so (service.go:134-204).  A Sync that fails, a lost    *)
(* answer, a batch or a cascade of cached clients undoes none of it.       *)
THEOREM CacheSettles == Spec => [][Settling]_vars
  <1>1. DInv /\ EInv /\ [Next]_vars => [Settling]_vars
    BY SettlingStep
  <1>2. QED
    BY <1>1, AlwaysEInv, PTL DEF Spec

=============================================================================
