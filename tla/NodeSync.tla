------------------------------ MODULE NodeSync ------------------------------
(***************************************************************************)
(* The master panel's cache of the inbounds and clients of one remote      *)
(* panel, a node (internal/services/node/service.go over the UpsertRemote, *)
(* Delete and batch statements of repo/sqlite), with the node API that     *)
(* serves it (internal/transport/handler/node_handler.go).                 *)
(*                                                                         *)
(* Sync asks for a snapshot and upserts its rows one statement at a time,  *)
(* giving up at the first that fails.  Every other operation finds the     *)
(* cached row, calls the node, and then changes the cache by the answer.   *)
(* Nothing orders the two, the node has its own administrator, and a call  *)
(* may fail before or after the node has acted on it.                      *)
(*                                                                         *)
(* Row ids are AUTOINCREMENT on both sides: a row deleted and cached again *)
(* is another row.  A process that keeps the id of a cached row therefore  *)
(* "holds" it until it is deleted.  The status column stands for all those *)
(* of a client but its name and inbound, and "on" for those of an inbound. *)
(***************************************************************************)
EXTENDS Naturals, FiniteSets

CONSTANTS
  NClients,    \* bound: client ids of the node
  NInbounds,   \* bound: inbound ids of the node
  Names,       \* client names
  Requests,    \* request goroutines of the master
  Syncers,     \* the sync loop and sync requests
  MaxEdits,    \* bound: changes made to the node
  None,        \* no row: not yet created, or not cached
  Gone         \* a row of the node that was deleted

Clients  == 1 .. NClients
Inbounds == 1 .. NInbounds
Procs    == Requests \union Syncers

Statuses == {"active", "disabled"}
Row      == [name : Names, inbound : Inbounds, status : Statuses]
Switch   == {"on", "off"}

ASSUME ConstantsAssumption ==
  /\ NClients \in Nat /\ NInbounds \in Nat \ {0} /\ MaxEdits \in Nat
  /\ Names # {}
  /\ Requests \intersect Syncers = {}
  /\ None # Gone /\ {None, Gone} \intersect (Row \union Switch) = {}

VARIABLES
  nodeInbounds,  \* the node's inbounds; ids of deleted ones are not reused
  nodeClients,   \* the node's clients
  inbounds,      \* the cached inbounds, by remote id
  clients,       \* the cached clients, by remote id
  pc,            \* where each goroutine is
  op,            \* the operation of each request
  answer,        \* what the node answered to each request
  snapInbounds,  \* the inbounds of a snapshot that are not yet upserted
  snapClients,   \* the clients of a snapshot that are not yet upserted
  heldInbounds,  \* cached inbounds whose local id a goroutine keeps
  heldClients,   \* cached clients whose local id a request keeps
  acked,         \* history: clients whose deletion was reported as done
  edits          \* number of changes made to the node

node   == <<nodeInbounds, nodeClients, edits>>
cache  == <<inbounds, clients, heldInbounds, heldClients>>
snap   == <<snapInbounds, snapClients>>
vars   == <<node, cache, snap, pc, op, answer, acked>>

Kinds == {"create", "update", "delete", "bulkDelete", "bulkStatus",
          "addInbound", "setInbound", "deleteInbound"}

Op == [kind : Kinds, on : SUBSET Clients, inbound : {0} \union Inbounds]

\* The rows returned, Gone for those the node has deleted.
Answer == [clients  : [Clients -> Row \union {None, Gone}],
           inbounds : [Inbounds -> Switch \union {None}]]

TypeOK ==
  /\ nodeInbounds \in [Inbounds -> Switch \union {None, Gone}]
  /\ nodeClients \in [Clients -> Row \union {None, Gone}]
  /\ inbounds \in [Inbounds -> Switch \union {None}]
  /\ clients \in [Clients -> Row \union {None}]
  /\ pc \in [Procs -> {"idle", "ask", "ask2", "rows", "call", "cache"}]
  /\ op \in [Requests -> Op \union {None}]
  /\ answer \in [Requests -> Answer \union {None}]
  /\ snapInbounds \in [Syncers -> [Inbounds -> Switch \union {None}]]
  /\ snapClients \in [Syncers -> [Clients -> Row \union {None}]]
  /\ heldInbounds \in [Procs -> SUBSET Inbounds]
  /\ heldClients \in [Requests -> SUBSET Clients]
  /\ acked \subseteq Clients
  /\ edits \in 0 .. MaxEdits

NoInbounds == [i \in Inbounds |-> None]
NoClients  == [c \in Clients |-> None]

\* A node with an inbound and a client, and a master that has seen neither.
Init ==
  /\ nodeInbounds = [i \in Inbounds |-> IF i = 1 THEN "on" ELSE None]
  /\ nodeClients = [NoClients EXCEPT ![1] =
       [name |-> CHOOSE n \in Names : TRUE, inbound |-> 1, status |-> "active"]]
  /\ inbounds = NoInbounds
  /\ clients = NoClients
  /\ pc = [p \in Procs |-> "idle"]
  /\ op = [r \in Requests |-> None]
  /\ answer = [r \in Requests |-> None]
  /\ snapInbounds = [y \in Syncers |-> NoInbounds]
  /\ snapClients = [y \in Syncers |-> NoClients]
  /\ heldInbounds = [p \in Procs |-> {}]
  /\ heldClients = [r \in Requests |-> {}]
  /\ acked = {}
  /\ edits = 0

Goto(p, l) == pc' = [pc EXCEPT ![p] = l]
Edit       == edits < MaxEdits /\ edits' = edits + 1

-----------------------------------------------------------------------------
(* The node: its own services behind the node API and its own panel.       *)

LiveInbound(i) == nodeInbounds[i] \in Switch
LiveClient(c)  == nodeClients[c] \notin {None, Gone}

\* The unique index on the names of the node's clients.
NameFree(n, c) ==
  \A d \in Clients \ {c} : LiveClient(d) => nodeClients[d].name # n

NextId(table, x) == table[x] = None /\ \A y \in 1 .. x - 1 : table[y] # None

\* clients.Create: an active client of an inbound that exists.
NodeCreate(c, n, i) ==
  /\ Edit
  /\ NextId(nodeClients, c) /\ LiveInbound(i) /\ NameFree(n, c)
  /\ nodeClients' = [nodeClients EXCEPT ![c] =
                       [name |-> n, inbound |-> i, status |-> "active"]]
  /\ UNCHANGED nodeInbounds

\* clients.Update, SetStatus or ResetTraffic of one client.
NodeUpdate(c, row) ==
  /\ Edit
  /\ LiveClient(c) /\ nodeClients[c] # row
  /\ LiveInbound(row.inbound) /\ NameFree(row.name, c)
  /\ nodeClients' = [nodeClients EXCEPT ![c] = row]
  /\ UNCHANGED nodeInbounds

NodeDelete(C) ==
  /\ Edit
  /\ nodeClients' = [c \in Clients |-> IF c \in C THEN Gone
                                                  ELSE nodeClients[c]]
  /\ UNCHANGED nodeInbounds

\* Bulk status, which takes "active" and "disabled" only.
NodeSetStatus(C, s) ==
  /\ Edit
  /\ nodeClients' = [c \in Clients |->
       IF c \in C THEN [nodeClients[c] EXCEPT !.status = s]
                  ELSE nodeClients[c]]
  /\ UNCHANGED nodeInbounds

\* inbounds.Create, and Update or Toggle of one inbound.
NodeSetInbound(i, s) ==
  /\ Edit
  /\ NextId(nodeInbounds, i) \/ LiveInbound(i)
  /\ nodeInbounds' = [nodeInbounds EXCEPT ![i] = s]
  /\ UNCHANGED nodeClients

\* inbounds.Delete; the clients go with it (ON DELETE CASCADE).
NodeDeleteInbound(i) ==
  /\ Edit
  /\ LiveInbound(i)
  /\ nodeInbounds' = [nodeInbounds EXCEPT ![i] = Gone]
  /\ nodeClients' = [c \in Clients |->
       IF LiveClient(c) /\ nodeClients[c].inbound = i THEN Gone
                                                     ELSE nodeClients[c]]

\* The administrator of the node.
NodeEdit ==
  /\ \/ \E c \in Clients, n \in Names, i \in Inbounds : NodeCreate(c, n, i)
     \/ \E c \in Clients, row \in Row : NodeUpdate(c, row)
     \/ \E c \in Clients : LiveClient(c) /\ NodeDelete({c})
     \/ \E i \in Inbounds : NodeDeleteInbound(i)
     \/ \E i \in Inbounds, s \in Switch :
          nodeInbounds[i] # s /\ NodeSetInbound(i, s)
  /\ UNCHANGED <<cache, snap, pc, op, answer, acked>>

-----------------------------------------------------------------------------
(* The cache.                                                              *)

\* The foreign key and the unique index on the names of a node's clients.
Fits(c, row) ==
  /\ inbounds[row.inbound] # None
  /\ \A d \in Clients \ {c} : clients[d] # None => clients[d].name # row.name

\* Mutant of Upserted: an UPDATE, which writes only rows that are there.
UpdatedOnly(table, x, row) ==
  IF table[x] # None THEN [table EXCEPT ![x] = row] ELSE table

\* INSERT ... ON CONFLICT (node_id, remote_id) DO UPDATE.
Upserted(table, x, row) == [table EXCEPT ![x] = row]

\* DELETE of cached clients: whoever held the rows holds nothing.
Without(C) == [c \in Clients |-> IF c \in C THEN None ELSE clients[c]]

\* The end of a request that has deleted the cached rows C and I.
EndRequest(r, C, I) ==
  /\ Goto(r, "idle")
  /\ op' = [op EXCEPT ![r] = None]
  /\ answer' = [answer EXCEPT ![r] = None]
  /\ heldClients' = [q \in Requests |-> IF q = r THEN {}
                                                 ELSE heldClients[q] \ C]
  /\ heldInbounds' = [p \in Procs |-> IF p = r THEN {}
                                              ELSE heldInbounds[p] \ I]

-----------------------------------------------------------------------------
(* Sync.                                                                   *)

\* The ticker, or a request to sync.
Tick(y) ==
  /\ pc[y] = "idle"
  /\ Goto(y, "ask")
  /\ UNCHANGED <<node, cache, snap, op, answer, acked>>

\* The node lists its inbounds and then its clients.
AskInbounds(y) ==
  /\ pc[y] = "ask"
  /\ snapInbounds' = [snapInbounds EXCEPT ![y] =
       [i \in Inbounds |-> IF LiveInbound(i) THEN nodeInbounds[i] ELSE None]]
  /\ Goto(y, "ask2")
  /\ UNCHANGED <<node, cache, snapClients, op, answer, acked>>

\* Sync skips a client whose inbound is not in the snapshot.
AskClients(y) ==
  /\ pc[y] = "ask2"
  /\ snapClients' = [snapClients EXCEPT ![y] =
       [c \in Clients |->
          IF LiveClient(c) /\ snapInbounds[y][nodeClients[c].inbound] # None
            THEN nodeClients[c] ELSE None]]
  /\ Goto(y, "rows")
  /\ UNCHANGED <<node, cache, snapInbounds, op, answer, acked>>

\* What a Sync that ends leaves behind.
EndSync(y) ==
  /\ Goto(y, "idle")
  /\ snapInbounds' = [snapInbounds EXCEPT ![y] = NoInbounds]
  /\ snapClients' = [snapClients EXCEPT ![y] = NoClients]
  /\ heldInbounds' = [heldInbounds EXCEPT ![y] = {}]

\* The node cannot be reached or times out.
AskFails(y) ==
  /\ pc[y] \in {"ask", "ask2"}
  /\ EndSync(y)
  /\ UNCHANGED <<node, inbounds, clients, heldClients, op, answer, acked>>

\* The node lists its rows by descending id.
NextOf(table, x) ==
  table[x] # None /\ \A y \in DOMAIN table : y > x => table[y] = None

UpsertInbound(y, i) ==
  /\ pc[y] = "rows"
  /\ NextOf(snapInbounds[y], i)
  /\ inbounds' = Upserted(inbounds, i, snapInbounds[y][i])
  /\ snapInbounds' = [snapInbounds EXCEPT ![y][i] = None]
  /\ heldInbounds' = [heldInbounds EXCEPT ![y] = @ \union {i}]
  /\ UNCHANGED <<node, clients, heldClients, snapClients, pc, op, answer,
                 acked>>

\* Sync puts the client under the local id it keeps of the inbound.
UpsertClient(y, c) ==
  /\ pc[y] = "rows"
  /\ snapInbounds[y] = NoInbounds
  /\ NextOf(snapClients[y], c)
  /\ LET row == snapClients[y][c] IN
       /\ row.inbound \in heldInbounds[y] /\ Fits(c, row)
       /\ clients' = Upserted(clients, c, row)
  /\ snapClients' = [snapClients EXCEPT ![y][c] = None]
  /\ UNCHANGED <<node, inbounds, heldInbounds, heldClients, snapInbounds, pc,
                 op, answer, acked>>

\* Sync returns at the first row the database refuses.
UpsertFails(y, c) ==
  /\ pc[y] = "rows"
  /\ snapInbounds[y] = NoInbounds
  /\ NextOf(snapClients[y], c)
  /\ LET row == snapClients[y][c]
     IN  row.inbound \notin heldInbounds[y] \/ ~ Fits(c, row)
  /\ EndSync(y)
  /\ UNCHANGED <<node, inbounds, clients, heldClients, op, answer, acked>>

Synced(y) ==
  /\ pc[y] = "rows"
  /\ snapInbounds[y] = NoInbounds /\ snapClients[y] = NoClients
  /\ EndSync(y)
  /\ UNCHANGED <<node, inbounds, clients, heldClients, op, answer, acked>>

-----------------------------------------------------------------------------
(* The operations of the master on the node's rows.                        *)

\* A request reads the cached rows it is about and keeps their local ids.
Start(r, o) ==
  /\ pc[r] = "idle"
  /\ \A c \in o.on : clients[c] # None
  /\ o.inbound # 0 => inbounds[o.inbound] # None
  /\ op' = [op EXCEPT ![r] = o]
  /\ heldClients' = [heldClients EXCEPT ![r] = o.on]
  /\ heldInbounds' = [heldInbounds EXCEPT ![r] = {o.inbound} \ {0}]
  /\ Goto(r, "call")
  /\ UNCHANGED <<node, inbounds, clients, snap, answer, acked>>

Requested ==
  [kind : {"create", "setInbound", "deleteInbound"}, on : {{}},
   inbound : Inbounds]
  \union [kind : {"addInbound"}, on : {{}}, inbound : {0}]
  \union [kind : {"update", "delete"}, on : {{c} : c \in Clients},
          inbound : {0}]
  \union [kind : {"bulkDelete", "bulkStatus"},
          on : SUBSET Clients \ {{}}, inbound : {0}]

\* The node has acted and the answer is on its way.
Answered(r, C, I) ==
  /\ answer' = [answer EXCEPT ![r] = [clients |-> C, inbounds |-> I]]
  /\ Goto(r, "cache")
  /\ UNCHANGED <<cache, snap, op, acked>>

Calling(r, kinds) == pc[r] = "call" /\ op[r].kind \in kinds

Rows(C, table) == [c \in Clients |-> IF c \in C THEN table[c] ELSE None]

CallCreate(r) ==
  /\ Calling(r, {"create"})
  /\ \E c \in Clients, n \in Names :
       /\ NodeCreate(c, n, op[r].inbound)
       /\ Answered(r, Rows({c}, nodeClients'), NoInbounds)

CallUpdate(r) ==
  /\ Calling(r, {"update"})
  /\ \E c \in op[r].on, row \in Row :
       /\ NodeUpdate(c, row)
       /\ Answered(r, Rows({c}, nodeClients'), NoInbounds)

\* A node that does not know the client answers 404.
CallDelete(r) ==
  /\ Calling(r, {"delete"})
  /\ \A c \in op[r].on :
       IF LiveClient(c) THEN NodeDelete({c}) ELSE UNCHANGED node
  /\ Answered(r, Rows(op[r].on, [c \in Clients |-> Gone]), NoInbounds)

\* A batch has an answer for each client; it fails for those that are gone.
CallBulk(r) ==
  LET found == {c \in op[r].on : LiveClient(c)} IN
  /\ Calling(r, {"bulkDelete", "bulkStatus"})
  /\ found # {}
  /\ IF op[r].kind = "bulkDelete"
       THEN NodeDelete(found)
       ELSE \E s \in Statuses : NodeSetStatus(found, s)
  /\ Answered(r, Rows(found, nodeClients'), NoInbounds)

CallInbound(r) ==
  /\ Calling(r, {"addInbound", "setInbound"})
  /\ \E i \in Inbounds, s \in Switch :
       /\ IF op[r].kind = "addInbound"
            THEN nodeInbounds[i] = None
            ELSE i = op[r].inbound /\ LiveInbound(i)
       /\ NodeSetInbound(i, s)
       /\ Answered(r, NoClients, [NoInbounds EXCEPT ![i] = s])

CallDeleteInbound(r) ==
  /\ Calling(r, {"deleteInbound"})
  /\ IF LiveInbound(op[r].inbound) THEN NodeDeleteInbound(op[r].inbound)
                                    ELSE UNCHANGED node
  /\ Answered(r, NoClients, NoInbounds)

\* The node cannot be reached, refuses, or does not know the row.
CallFails(r) ==
  /\ pc[r] = "call"
  /\ EndRequest(r, {}, {})
  /\ UNCHANGED <<node, inbounds, clients, snap, acked>>

\* The node has acted but its answer is lost.
AnswerLost(r) ==
  /\ pc[r] = "cache"
  /\ EndRequest(r, {}, {})
  /\ UNCHANGED <<node, inbounds, clients, snap, acked>>

Caching(r, kinds) == pc[r] = "cache" /\ op[r].kind \in kinds

Returned(r) == {c \in Clients : answer[r].clients[c] # None}

\* cacheRemoteClient of a row that the cache takes ...
CacheClient(r) ==
  /\ Caching(r, {"create", "update"})
  /\ \E c \in Returned(r) :
       /\ Fits(c, answer[r].clients[c])
       /\ clients' = Upserted(clients, c, answer[r].clients[c])
  /\ EndRequest(r, {}, {})
  /\ UNCHANGED <<node, inbounds, snap, acked>>

\* ... and of one that it does not: the request fails.
CacheRefuses(r) ==
  /\ Caching(r, {"create", "update"})
  /\ \E c \in Returned(r) : ~ Fits(c, answer[r].clients[c])
  /\ EndRequest(r, {}, {})
  /\ UNCHANGED <<node, inbounds, clients, snap, acked>>

\* Mutant of CacheDelete: every error of the node drops the cached row.
CacheDeleteAnyway(r) ==
  /\ pc[r] \in {"call", "cache"} /\ op[r].kind = "delete"
  /\ clients' = Without(heldClients[r])
  /\ acked' = acked \union op[r].on
  /\ EndRequest(r, heldClients[r], {})
  /\ UNCHANGED <<node, inbounds, snap>>

\* DeleteClient drops the cached row.
CacheDelete(r) ==
  /\ Caching(r, {"delete"})
  /\ clients' = Without(heldClients[r])
  /\ acked' = acked \union op[r].on
  /\ EndRequest(r, heldClients[r], {})
  /\ UNCHANGED <<node, inbounds, snap>>

\* A batch writes the cache for the clients the node has succeeded on, in
\* one transaction that fails if one of these rows is no longer there.
CacheBulk(r) ==
  /\ Caching(r, {"bulkDelete", "bulkStatus"})
  /\ Returned(r) \subseteq heldClients[r]
  /\ \/ /\ op[r].kind = "bulkDelete"
        /\ clients' = Without(Returned(r))
        /\ acked' = acked \union Returned(r)
        /\ EndRequest(r, Returned(r), {})
     \/ /\ op[r].kind = "bulkStatus"
        /\ clients' = [c \in Clients |->
             IF c \in Returned(r)
               THEN [clients[c] EXCEPT !.status = answer[r].clients[c].status]
               ELSE clients[c]]
        /\ EndRequest(r, {}, {})
        /\ UNCHANGED acked
  /\ UNCHANGED <<node, inbounds, snap>>

CacheBulkFails(r) ==
  /\ Caching(r, {"bulkDelete", "bulkStatus"})
  /\ ~ Returned(r) \subseteq heldClients[r]
  /\ EndRequest(r, {}, {})
  /\ UNCHANGED <<node, inbounds, clients, snap, acked>>

CacheInbound(r) ==
  /\ Caching(r, {"addInbound", "setInbound"})
  /\ \E i \in Inbounds :
       /\ answer[r].inbounds[i] # None
       /\ inbounds' = Upserted(inbounds, i, answer[r].inbounds[i])
  /\ EndRequest(r, {}, {})
  /\ UNCHANGED <<node, clients, snap, acked>>

\* DeleteInbound drops the cached row, and its clients with it.
CacheDeleteInbound(r) ==
  LET I == heldInbounds[r]
      C == {c \in Clients : clients[c] # None /\ clients[c].inbound \in I}
  IN  /\ Caching(r, {"deleteInbound"})
      /\ inbounds' = [i \in Inbounds |-> IF i \in I THEN None ELSE inbounds[i]]
      /\ clients' = Without(C)
      /\ EndRequest(r, C, I)
      /\ UNCHANGED <<node, snap, acked>>

-----------------------------------------------------------------------------
Sync(y) ==
  \/ Tick(y) \/ Synced(y)
  \/ \E i \in Inbounds : UpsertInbound(y, i)
  \/ \E c \in Clients : UpsertClient(y, c) \/ UpsertFails(y, c)

Operate(r) ==
  \/ \E o \in Requested : Start(r, o)
  \/ CallCreate(r) \/ CallUpdate(r) \/ CallDelete(r) \/ CallBulk(r)
  \/ CallInbound(r) \/ CallDeleteInbound(r)
  \/ CallFails(r) \/ AnswerLost(r)
  \/ CacheClient(r) \/ CacheRefuses(r) \/ CacheDelete(r) \/ CacheBulk(r)
  \/ CacheBulkFails(r) \/ CacheInbound(r) \/ CacheDeleteInbound(r)

Next ==
  \/ NodeEdit
  \/ \E y \in Syncers :
       Sync(y) \/ AskInbounds(y) \/ AskClients(y) \/ AskFails(y)
  \/ \E r \in Requests : Operate(r)

\* The ticker goes on and the node answers a snapshot now and then.
Fairness ==
  \A y \in Syncers : /\ WF_vars(Sync(y))
                     /\ SF_vars(AskInbounds(y)) /\ SF_vars(AskClients(y))

Spec == Init /\ [][Next]_vars
FairSpec == Spec /\ Fairness

-----------------------------------------------------------------------------
(* Properties.                                                             *)

(* A deletion that the master reports as done has been done by the node:   *)
(* whatever is lost, retried or answered 404, in a batch or alone, the     *)
(* client does not live on (service.go:324-337,448-467).  The variables    *)
(* keep their types.                                                       *)
DeletedIsGone == TypeOK /\ \A c \in acked : nodeClients[c] = Gone

\* A row that no Sync can write: its name is that of a cached row which is
\* not on the node any more, or which Sync would only reach later.
Blocked(c) ==
  LiveClient(c) /\ \E d \in Clients \ {c} :
    /\ clients[d] # None /\ clients[d].name = nodeClients[c].name
    /\ d < c \/ ~ LiveClient(d)

(* The cache follows the node: however stale the answers and snapshots are *)
(* that reach it, once the node is left alone each of its rows is cached   *)
(* as it is.  A name conflict makes Sync give up, so it excuses the client *)
(* that has it and those that come later (service.go:134-204).             *)
Converges ==
  <>[] /\ \A i \in Inbounds : LiveInbound(i) => inbounds[i] = nodeInbounds[i]
       /\ \A c \in Clients :
            LiveClient(c) => \/ clients[c] = nodeClients[c]
                            \/ \E b \in c .. NClients : Blocked(b)
=============================================================================
