-------------------------- MODULE TrafficAccounting --------------------------
(***************************************************************************)
(* How traffic becomes usage: the connections of the core, the poll that   *)
(* turns their counters into deltas per client name                        *)
(* (internal/services/stats/clash_user.go), and the accounting tick that   *)
(* charges them to client rows and to the daily rollup                     *)
(* (internal/services/stats/worker.go).                                    *)
(*                                                                         *)
(* Client rows are local or cached from another node; a name is unique     *)
(* among the local rows and among the rows of one node, not in the whole   *)
(* table.  Upload and download counters are treated alike by the code, so  *)
(* one counter stands for both.  `moved`, `forgotten` and `spoiled` are    *)
(* history variables.                                                      *)
(***************************************************************************)
EXTENDS Naturals, FiniteSets, Functions

CONSTANTS
  Locals,     \* ids of local client rows
  Remotes,    \* ids of rows cached from one other node
  Names,      \* client names
  Conns,      \* connection ids
  Faults,     \* what may go wrong: "lookup", "fetch", "list", "add", "reuse"
  MaxMoved,   \* bound: the traffic of one client
  MaxRenames, \* bound: renames of local clients
  MaxEnds,    \* bound: closed connections, restarts, polls with failed lookups
  None        \* no row, no connection, no counter

Rows == Locals \union Remotes
Amounts == 0 .. MaxMoved

ASSUME AccountingAssumption ==
  /\ Locals \subseteq Nat /\ Remotes \subseteq Nat
  /\ Locals \intersect Remotes = {}
  /\ Faults \subseteq {"lookup", "fetch", "list", "add", "reuse"}
  /\ MaxMoved \in Nat /\ MaxRenames \in Nat /\ MaxEnds \in Nat
  /\ \A S \in {Locals, Remotes, Names, Conns} : IsFiniteSet(S)
  /\ None \notin Names \union Rows \union Amounts

VARIABLES
  name,     \* the name column of each client row, or None
  used,     \* the counter of each row
  daily,    \* the daily rollup
  owner,    \* the client each connection belongs to, or None
  bytes,    \* the counter the core reports for each connection
  prev,     \* ClashUserSource.prevConn
  tick,     \* where the accounting loop is
  deltas,   \* account's local: the polled deltas by name
  moved,    \* history: the traffic of each client
  forgotten,\* history: polled counters that failed lookups made polls forget
  spoiled,  \* history: what PolledIsCharged excepts has happened
  renames,  \* number of renames so far
  ends      \* number of those so far

accountingVars == <<name, used, daily, owner, bytes, prev, tick, deltas,
                    moved, forgotten, spoiled, renames, ends>>

NoDeltas  == [n \in Names |-> 0]
NoCounter == [k \in Conns |-> None]

AccountingTypes ==
  /\ name \in [Rows -> Names \union {None}]
  /\ used \in [Rows -> Nat]
  /\ daily \in Nat
  /\ owner \in [Conns -> Locals \union {None}]
  /\ bytes \in [Conns -> Amounts]
  /\ prev \in [Conns -> Amounts \union {None}]
  /\ tick \in {"idle", "list", "rollup"}
  /\ deltas \in [Names -> Nat]
  /\ moved \in [Rows -> Amounts]
  /\ forgotten \in Nat
  /\ spoiled \in BOOLEAN
  /\ renames \in 0 .. MaxRenames
  /\ ends \in 0 .. MaxEnds

\* The two unique indexes of the clients table.
UniqueNames(f) ==
  \A C \in {Locals, Remotes} :
    \A c, d \in C : c # d /\ f[c] = f[d] => f[c] = None

AccountingInit ==
  /\ name \in {f \in [Rows -> Names \union {None}] : UniqueNames(f)}
  /\ used = [c \in Rows |-> 0]
  /\ daily = 0
  /\ owner = NoCounter
  /\ bytes = [k \in Conns |-> 0]
  /\ prev = NoCounter
  /\ tick = "idle"
  /\ deltas = NoDeltas
  /\ moved = [c \in Rows |-> 0]
  /\ forgotten = 0
  /\ spoiled = FALSE
  /\ renames = 0
  /\ ends = 0

-----------------------------------------------------------------------------
(* The core.                                                               *)

\* A new connection; its id may be one that the last poll has seen.
Open(k, c) ==
  /\ owner[k] = None
  /\ prev[k] = None \/ "reuse" \in Faults
  /\ name[c] # None
  /\ owner' = [owner EXCEPT ![k] = c]
  /\ bytes' = [bytes EXCEPT ![k] = 0]
  /\ spoiled' = (spoiled \/ prev[k] # None)
  /\ UNCHANGED <<name, used, daily, prev, tick, deltas, moved, forgotten,
                 renames, ends>>

Transfer(k) ==
  /\ owner[k] # None
  /\ moved[owner[k]] < MaxMoved
  /\ bytes' = [bytes EXCEPT ![k] = @ + 1]
  /\ moved' = [moved EXCEPT ![owner[k]] = @ + 1]
  /\ UNCHANGED <<name, used, daily, owner, prev, tick, deltas, forgotten,
                 spoiled, renames, ends>>

Close(k) ==
  /\ owner[k] # None
  /\ ends < MaxEnds
  /\ ends' = ends + 1
  /\ owner' = [owner EXCEPT ![k] = None]
  /\ UNCHANGED <<name, used, daily, bytes, prev, tick, deltas, moved,
                 forgotten, spoiled, renames>>

-----------------------------------------------------------------------------
(* One tick of the accounting loop.                                        *)

\* A counter that ran backwards is an id used again: charge all of it.
Delta(k) ==
  IF prev[k] # None /\ bytes[k] >= prev[k] THEN bytes[k] - prev[k]
                                          ELSE bytes[k]

\* The connections of clients that nameByID resolves: a lookup that fails
\* is taken for a deleted client.
Resolved(k, failing) ==
  owner[k] # None /\ owner[k] \notin failing /\ name[owner[k]] # None

Polled(failing) ==
  [n \in Names |->
     SumFunctionOnSet([k \in Conns |-> Delta(k)],
                      {k \in Conns : /\ Resolved(k, failing)
                                     /\ name[owner[k]] = n})]

LookupFailures == IF "lookup" \in Faults THEN SUBSET Locals ELSE {{}}

\* What a poll has charged already of connections it does not resolve: their
\* counters leave prevConn, and the next poll will charge them from zero.
Forgotten(failing) ==
  SumFunctionOnSet([k \in Conns |->
                      IF owner[k] # None /\ ~ Resolved(k, failing)
                        THEN bytes[k] - Delta(k) ELSE 0],
                   Conns)

\* UserDeltas: charge each connection its growth since the last poll.
Poll ==
  /\ tick = "idle"
  /\ \E failing \in LookupFailures :
       /\ failing # {} => ends < MaxEnds
       /\ deltas' = Polled(failing)
       /\ prev' = [k \in Conns |->
                     IF Resolved(k, failing) THEN bytes[k] ELSE None]
       /\ forgotten' = forgotten + Forgotten(failing)
       /\ ends' = IF failing = {} THEN ends ELSE ends + 1
  /\ tick' = "list"
  /\ UNCHANGED <<name, used, daily, owner, bytes, moved, spoiled, renames>>

\* Mutant of PollFails: an error empties prevConn.
PollFailsEmpties ==
  /\ tick = "idle"
  /\ "fetch" \in Faults
  /\ prev' = NoCounter
  /\ UNCHANGED <<name, used, daily, owner, bytes, tick, deltas, moved,
                 forgotten, spoiled, renames, ends>>

\* The core does not answer: nothing is charged and prevConn stays.
PollFails ==
  /\ tick = "idle"
  /\ "fetch" \in Faults
  /\ UNCHANGED accountingVars

\* byName: the list is ordered by descending id, so the lowest id with a
\* name is the one that stays in the map.
ByName(n) ==
  IF \E c \in Rows : name[c] = n
    THEN CHOOSE c \in Rows :
           name[c] = n /\ \A d \in Rows : name[d] = n => c <= d
    ELSE None

Known == {n \in Names : deltas[n] > 0 /\ ByName(n) # None}

\* Traffic of a local client is charged to the row of another node that has
\* its name: names are unique for each node only.
Misdirected == \E n \in Known : ByName(n) \in Remotes

\* Mutant of Account: the counters are set, not added to.
AccountSets ==
  /\ tick = "list"
  /\ used' = [c \in Rows |->
              IF \E n \in Known : ByName(n) = c
                THEN SumFunctionOnSet(deltas,
                                      {n \in Known : ByName(n) = c})
                ELSE used[c]]
  /\ deltas' = [n \in Names |-> IF n \in Known THEN deltas[n] ELSE 0]
  /\ tick' = "rollup"
  /\ UNCHANGED <<name, daily, owner, bytes, prev, moved, forgotten, spoiled,
                 renames, ends>>

\* account lists the clients and AddTraffic adds the batch, in one
\* transaction.
Account ==
  /\ tick = "list"
  /\ used' = [c \in Rows |->
              used[c] + SumFunctionOnSet(deltas,
                                         {n \in Known : ByName(n) = c})]
  /\ deltas' = [n \in Names |-> IF n \in Known THEN deltas[n] ELSE 0]
  /\ tick' = "rollup"
  /\ spoiled' = (spoiled \/ Misdirected)
  /\ UNCHANGED <<name, daily, owner, bytes, prev, moved, forgotten, renames,
                 ends>>

\* List or AddTraffic fails: the deltas are gone.
AddFails ==
  /\ tick = "list"
  /\ Faults \intersect {"list", "add"} # {}
  /\ deltas' = NoDeltas
  /\ tick' = "idle"
  /\ spoiled' = TRUE
  /\ UNCHANGED <<name, used, daily, owner, bytes, prev, moved, forgotten,
                 renames, ends>>

\* AddDaily adds the sum of the batch, or fails and is only logged.
Rollup ==
  /\ tick = "rollup"
  /\ daily' \in {daily, daily + SumFunction(deltas)}
  /\ deltas' = NoDeltas
  /\ tick' = "idle"
  /\ UNCHANGED <<name, used, owner, bytes, prev, moved, forgotten, spoiled,
                 renames, ends>>

-----------------------------------------------------------------------------
(* What else changes the rows and the processes.                           *)

\* Update of a local client's name.
Rename(c, n) ==
  /\ renames < MaxRenames
  /\ name[c] \notin {None, n}
  /\ UniqueNames([name EXCEPT ![c] = n])
  /\ name' = [name EXCEPT ![c] = n]
  /\ renames' = renames + 1
  /\ spoiled' = (spoiled \/ tick = "list")
  /\ UNCHANGED <<used, daily, owner, bytes, prev, tick, deltas, moved,
                 forgotten, ends>>

\* The panel and the core die and start again: the rows survive.
Restart ==
  /\ ends < MaxEnds
  /\ ends' = ends + 1
  /\ owner' = NoCounter
  /\ prev' = NoCounter
  /\ deltas' = NoDeltas
  /\ tick' = "idle"
  /\ UNCHANGED <<name, used, daily, bytes, moved, forgotten, spoiled, renames>>

AccountingNext ==
  \/ \E k \in Conns : Transfer(k) \/ Close(k) \/ \E c \in Locals : Open(k, c)
  \/ Poll \/ PollFails \/ Account \/ AddFails \/ Rollup
  \/ \E c \in Locals, n \in Names : Rename(c, n)
  \/ Restart

AccountingSpec == AccountingInit /\ [][AccountingNext]_accountingVars

-----------------------------------------------------------------------------
(* Properties.                                                             *)

(* No double charge: whatever polls, list and writes fail, whatever        *)
(* connection ids are used again, and however clients are renamed between  *)
(* a poll and the charge, the rows together and the rollup never show more *)
(* traffic than there was, but for the counters of open connections that a *)
(* failed lookup of their client made a poll forget, each once for each    *)
(* such failure (main.go:279-285, clash_user.go:85-126,                    *)
(* worker.go:208-232); and no counter is negative, although an id used     *)
(* again runs backwards.                                                   *)
NoDoubleCharge ==
  /\ AccountingTypes
  /\ SumFunction(used) <= SumFunction(moved) + forgotten
  /\ daily <= SumFunction(moved) + forgotten

(* What a poll has read is charged: between two ticks each row shows at    *)
(* least what the last poll has seen of every open connection of its       *)
(* client, through failing polls, closed connections and restarts, unless  *)
(* a write has failed, a client was renamed between the poll and the       *)
(* charge, a row of another node has the client's name, or a connection id *)
(* was used again while the last poll still remembered it                  *)
(* (clash_user.go:99-125, worker.go:193-228).                              *)
PolledIsCharged ==
  tick = "idle" /\ ~ spoiled =>
    \A k \in Conns : owner[k] # None /\ prev[k] # None
                       => used[owner[k]] >= prev[k]
=============================================================================
