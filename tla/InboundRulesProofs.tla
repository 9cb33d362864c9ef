-------------------------- MODULE InboundRulesProofs --------------------------
(***************************************************************************)
(* Proofs about InboundRules, for every set of requests, inputs and ports, *)
(* every bound, and with the panel's own certificate made or not.          *)
(***************************************************************************)
EXTENDS InboundForm, TLAPS

USE ConstantsAssumption DEF ConstantsAssumption

\* What the service sees to in every row it writes.
Sound(w) ==
  /\ w.protocol = "naive" => w.tls # "none"
  /\ w.tls = "reality" => w.keys # 0 /\ w.protocol = "vless" /\ w.dest
  /\ w.transmission # "tcp" => w.path /\ w.protocol = "vless"
  /\ w.flow = Flow(w)

TableOK ==
  /\ inbounds \in [Inbounds -> Row \union {None, Gone}]
  /\ edits \in Serials
  /\ \A i \in Inbounds : Exists(i) =>
       /\ inbounds[i].keys <= edits
       /\ inbounds[i].remote => inbounds[i].keys = 0

\* Keys that a request has read are the ones that it writes back.
PendingOK ==
  /\ pending \in [Requests -> Pending \union {None}]
  /\ \A r \in Requests : pending[r] # None =>
       /\ pending[r].row.keys <= edits
       /\ ~ pending[r].row.remote
       /\ pending[r].kind # "clone" /\ pending[r].seen # 0
            => pending[r].row.keys = pending[r].seen

\* What is written, or about to be, is sound.
SoundOK ==
  /\ \A i \in Inbounds : Local(i) => Sound(inbounds[i])
  /\ \A r \in Requests : pending[r] # None => Sound(pending[r].row)

\* Two requests that hold the same keys are not clones, and of one inbound.
Akin(p, q) == p.kind # "clone" /\ q.kind # "clone" /\ p.id = q.id

\* Keys belong to one inbound, or to the clone that is about to be one.
OwnerOK ==
  /\ KeysNotShared
  /\ \A r \in Requests, j \in Inbounds :
       /\ pending[r] # None /\ Exists(j) /\ inbounds[j].keys # 0
       /\ pending[r].row.keys = inbounds[j].keys
       => pending[r].kind # "clone" /\ pending[r].id = j
  /\ \A r, s \in Requests :
       /\ r # s /\ pending[r] # None /\ pending[s] # None
       /\ pending[r].row.keys # 0
       /\ pending[r].row.keys = pending[s].row.keys
       => Akin(pending[r], pending[s])

\* The inductive invariant.
KInv == TableOK /\ PendingOK /\ OwnerOK

-----------------------------------------------------------------------------
(* Rows.                                                                   *)

LEMMA ExistingRow ==
  ASSUME TableOK, NEW i \in Inbounds, Exists(i)
  PROVE  /\ inbounds[i] \in Row
         /\ inbounds[i].keys \in Serials
  BY DEF TableOK, Exists, Row

LEMMA PendingRow ==
  ASSUME PendingOK, NEW r \in Requests, pending[r] # None
  PROVE  /\ pending[r] \in Pending
         /\ pending[r].row \in Row /\ pending[r].id \in Inbounds
         /\ pending[r].row.keys \in Serials /\ pending[r].seen \in Serials
  BY DEF PendingOK, Pending, Row

\* Generated keeps keys that are there.
LEMMA GeneratedRow ==
  ASSUME NEW w \in Row, NEW n \in Serials
  PROVE  LET g == Generated(w, n)
         IN  /\ g \in Row
             /\ g.remote = w.remote
             /\ g.keys = IF w.tls = "reality" /\ w.keys = 0 THEN n ELSE w.keys
             /\ g.protocol = w.protocol /\ g.tls = w.tls /\ g.dest = w.dest
             /\ g.cert = w.cert /\ g.transmission = w.transmission
             /\ g.flow = Flow(w)
             /\ g.path = (w.path \/ w.transmission # "tcp")
  <1>1. Flow(w) \in BOOLEAN /\ (w.path \/ w.transmission # "tcp") \in BOOLEAN
    BY DEF Flow
  <1> DEFINE k == IF NeedsKeys(w) THEN n ELSE w.keys
             f == Flow(w)
             p == w.path \/ w.transmission # "tcp"
  <1>2. k \in Serials /\ f \in BOOLEAN /\ p \in BOOLEAN
    BY <1>1 DEF Row
  <1>3. Generated(w, n) = [w EXCEPT !.keys = k, !.flow = f, !.path = p]
    BY DEF Generated
  <1>4. k = IF w.tls = "reality" /\ w.keys = 0 THEN n ELSE w.keys
    BY DEF NeedsKeys
  <1> HIDE DEF k, f, p
  <1> DEFINE g == [w EXCEPT !.keys = k, !.flow = f, !.path = p]
  <1>5. /\ g \in Row /\ g.remote = w.remote /\ g.keys = k
        /\ g.protocol = w.protocol /\ g.tls = w.tls /\ g.dest = w.dest
        /\ g.cert = w.cert /\ g.transmission = w.transmission
        /\ g.flow = f /\ g.path = p
    BY <1>2 DEF Row
  <1>6. QED
    BY <1>3, <1>4, <1>5 DEF f, p

LEMMA EditedRow ==
  ASSUME NEW old \in Row, NEW in \in Input
  PROVE  LET w == Edited(old, in)
         IN  /\ w \in Row
             /\ w.keys = old.keys /\ w.remote = old.remote
             /\ w.protocol = in.protocol /\ w.tls = in.tls
             /\ w.dest = in.dest /\ w.cert = in.cert
             /\ w.transmission = Transport(in)
  <1>1. Transport(in) \in Transports
    BY DEF Transport, Transports, Input
  <1>2. QED
    BY <1>1 DEF Edited, Row, Input

LEMMA NewRowRow ==
  ASSUME NEW in \in Input
  PROVE  LET w == NewRow(in)
         IN  /\ w \in Row /\ w.keys = 0 /\ ~ w.remote
             /\ w.protocol = in.protocol /\ w.tls = in.tls
             /\ w.dest = in.dest /\ w.cert = in.cert
             /\ w.transmission = Transport(in)
  <1>1. Transport(in) \in Transports
    BY DEF Transport, Transports, Input
  <1>2. 0 \in Serials
    BY DEF Serials
  <1>3. NewRow(in) \in Row
    BY <1>1, <1>2 DEF NewRow, Row, Input
  <1>4. QED
    BY <1>3 DEF NewRow

\* A row of a node holds no keys.
LEMMA CachedRow ==
  ASSUME NEW w \in Row, w.keys = 0
  PROVE  LET c == [w EXCEPT !.remote = TRUE]
         IN  c \in Row /\ c.keys = 0 /\ c.remote
  BY DEF Row

LEMMA CopiedRow ==
  ASSUME NEW old \in Row, NEW port \in Ports
  PROVE  LET w == Copied(old, port)
         IN  /\ w \in Row
             /\ w.keys = 0 /\ w.remote = old.remote
             /\ w.protocol = old.protocol /\ w.tls = old.tls
             /\ w.dest = old.dest /\ w.cert = "panel"
             /\ w.transmission = old.transmission
  <1>1. 0 \in Serials /\ "panel" \in Certs
    BY DEF Serials, Certs
  <1>2. Copied(old, port) \in Row
    BY <1>1 DEF Copied, Row
  <1>3. QED
    BY <1>2 DEF Copied, Row

-----------------------------------------------------------------------------
(* Entries.                                                                *)

\* A sound row makes an entry that the core accepts, but for two kinds.
LEMMA SoundRenders ==
  ASSUME NEW w \in Row, Sound(w)
  PROVE  Accepted(Entry(w)) <=> ~ Unencrypted(w) /\ ~ Uncertified(w)
  <1> DEFINE e == Entry(w)
             t == BuiltTLS(w)
  <1>1. /\ t.on = (w.tls # "none") /\ t.reality = (w.tls = "reality")
        /\ t.server = w.dest
        /\ t.secret = IF w.tls = "reality" THEN w.keys # 0
                                           ELSE w.cert # "panel" \/ DefaultCert
    BY DEF BuiltTLS
  <1> HIDE DEF t
  <1>2. /\ e.type = w.protocol /\ e.tls = t /\ e.path = w.path
        /\ e.transport = IF w.protocol = "vless" THEN w.transmission ELSE "tcp"
        /\ e.flow = (w.protocol = "vless" /\ w.flow)
    BY DEF Entry, t
  <1> HIDE DEF e
  <1>3. /\ w.tls \in {"none", "tls", "reality"} /\ w.dest \in BOOLEAN
        /\ w.path \in BOOLEAN /\ w.flow \in BOOLEAN
    BY DEF Row, TLSModes
  <1>4. e.flow => e.tls.on /\ e.transport = "tcp"
    BY <1>1, <1>2 DEF Sound, Flow
  <1>5. e.transport # "tcp" => e.path
    BY <1>2 DEF Sound
  <1>6. e.tls.reality => e.type = "vless" /\ e.tls.server
    BY <1>1, <1>2 DEF Sound
  <1>7. e.type \in {"naive", "hysteria2"} => (e.tls.on <=> ~ Unencrypted(w))
    BY <1>1, <1>2, <1>3 DEF Sound, Unencrypted
  <1>8. Unencrypted(w) => e.type = "hysteria2"
    BY <1>2 DEF Unencrypted
  <1>9. (e.tls.on => e.tls.secret) <=> ~ Uncertified(w)
    BY <1>1, <1>2, <1>3 DEF Sound, Uncertified
  <1>10. Accepted(e) <=> ~ Unencrypted(w) /\ ~ Uncertified(w)
    BY <1>4, <1>5, <1>6, <1>7, <1>8, <1>9 DEF Accepted
  <1>11. QED
    BY <1>10 DEF e

\* What is generated for a valid row makes it sound.
LEMMA GeneratedIsSound ==
  ASSUME NEW w \in Row, NEW n \in Serials, n # 0,
         w.protocol = "naive" => w.tls # "none",
         w.tls = "reality" => w.protocol = "vless" /\ w.dest,
         w.transmission # "tcp" => w.protocol = "vless"
  PROVE  Sound(Generated(w, n))
  <1> DEFINE g == Generated(w, n)
  <1>1. /\ g \in Row
        /\ w.tls = "reality" => g.keys # 0
        /\ g.protocol = w.protocol /\ g.tls = w.tls /\ g.dest = w.dest
        /\ g.transmission = w.transmission
        /\ g.flow = Flow(w)
        /\ g.path = (w.path \/ w.transmission # "tcp")
    BY GeneratedRow
  <1> HIDE DEF g
  <1>2. Sound(g)
    BY <1>1 DEF Sound, Flow
  <1>3. QED
    BY <1>2 DEF g

\* Switching a row on or off changes nothing else of it.
LEMMA ToggledRow ==
  ASSUME NEW w \in Row, NEW b \in BOOLEAN
  PROVE  LET t == [w EXCEPT !.enabled = b]
         IN  /\ t \in Row /\ t.keys = w.keys /\ t.remote = w.remote
             /\ Sound(t) <=> Sound(w)
  <1> DEFINE t == [w EXCEPT !.enabled = b]
  <1>1. /\ t \in Row /\ t.keys = w.keys /\ t.remote = w.remote
        /\ t.protocol = w.protocol /\ t.tls = w.tls /\ t.dest = w.dest
        /\ t.cert = w.cert /\ t.transmission = w.transmission
        /\ t.flow = w.flow /\ t.path = w.path
    BY DEF Row
  <1> HIDE DEF t
  <1>2. Sound(t) <=> Sound(w)
    BY <1>1 DEF Sound, Flow
  <1>3. QED
    BY <1>1, <1>2 DEF t

-----------------------------------------------------------------------------
(* Steps, by what they write: what the requests have in common.            *)

\* A row is written, and at most a request ends.
LEMMA PutKeeps ==
  ASSUME KInv, NEW i \in Inbounds, NEW w \in Row,
         inbounds' = [inbounds EXCEPT ![i] = w],
         edits' \in Serials, edits <= edits', w.keys <= edits',
         w.remote => w.keys = 0,
         pending' \in [Requests -> Pending \union {None}],
         \A r \in Requests : pending'[r] = pending[r] \/ pending'[r] = None,
         \A j \in Inbounds :
           j # i /\ Exists(j) /\ w.keys # 0 => inbounds[j].keys # w.keys,
         \A r \in Requests :
           /\ pending'[r] # None /\ w.keys # 0
           /\ pending'[r].row.keys = w.keys
           => pending'[r].kind # "clone" /\ pending'[r].id = i
  PROVE  KInv'
  <1>1. /\ inbounds' \in [Inbounds -> Row \union {None, Gone}]
        /\ inbounds'[i] = w
        /\ \A j \in Inbounds : j # i => inbounds'[j] = inbounds[j]
    BY DEF KInv, TableOK
  <1>2. w.keys \in Serials /\ edits \in Serials
    BY DEF Row, KInv, TableOK
  <1>3. \A j \in Inbounds : Exists(j)' /\ j # i => Exists(j)
    BY <1>1 DEF Exists
  <1>4. TableOK'
    <2>1. ASSUME NEW j \in Inbounds, Exists(j)'
          PROVE  /\ inbounds'[j].keys <= edits'
                 /\ inbounds'[j].remote => inbounds'[j].keys = 0
      <3>1. CASE j = i
        BY <1>1, <3>1
      <3>2. CASE j # i
        <4>1. Exists(j) /\ inbounds'[j] = inbounds[j]
          BY <1>1, <1>3, <2>1, <3>2
        <4>2. /\ inbounds[j].keys \in Serials /\ inbounds[j].keys <= edits
              /\ inbounds[j].remote => inbounds[j].keys = 0
          BY <4>1, ExistingRow DEF KInv, TableOK
        <4>3. QED
          BY <1>2, <4>1, <4>2 DEF Serials
      <3>3. QED
        BY <3>1, <3>2
    <2>2. QED
      BY <1>1, <2>1 DEF TableOK
  <1>5. PendingOK'
    <2>1. ASSUME NEW r \in Requests, pending'[r] # None
          PROVE  /\ pending'[r].row.keys <= edits'
                 /\ ~ pending'[r].row.remote
                 /\ pending'[r].kind # "clone" /\ pending'[r].seen # 0
                      => pending'[r].row.keys = pending'[r].seen
      <3>1. pending'[r] = pending[r] /\ pending[r] # None
        BY <2>1
      <3>2. pending[r].row.keys \in Serials /\ pending[r].row.keys <= edits
        BY <3>1, PendingRow DEF KInv, PendingOK
      <3>3. pending'[r].row.keys <= edits'
        BY <1>2, <3>1, <3>2 DEF Serials
      <3>4. QED
        BY <3>1, <3>3 DEF KInv, PendingOK
    <2>2. QED
      BY <2>1 DEF PendingOK
  <1>6. KeysNotShared'
    <2>1. ASSUME NEW j \in Inbounds, NEW k \in Inbounds, j # k,
                 Exists(j)', Exists(k)', inbounds'[j].keys # 0
          PROVE  inbounds'[j].keys # inbounds'[k].keys
      <3>1. CASE j = i
        BY <1>1, <1>3, <2>1, <3>1
      <3>2. CASE k = i
        BY <1>1, <1>3, <2>1, <3>2
      <3>3. CASE j # i /\ k # i
        BY <1>1, <1>3, <2>1, <3>3 DEF KInv, OwnerOK, KeysNotShared
      <3>4. QED
        BY <3>1, <3>2, <3>3
    <2>2. QED
      BY <2>1 DEF KeysNotShared
  <1>7. ASSUME NEW r \in Requests, NEW j \in Inbounds,
               pending'[r] # None, Exists(j)', inbounds'[j].keys # 0,
               pending'[r].row.keys = inbounds'[j].keys
        PROVE  pending'[r].kind # "clone" /\ pending'[r].id = j
    <2>1. CASE j = i
      BY <1>1, <1>7, <2>1
    <2>2. CASE j # i
      <3>1. Exists(j) /\ inbounds'[j] = inbounds[j] /\ pending'[r] = pending[r]
        BY <1>1, <1>3, <1>7, <2>2
      <3>2. QED
        BY <1>7, <3>1 DEF KInv, OwnerOK
    <2>3. QED
      BY <2>1, <2>2
  <1>8. ASSUME NEW r \in Requests, NEW s \in Requests, r # s,
               pending'[r] # None, pending'[s] # None,
               pending'[r].row.keys # 0,
               pending'[r].row.keys = pending'[s].row.keys
        PROVE  Akin(pending'[r], pending'[s])
    <2>1. pending'[r] = pending[r] /\ pending'[s] = pending[s]
      BY <1>8
    <2>2. QED
      BY <1>8, <2>1 DEF KInv, OwnerOK
  <1>9. OwnerOK'
    BY <1>6, <1>7, <1>8 DEF OwnerOK, Akin
  <1>10. QED
    BY <1>4, <1>5, <1>9 DEF KInv

\* Nothing is written, or a row is deleted, and at most a request ends.
LEMMA EndKeeps ==
  ASSUME KInv, edits' = edits,
         \/ inbounds' = inbounds
         \/ \E i \in Inbounds : inbounds' = [inbounds EXCEPT ![i] = Gone],
         pending' \in [Requests -> Pending \union {None}],
         \A r \in Requests : pending'[r] = pending[r] \/ pending'[r] = None
  PROVE  KInv'
  <1>1. inbounds' \in [Inbounds -> Row \union {None, Gone}]
    BY DEF KInv, TableOK
  <1>2. \A j \in Inbounds : Exists(j)' => Exists(j) /\ inbounds'[j] = inbounds[j]
    BY DEF Exists, KInv, TableOK
  <1>3. TableOK'
    BY <1>1, <1>2 DEF KInv, TableOK
  <1>4. PendingOK'
    BY DEF KInv, PendingOK
  <1>5. KeysNotShared'
    BY <1>2 DEF KInv, OwnerOK, KeysNotShared
  <1>6. OwnerOK'
    <2>1. ASSUME NEW r \in Requests, NEW j \in Inbounds,
                 pending'[r] # None, Exists(j)', inbounds'[j].keys # 0,
                 pending'[r].row.keys = inbounds'[j].keys
          PROVE  pending'[r].kind # "clone" /\ pending'[r].id = j
      BY <1>2, <2>1 DEF KInv, OwnerOK
    <2>2. ASSUME NEW r \in Requests, NEW s \in Requests, r # s,
                 pending'[r] # None, pending'[s] # None,
                 pending'[r].row.keys # 0,
                 pending'[r].row.keys = pending'[s].row.keys
          PROVE  Akin(pending'[r], pending'[s])
      BY <2>2 DEF KInv, OwnerOK
    <2>3. QED
      BY <1>5, <2>1, <2>2 DEF OwnerOK, Akin
  <1>7. QED
    BY <1>3, <1>4, <1>6 DEF KInv

\* A request has prepared what it is going to write.
LEMMA HoldKeeps ==
  ASSUME KInv, NEW r \in Requests, NEW q \in Pending,
         pending' = [pending EXCEPT ![r] = q], inbounds' = inbounds,
         edits' \in Serials, edits <= edits', q.row.keys <= edits',
         ~ q.row.remote,
         q.kind # "clone" /\ q.seen # 0 => q.row.keys = q.seen,
         \A j \in Inbounds :
           Exists(j) /\ inbounds[j].keys # 0 /\ q.row.keys = inbounds[j].keys
             => q.kind # "clone" /\ q.id = j,
         \A s \in Requests :
           pending[s] # None /\ q.row.keys # 0
             /\ q.row.keys = pending[s].row.keys => Akin(q, pending[s])
  PROVE  KInv'
  <1>1. /\ pending' \in [Requests -> Pending \union {None}]
        /\ pending'[r] = q
        /\ \A s \in Requests : s # r => pending'[s] = pending[s]
    BY DEF KInv, PendingOK
  <1>2. edits \in Serials
    BY DEF KInv, TableOK
  <1>3. \A j \in Inbounds : Exists(j)' <=> Exists(j)
    BY DEF Exists
  <1>4. TableOK'
    <2>1. ASSUME NEW j \in Inbounds, Exists(j)
          PROVE  inbounds[j].keys <= edits'
      <3>1. inbounds[j].keys \in Serials /\ inbounds[j].keys <= edits
        BY <2>1, ExistingRow DEF KInv, TableOK
      <3>2. QED
        BY <1>2, <3>1 DEF Serials
    <2>2. QED
      BY <1>3, <2>1 DEF KInv, TableOK
  <1>5. ASSUME NEW s \in Requests, pending'[s] # None
        PROVE  /\ pending'[s].row.keys <= edits'
               /\ ~ pending'[s].row.remote
               /\ pending'[s].kind # "clone" /\ pending'[s].seen # 0
                    => pending'[s].row.keys = pending'[s].seen
    <2>1. CASE s = r
      BY <1>1, <2>1
    <2>2. CASE s # r
      <3>1. pending'[s] = pending[s] /\ pending[s] # None
        BY <1>1, <1>5, <2>2
      <3>2. pending[s].row.keys \in Serials /\ pending[s].row.keys <= edits
        BY <3>1, PendingRow DEF KInv, PendingOK
      <3>3. pending'[s].row.keys <= edits'
        BY <1>2, <3>1, <3>2 DEF Serials
      <3>4. QED
        BY <3>1, <3>3 DEF KInv, PendingOK
    <2>3. QED
      BY <2>1, <2>2
  <1>6. PendingOK'
    BY <1>1, <1>5 DEF PendingOK
  <1>7. ASSUME NEW s \in Requests, NEW j \in Inbounds,
               pending'[s] # None, Exists(j), inbounds[j].keys # 0,
               pending'[s].row.keys = inbounds[j].keys
        PROVE  pending'[s].kind # "clone" /\ pending'[s].id = j
    BY <1>1, <1>7 DEF KInv, OwnerOK
  <1>8. ASSUME NEW s \in Requests, NEW t \in Requests, s # t,
               pending'[s] # None, pending'[t] # None,
               pending'[s].row.keys # 0,
               pending'[s].row.keys = pending'[t].row.keys
        PROVE  Akin(pending'[s], pending'[t])
    <2>1. CASE s = r
      BY <1>1, <1>8, <2>1
    <2>2. CASE t = r
      BY <1>1, <1>8, <2>2 DEF Akin
    <2>3. CASE s # r /\ t # r
      BY <1>1, <1>8, <2>3 DEF KInv, OwnerOK
    <2>4. QED
      BY <2>1, <2>2, <2>3
  <1>9. KeysNotShared'
    BY <1>3 DEF KInv, OwnerOK, KeysNotShared
  <1>10. OwnerOK'
    BY <1>3, <1>7, <1>8, <1>9 DEF OwnerOK, Akin
  <1>11. QED
    BY <1>4, <1>6, <1>10 DEF KInv

\* Keys that are made now are nobody's.
LEMMA FreshKeys ==
  ASSUME KInv, NEW k, k = 0 \/ k = edits + 1
  PROVE  /\ \A j \in Inbounds :
              Exists(j) /\ k # 0 => inbounds[j].keys # k
         /\ \A s \in Requests :
              pending[s] # None /\ k # 0 => pending[s].row.keys # k
  <1>1. \A j \in Inbounds : Exists(j) =>
          inbounds[j].keys \in Serials /\ inbounds[j].keys <= edits
    BY ExistingRow DEF KInv, TableOK
  <1>2. \A s \in Requests : pending[s] # None =>
          pending[s].row.keys \in Serials /\ pending[s].row.keys <= edits
    BY PendingRow DEF KInv, PendingOK
  <1>3. edits \in Serials
    BY DEF KInv, TableOK
  <1>4. QED
    BY <1>1, <1>2, <1>3 DEF Serials

\* A request that ends leaves the others as they are.
LEMMA EndedRequest ==
  ASSUME PendingOK, NEW r \in Requests, Ends(r)
  PROVE  /\ edits' = edits
         /\ pending' \in [Requests -> Pending \union {None}]
         /\ pending'[r] = None
         /\ \A s \in Requests : s # r => pending'[s] = pending[s]
  BY DEF Ends, PendingOK

-----------------------------------------------------------------------------
(* The keys, request by request.                                           *)

LEMMA CreateKeeps ==
  ASSUME KInv, NEW i \in Inbounds, NEW in \in Inputs, Create(i, in)
  PROVE  KInv'
  <1> DEFINE w == Generated(NewRow(in), edits')
  <1>1. /\ edits < MaxEdits /\ edits' = edits + 1 /\ pending' = pending
        /\ inbounds' = [inbounds EXCEPT ![i] = w]
    BY DEF Create, Insert, Edit
  <1>2. edits' \in Serials /\ edits <= edits' /\ 0 <= edits'
    BY <1>1 DEF KInv, TableOK, Serials
  <1>3. NewRow(in) \in Row /\ NewRow(in).keys = 0 /\ ~ NewRow(in).remote
    BY NewRowRow
  <1>4. /\ w \in Row /\ ~ w.remote
        /\ w.keys = 0 \/ w.keys = edits + 1
    BY <1>1, <1>2, <1>3, GeneratedRow
  <1>5. w.keys <= edits'
    BY <1>1, <1>2, <1>4 DEF Serials
  <1> HIDE DEF w
  <1>6. pending' \in [Requests -> Pending \union {None}]
    BY <1>1 DEF KInv, PendingOK
  <1>7. /\ \A j \in Inbounds :
             Exists(j) /\ w.keys # 0 => inbounds[j].keys # w.keys
        /\ \A s \in Requests :
             pending'[s] # None /\ w.keys # 0 => pending'[s].row.keys # w.keys
    BY <1>1, <1>4, FreshKeys
  <1>8. \A s \in Requests : pending'[s] = pending[s]
    BY <1>1
  <1>9. inbounds' = [inbounds EXCEPT ![i] = w]
    BY <1>1
  <1>10. QED
    BY <1>2, <1>4, <1>5, <1>6, <1>7, <1>8, <1>9, PutKeeps

LEMMA CacheRemoteKeeps ==
  ASSUME KInv, NEW i \in Inbounds, NEW in \in Inputs, CacheRemote(i, in)
  PROVE  KInv'
  <1> DEFINE w == [NewRow(in) EXCEPT !.remote = TRUE]
  <1>1. /\ edits < MaxEdits /\ edits' = edits + 1 /\ pending' = pending
        /\ inbounds' = [inbounds EXCEPT ![i] = w]
    BY DEF CacheRemote, Edit
  <1>2. edits' \in Serials /\ edits <= edits' /\ 0 <= edits'
    BY <1>1 DEF KInv, TableOK, Serials
  <1>3. w \in Row /\ w.keys = 0
    BY NewRowRow, CachedRow
  <1> HIDE DEF w
  <1>4. pending' \in [Requests -> Pending \union {None}]
    BY <1>1 DEF KInv, PendingOK
  <1>5. QED
    BY <1>1, <1>2, <1>3, <1>4, PutKeeps

\* What is prepared from a row holds the keys of that row, or new ones.
LEMMA PrepareKeeps ==
  ASSUME KInv, NEW r \in Requests, NEW i \in Inbounds, NEW w \in Row,
         NEW kind \in {"update", "toggle", "delete", "clone"},
         Prepare(r, kind, i, w), ~ w.remote,
         IF kind = "clone" THEN w.keys \in {0, edits + 1}
         ELSE \/ w.keys = inbounds[i].keys
              \/ inbounds[i].keys = 0 /\ w.keys = edits + 1
  PROVE  KInv'
  <1> DEFINE q == [kind |-> kind, id |-> i, row |-> w,
                   seen |-> inbounds[i].keys]
  <1>1. /\ edits < MaxEdits /\ edits' = edits + 1 /\ inbounds' = inbounds
        /\ pending[r] = None /\ Exists(i)
        /\ pending' = [pending EXCEPT ![r] = q]
    BY DEF Prepare, Edit, Local
  <1>2. edits \in Serials /\ edits' \in Serials /\ edits <= edits'
    BY <1>1 DEF KInv, TableOK, Serials
  <1>3. inbounds[i].keys \in Serials /\ inbounds[i].keys <= edits
    BY <1>1, ExistingRow DEF KInv, TableOK
  <1>4. /\ q \in Pending /\ q.kind = kind /\ q.id = i /\ q.row = w
        /\ q.seen = inbounds[i].keys
    BY <1>3 DEF Pending
  <1> HIDE DEF q
  <1>5. w.keys <= edits' /\ w.keys \in {0, edits + 1, inbounds[i].keys}
    BY <1>1, <1>2, <1>3 DEF Serials
  <1>6. kind # "clone" /\ inbounds[i].keys # 0 => w.keys = inbounds[i].keys
    OBVIOUS
  <1>7. ASSUME NEW j \in Inbounds, Exists(j), inbounds[j].keys # 0,
               w.keys = inbounds[j].keys
        PROVE  kind # "clone" /\ i = j
    <2>1. w.keys # edits + 1 /\ w.keys # 0
      BY <1>7, FreshKeys
    <2>2. kind # "clone" /\ w.keys = inbounds[i].keys
      BY <2>1
    <2>3. QED
      BY <1>1, <1>7, <2>2 DEF KInv, OwnerOK, KeysNotShared
  <1>8. ASSUME NEW s \in Requests, pending[s] # None, w.keys # 0,
               w.keys = pending[s].row.keys
        PROVE  Akin(q, pending[s])
    <2>1. w.keys # edits + 1
      BY <1>8, FreshKeys
    <2>2. kind # "clone" /\ w.keys = inbounds[i].keys
      BY <1>8, <2>1
    <2>3. pending[s].kind # "clone" /\ pending[s].id = i
      BY <1>1, <1>8, <2>2 DEF KInv, OwnerOK
    <2>4. QED
      BY <1>4, <2>2, <2>3 DEF Akin
  <1>9. QED
    BY <1>1, <1>2, <1>4, <1>5, <1>6, <1>7, <1>8, HoldKeeps

LEMMA UpdateKeeps ==
  ASSUME KInv, NEW r \in Requests, NEW i \in Inbounds, NEW in \in Inputs,
         Update(r, i, in)
  PROVE  KInv'
  <1> DEFINE e == Edited(inbounds[i], in)
             w == Generated(e, edits')
  <1>1. Prepare(r, "update", i, w)
    BY DEF Update
  <1>2. /\ Exists(i) /\ ~ inbounds[i].remote /\ edits < MaxEdits
        /\ edits' = edits + 1
    BY <1>1 DEF Prepare, Local, Edit
  <1>3. edits' \in Serials
    BY <1>2 DEF KInv, TableOK, Serials
  <1>4. inbounds[i] \in Row
    BY <1>2, ExistingRow DEF KInv
  <1>5. e \in Row /\ ~ e.remote /\ e.keys = inbounds[i].keys
    BY <1>2, <1>4, EditedRow
  <1>6. /\ w \in Row /\ ~ w.remote
        /\ \/ w.keys = inbounds[i].keys
           \/ inbounds[i].keys = 0 /\ w.keys = edits + 1
    BY <1>2, <1>3, <1>5, GeneratedRow
  <1> HIDE DEF w
  <1>7. QED
    BY <1>1, <1>6, PrepareKeeps

LEMMA ToggleKeeps ==
  ASSUME KInv, NEW r \in Requests, NEW i \in Inbounds, Toggle(r, i)
  PROVE  KInv'
  <1> DEFINE w == [inbounds[i] EXCEPT !.enabled = ~ inbounds[i].enabled]
  <1>1. Prepare(r, "toggle", i, w)
    BY DEF Toggle
  <1>2. Exists(i) /\ ~ inbounds[i].remote
    BY <1>1 DEF Prepare, Local
  <1>3. inbounds[i] \in Row
    BY <1>2, ExistingRow DEF KInv
  <1>4. w \in Row /\ ~ w.remote /\ w.keys = inbounds[i].keys
    BY <1>2, <1>3 DEF Row
  <1> HIDE DEF w
  <1>5. QED
    BY <1>1, <1>4, PrepareKeeps

LEMMA CloneKeeps ==
  ASSUME KInv, NEW r \in Requests, NEW i \in Inbounds, NEW port \in Ports,
         Clone(r, i, port)
  PROVE  KInv'
  <1> DEFINE e == Copied(inbounds[i], port)
             w == Generated(e, edits')
  <1>1. Prepare(r, "clone", i, w)
    BY DEF Clone
  <1>2. /\ Exists(i) /\ ~ inbounds[i].remote /\ edits < MaxEdits
        /\ edits' = edits + 1
    BY <1>1 DEF Prepare, Local, Edit
  <1>3. edits' \in Serials
    BY <1>2 DEF KInv, TableOK, Serials
  <1>4. inbounds[i] \in Row
    BY <1>2, ExistingRow DEF KInv
  <1>5. e \in Row /\ ~ e.remote /\ e.keys = 0
    BY <1>2, <1>4, CopiedRow
  <1>6. w \in Row /\ ~ w.remote /\ w.keys \in {0, edits + 1}
    BY <1>2, <1>3, <1>5, GeneratedRow
  <1> HIDE DEF w
  <1>7. QED
    BY <1>1, <1>6, PrepareKeeps

LEMMA DeleteKeeps ==
  ASSUME KInv, NEW r \in Requests, NEW i \in Inbounds, Delete(r, i)
  PROVE  KInv'
  <1>1. Prepare(r, "delete", i, inbounds[i])
    BY DEF Delete
  <1>2. Exists(i) /\ ~ inbounds[i].remote
    BY <1>1 DEF Prepare, Local
  <1>3. inbounds[i] \in Row
    BY <1>2, ExistingRow DEF KInv
  <1>4. QED
    BY <1>1, <1>2, <1>3, PrepareKeeps

LEMMA WriteRowKeeps ==
  ASSUME KInv, NEW r \in Requests, WriteRow(r)
  PROVE  KInv'
  <1> DEFINE i == pending[r].id
             w == pending[r].row
  <1>1. /\ pending[r] # None /\ pending[r].kind = "update" /\ Ends(r)
        /\ inbounds' = IF Exists(i) THEN [inbounds EXCEPT ![i] = w]
                                    ELSE inbounds
    BY DEF WriteRow, Writes
  <1>2. /\ edits' = edits
        /\ pending' \in [Requests -> Pending \union {None}]
        /\ pending'[r] = None
        /\ \A s \in Requests : s # r => pending'[s] = pending[s]
    BY <1>1, EndedRequest DEF KInv
  <1>3. /\ i \in Inbounds /\ w \in Row /\ w.keys <= edits /\ ~ w.remote
        /\ edits \in Serials /\ edits <= edits
    BY <1>1, PendingRow DEF KInv, PendingOK, TableOK, Serials
  <1>4. \A j \in Inbounds :
          j # i /\ Exists(j) /\ w.keys # 0 => inbounds[j].keys # w.keys
    BY <1>1 DEF KInv, OwnerOK
  <1>5. \A s \in Requests :
          /\ pending'[s] # None /\ w.keys # 0
          /\ pending'[s].row.keys = w.keys
          => pending'[s].kind # "clone" /\ pending'[s].id = i
    BY <1>1, <1>2 DEF KInv, OwnerOK, Akin
  <1>6. CASE Exists(i)
    <2>1. inbounds' = [inbounds EXCEPT ![i] = w]
      BY <1>1, <1>6
    <2> HIDE DEF i, w
    <2>2. QED
      BY <1>2, <1>3, <1>4, <1>5, <2>1, PutKeeps
  <1>7. CASE ~ Exists(i)
    BY <1>1, <1>2, <1>7, EndKeeps
  <1>8. QED
    BY <1>6, <1>7

LEMMA WriteEnabledKeeps ==
  ASSUME KInv, NEW r \in Requests, WriteEnabled(r)
  PROVE  KInv'
  <1> DEFINE i == pending[r].id
             w == [inbounds[i] EXCEPT !.enabled = pending[r].row.enabled]
  <1>1. /\ pending[r] # None /\ Ends(r)
        /\ inbounds' = IF Exists(i) THEN [inbounds EXCEPT ![i] = w]
                                    ELSE inbounds
    BY DEF WriteEnabled, Writes
  <1>2. /\ edits' = edits
        /\ pending' \in [Requests -> Pending \union {None}]
        /\ \A s \in Requests : pending'[s] = pending[s] \/ pending'[s] = None
    BY <1>1, EndedRequest DEF KInv
  <1>3. i \in Inbounds /\ pending[r].row.enabled \in BOOLEAN
        /\ edits \in Serials /\ edits <= edits
    BY <1>1, PendingRow DEF KInv, TableOK, Serials, Row
  <1>4. CASE Exists(i)
    <2>1. /\ inbounds[i] \in Row /\ inbounds[i].keys <= edits
          /\ inbounds[i].remote => inbounds[i].keys = 0
      BY <1>3, <1>4, ExistingRow DEF KInv, TableOK
    <2>2. /\ w \in Row /\ w.keys = inbounds[i].keys
          /\ w.remote = inbounds[i].remote
      BY <1>3, <2>1 DEF Row
    <2>3. inbounds' = [inbounds EXCEPT ![i] = w]
      BY <1>1, <1>4
    <2>4. \A j \in Inbounds :
            j # i /\ Exists(j) /\ w.keys # 0 => inbounds[j].keys # w.keys
      BY <1>3, <1>4, <2>2 DEF KInv, OwnerOK, KeysNotShared
    <2>5. \A s \in Requests :
            /\ pending'[s] # None /\ w.keys # 0
            /\ pending'[s].row.keys = w.keys
            => pending'[s].kind # "clone" /\ pending'[s].id = i
      BY <1>2, <1>3, <1>4, <2>2 DEF KInv, OwnerOK
    <2> HIDE DEF i, w
    <2>6. QED
      BY <1>2, <1>3, <2>1, <2>2, <2>3, <2>4, <2>5, PutKeeps
  <1>5. CASE ~ Exists(i)
    BY <1>1, <1>2, <1>5, EndKeeps
  <1>6. QED
    BY <1>4, <1>5

LEMMA WriteCloneKeeps ==
  ASSUME KInv, NEW r \in Requests, WriteClone(r)
  PROVE  KInv'
  <1> DEFINE w == pending[r].row
  <1>1. pending[r] # None /\ pending[r].kind = "clone" /\ Ends(r)
    BY DEF WriteClone, Writes
  <1>2. PICK i \in Inbounds : inbounds' = [inbounds EXCEPT ![i] = w]
    BY DEF WriteClone, Insert
  <1>3. /\ edits' = edits
        /\ pending' \in [Requests -> Pending \union {None}]
        /\ pending'[r] = None
        /\ \A s \in Requests : s # r => pending'[s] = pending[s]
    BY <1>1, EndedRequest DEF KInv
  <1>4. /\ w \in Row /\ w.keys <= edits /\ ~ w.remote
        /\ edits \in Serials /\ edits <= edits
    BY <1>1, PendingRow DEF KInv, PendingOK, TableOK, Serials
  <1>5. \A j \in Inbounds :
          Exists(j) /\ w.keys # 0 => inbounds[j].keys # w.keys
    BY <1>1 DEF KInv, OwnerOK
  <1>6. \A s \in Requests :
          pending'[s] # None /\ w.keys # 0 => pending'[s].row.keys # w.keys
    BY <1>1, <1>3 DEF KInv, OwnerOK, Akin
  <1> HIDE DEF w
  <1>7. QED
    BY <1>2, <1>3, <1>4, <1>5, <1>6, PutKeeps

LEMMA EndsKeeps ==
  ASSUME KInv, NEW r \in Requests, WriteRefused(r) \/ DeleteRow(r)
  PROVE  KInv'
  <1>1. Ends(r)
    BY DEF WriteRefused, DeleteRow
  <1>2. /\ edits' = edits
        /\ pending' \in [Requests -> Pending \union {None}]
        /\ \A s \in Requests : pending'[s] = pending[s] \/ pending'[s] = None
    BY <1>1, EndedRequest DEF KInv
  <1>3. CASE WriteRefused(r)
    BY <1>2, <1>3, EndKeeps DEF WriteRefused
  <1>4. CASE DeleteRow(r)
    <2>1. pending[r].id \in Inbounds
      BY <1>4, PendingRow DEF KInv, DeleteRow, Writes
    <2>2. \E i \in Inbounds : inbounds' = [inbounds EXCEPT ![i] = Gone]
      BY <1>4, <2>1 DEF DeleteRow
    <2>3. QED
      BY <1>2, <2>2, EndKeeps
  <1>5. QED
    BY <1>3, <1>4

-----------------------------------------------------------------------------
(* Every step keeps the keys apart.                                        *)

LEMMA KeysInit == Init => KInv
  <1> SUFFICES ASSUME Init PROVE KInv
    OBVIOUS
  <1>1. /\ \A i \in Inbounds : ~ Exists(i)
        /\ \A r \in Requests : pending[r] = None
    BY DEF Init, Exists
  <1>2. TableOK
    BY <1>1 DEF Init, TableOK, Serials
  <1>3. PendingOK
    BY <1>1 DEF Init, PendingOK
  <1>4. OwnerOK
    BY <1>1 DEF OwnerOK, KeysNotShared
  <1>5. QED
    BY <1>2, <1>3, <1>4 DEF KInv

LEMMA KeysStep == KInv /\ [Next]_vars => KInv'
  <1> SUFFICES ASSUME KInv, [Next]_vars PROVE KInv'
    OBVIOUS
  <1>1. ASSUME NEW i \in Inbounds, NEW in \in Inputs,
               Create(i, in) \/ CacheRemote(i, in)
        PROVE  KInv'
    BY <1>1, CreateKeeps, CacheRemoteKeeps
  <1>2. ASSUME NEW r \in Requests, Request(r) PROVE KInv'
    BY <1>2, UpdateKeeps, CloneKeeps, ToggleKeeps, DeleteKeeps, WriteRowKeeps,
       WriteEnabledKeeps, WriteCloneKeeps, EndsKeeps DEF Request
  <1>3. CASE UNCHANGED vars
    <2>1. pending' = pending /\ inbounds' = inbounds /\ edits' = edits
      BY <1>3 DEF vars
    <2>2. pending' \in [Requests -> Pending \union {None}]
      BY <2>1 DEF KInv, PendingOK
    <2>3. QED
      BY <2>1, <2>2, EndKeeps
  <1>4. QED
    BY <1>1, <1>2, <1>3 DEF Next

LEMMA AlwaysKeys == Spec => []KInv
  BY KeysInit, KeysStep, PTL DEF Spec

(* No two inbounds hold the same Reality keys, whatever requests overlap:  *)
(* keys that a request carries are its row's own or nobody's               *)
(* (service.go:248-277).                                                   *)
THEOREM KeysAreApart == Spec => []KeysNotShared
  <1>1. KInv => KeysNotShared
    BY DEF KInv, OwnerOK
  <1>2. QED
    BY <1>1, AlwaysKeys, PTL

\* Only an Update that has read other keys replaces the keys of a row.
Excused(i) ==
  \E r \in Requests : /\ Writes(r, "update") /\ pending'[r] = None
                      /\ pending[r].id = i
                      /\ pending[r].seen # inbounds[i].keys

LEMMA StepLeavesKeys ==
  ASSUME KInv, [Next]_vars, NEW i \in Inbounds, Exists(i),
         inbounds'[i] \notin {None, Gone}, inbounds[i].keys # 0,
         inbounds'[i].keys # inbounds[i].keys
  PROVE  Excused(i)
  <1>1. /\ inbounds \in [Inbounds -> Row \union {None, Gone}]
        /\ ~ inbounds[i].remote
    BY DEF KInv, TableOK
  <1>2. ASSUME NEW j \in Inbounds, NEW w,
               inbounds' = [inbounds EXCEPT ![j] = w],
               ~ Exists(j) \/ inbounds[j].remote \/ w.keys = inbounds[j].keys
                           \/ w = Gone
        PROVE  FALSE
    BY <1>1, <1>2
  <1>3. ASSUME NEW j \in Inbounds, NEW in \in Inputs,
               Create(j, in) \/ CacheRemote(j, in)
        PROVE  FALSE
    BY <1>2, <1>3 DEF Create, CacheRemote, Insert, NextId, Exists
  <1>4. inbounds' # inbounds
    OBVIOUS
  <1>5. ASSUME NEW r \in Requests, Request(r) PROVE Excused(i)
    <2>1. ASSUME NEW j \in Inbounds,
                 \/ \E in \in Inputs : Update(r, j, in)
                 \/ \E port \in Ports : Clone(r, j, port)
                 \/ Toggle(r, j) \/ Delete(r, j)
          PROVE  FALSE
      BY <1>4, <2>1 DEF Update, Clone, Toggle, Delete, Prepare
    <2>2. CASE WriteRow(r)
      <3>1. /\ Writes(r, "update") /\ Ends(r) /\ pending[r] # None
            /\ Exists(pending[r].id)
            /\ inbounds' = [inbounds EXCEPT ![pending[r].id] = pending[r].row]
        BY <1>4, <2>2 DEF WriteRow, Writes
      <3>2. pending'[r] = None
        BY <3>1, EndedRequest DEF KInv
      <3>3. pending[r].id \in Inbounds
        BY <3>1, PendingRow DEF KInv
      <3>4. pending[r].id = i /\ pending[r].row.keys # inbounds[i].keys
        BY <1>1, <3>1, <3>3
      <3>5. pending[r].kind # "clone" /\ pending[r].seen # 0
              => pending[r].row.keys = pending[r].seen
        BY <3>1 DEF KInv, PendingOK
      <3>6. pending[r].seen # inbounds[i].keys
        BY <3>1, <3>4, <3>5 DEF Writes
      <3>7. QED
        BY <3>1, <3>2, <3>4, <3>6 DEF Excused
    <2>3. CASE WriteEnabled(r)
      <3> DEFINE j == pending[r].id
                 w == [inbounds[j] EXCEPT !.enabled = pending[r].row.enabled]
      <3>1. /\ pending[r] # None /\ Exists(j)
            /\ inbounds' = [inbounds EXCEPT ![j] = w]
        BY <1>4, <2>3 DEF WriteEnabled, Writes
      <3>2. j \in Inbounds
        BY <3>1, PendingRow DEF KInv
      <3>3. inbounds[j] \in Row
        BY <3>1, <3>2, ExistingRow DEF KInv
      <3>4. w.keys = inbounds[j].keys
        BY <3>3 DEF Row
      <3> HIDE DEF j, w
      <3>5. QED
        BY <1>2, <3>1, <3>2, <3>4
    <2>4. CASE WriteClone(r)
      BY <1>2, <2>4 DEF WriteClone, Insert, NextId, Exists
    <2>5. CASE DeleteRow(r)
      <3>1. /\ pending[r].id \in Inbounds
            /\ inbounds' = [inbounds EXCEPT ![pending[r].id] = Gone]
        BY <2>5, PendingRow DEF KInv, DeleteRow, Writes
      <3>2. QED
        BY <1>2, <3>1
    <2>6. CASE WriteRefused(r)
      BY <1>4, <2>6 DEF WriteRefused
    <2>7. QED
      BY <1>5, <2>1, <2>2, <2>3, <2>4, <2>5, <2>6 DEF Request
  <1>6. CASE UNCHANGED vars
    BY <1>4, <1>6 DEF vars
  <1>7. QED
    BY <1>3, <1>5, <1>6 DEF Next

(* Reality keys survive every change of their inbound, except by an Update *)
(* that overlapped another one (service.go:219-220).                       *)
THEOREM KeysAreStable == Spec => KeysStay
  <1> DEFINE A == \A i \in Inbounds :
                    Exists(i) /\ inbounds'[i] \notin {None, Gone}
                      /\ inbounds[i].keys # 0
                      /\ inbounds'[i].keys # inbounds[i].keys
                    => Excused(i)
  <1>1. KInv /\ [Next]_vars => [A]_vars
    BY StepLeavesKeys
  <1>2. [][A]_vars <=> KeysStay
    BY DEF KeysStay, Excused
  <1> HIDE DEF A
  <1>3. QED
    BY <1>1, <1>2, AlwaysKeys, PTL DEF Spec

-----------------------------------------------------------------------------
(* What is written is sound.                                               *)

\* A sound row is written, or nothing, or one deleted.
LEMMA SoundPut ==
  ASSUME KInv, SoundOK, NEW i \in Inbounds, NEW w,
         inbounds' = [inbounds EXCEPT ![i] = w],
         w \in {None, Gone} \/ w.remote \/ Sound(w),
         \A r \in Requests : pending'[r] = pending[r] \/ pending'[r] = None
  PROVE  SoundOK'
  <1>1. /\ inbounds'[i] = w
        /\ \A j \in Inbounds : j # i => inbounds'[j] = inbounds[j]
    BY DEF KInv, TableOK
  <1>2. ASSUME NEW j \in Inbounds, Local(j)' PROVE Sound(inbounds'[j])
    <2>1. CASE j = i
      BY <1>1, <1>2, <2>1 DEF Local, Exists
    <2>2. CASE j # i
      BY <1>1, <1>2, <2>2 DEF Local, Exists, SoundOK
    <2>3. QED
      BY <2>1, <2>2
  <1>3. ASSUME NEW r \in Requests, pending'[r] # None
        PROVE  Sound(pending'[r].row)
    BY <1>3 DEF SoundOK
  <1>4. QED
    BY <1>2, <1>3 DEF SoundOK, Sound, Flow

\* A sound row is held by a request.
LEMMA SoundHold ==
  ASSUME KInv, SoundOK, NEW r \in Requests, NEW kind, NEW i \in Inbounds,
         NEW w, Prepare(r, kind, i, w), Sound(w)
  PROVE  SoundOK'
  <1>1. /\ inbounds' = inbounds
        /\ pending' = [pending EXCEPT ![r] = [kind |-> kind, id |-> i,
                         row |-> w, seen |-> inbounds[i].keys]]
    BY DEF Prepare
  <1>2. /\ pending'[r].row = w
        /\ \A s \in Requests : s # r => pending'[s] = pending[s]
    BY <1>1 DEF KInv, PendingOK
  <1>3. \A s \in Requests : pending'[s] # None => Sound(pending'[s].row)
    BY <1>2 DEF SoundOK
  <1>4. \A j \in Inbounds : Local(j)' => Sound(inbounds'[j])
    BY <1>1 DEF SoundOK, Local, Exists
  <1>5. QED
    BY <1>3, <1>4 DEF SoundOK, Sound, Flow

\* Nothing is written.
LEMMA SoundEnd ==
  ASSUME SoundOK, inbounds' = inbounds,
         \A r \in Requests : pending'[r] = pending[r] \/ pending'[r] = None
  PROVE  SoundOK'
  <1>1. \A s \in Requests : pending'[s] # None => Sound(pending'[s].row)
    BY DEF SoundOK
  <1>2. \A j \in Inbounds : Local(j)' => Sound(inbounds'[j])
    BY DEF SoundOK, Local, Exists
  <1>3. QED
    BY <1>1, <1>2 DEF SoundOK, Sound, Flow

LEMMA CreateIsSound ==
  ASSUME KInv, SoundOK, NEW i \in Inbounds, NEW in \in Inputs,
         Create(i, in) \/ CacheRemote(i, in)
  PROVE  SoundOK'
  <1>1. /\ edits < MaxEdits /\ edits' = edits + 1 /\ pending' = pending
        /\ Valid(in)
    BY DEF Create, CacheRemote, Edit
  <1>2. edits' \in Serials /\ edits' # 0
    BY <1>1 DEF KInv, TableOK, Serials
  <1> DEFINE e == NewRow(in)
             w == Generated(e, edits')
             c == [e EXCEPT !.remote = TRUE]
  <1>3. /\ e \in Row /\ e.keys = 0
        /\ e.protocol = in.protocol /\ e.tls = in.tls /\ e.dest = in.dest
        /\ e.transmission = Transport(in)
    BY NewRowRow
  <1>4. c.remote
    BY <1>3, CachedRow
  <1> HIDE DEF e
  <1>5. Sound(w)
    BY <1>1, <1>2, <1>3, GeneratedIsSound DEF Valid, Transport
  <1> HIDE DEF w, c
  <1>6. CASE Create(i, in)
    <2>1. inbounds' = [inbounds EXCEPT ![i] = w]
      BY <1>6 DEF Create, Insert, w, e
    <2>2. QED
      BY <1>1, <1>5, <2>1, SoundPut
  <1>7. CASE CacheRemote(i, in)
    <2>1. inbounds' = [inbounds EXCEPT ![i] = c]
      BY <1>7 DEF CacheRemote, c, e
    <2>2. QED
      BY <1>1, <1>4, <2>1, SoundPut
  <1>8. QED
    BY <1>6, <1>7

LEMMA UpdateIsSound ==
  ASSUME KInv, SoundOK, NEW r \in Requests, NEW i \in Inbounds,
         NEW in \in Inputs, Update(r, i, in)
  PROVE  SoundOK'
  <1> DEFINE e == Edited(inbounds[i], in)
             w == Generated(e, edits')
  <1>1. Prepare(r, "update", i, w) /\ Valid(in)
    BY DEF Update
  <1>2. Exists(i) /\ edits < MaxEdits /\ edits' = edits + 1
    BY <1>1 DEF Prepare, Local, Edit
  <1>3. edits' \in Serials /\ edits' # 0
    BY <1>2 DEF KInv, TableOK, Serials
  <1>4. inbounds[i] \in Row
    BY <1>2, ExistingRow DEF KInv
  <1>5. /\ e \in Row /\ e.protocol = in.protocol /\ e.tls = in.tls
        /\ e.dest = in.dest /\ e.transmission = Transport(in)
    BY <1>4, EditedRow
  <1> HIDE DEF e
  <1>6. Sound(w)
    BY <1>1, <1>3, <1>5, GeneratedIsSound DEF Valid, Transport
  <1> HIDE DEF w
  <1>7. QED
    BY <1>1, <1>6, SoundHold

\* The copy of a sound row is sound: its keys and paths are made anew.
LEMMA CloneIsSound ==
  ASSUME KInv, SoundOK, NEW r \in Requests, NEW i \in Inbounds,
         NEW port \in Ports, Clone(r, i, port)
  PROVE  SoundOK'
  <1> DEFINE e == Copied(inbounds[i], port)
             w == Generated(e, edits')
  <1>1. Prepare(r, "clone", i, w)
    BY DEF Clone
  <1>2. Local(i) /\ edits < MaxEdits /\ edits' = edits + 1
    BY <1>1 DEF Prepare, Edit
  <1>3. edits' \in Serials /\ edits' # 0
    BY <1>2 DEF KInv, TableOK, Serials
  <1>4. inbounds[i] \in Row
    BY <1>2, ExistingRow DEF KInv, Local
  <1>5. Sound(inbounds[i])
    BY <1>2 DEF SoundOK
  <1>6. /\ e \in Row /\ e.protocol = inbounds[i].protocol
        /\ e.tls = inbounds[i].tls /\ e.dest = inbounds[i].dest
        /\ e.transmission = inbounds[i].transmission
    BY <1>4, CopiedRow
  <1> HIDE DEF e
  <1>7. /\ e.protocol = "naive" => e.tls # "none"
        /\ e.tls = "reality" => e.protocol = "vless" /\ e.dest
        /\ e.transmission # "tcp" => e.protocol = "vless"
    BY <1>5, <1>6 DEF Sound
  <1>8. Sound(w)
    BY <1>3, <1>6, <1>7, GeneratedIsSound
  <1> HIDE DEF w
  <1>9. QED
    BY <1>1, <1>8, SoundHold

LEMMA OthersAreSound ==
  ASSUME KInv, SoundOK, NEW r \in Requests,
         \/ \E i \in Inbounds : Toggle(r, i) \/ Delete(r, i)
         \/ WriteRow(r) \/ WriteEnabled(r) \/ WriteClone(r) \/ DeleteRow(r)
         \/ WriteRefused(r)
  PROVE  SoundOK'
  <1>1. ASSUME NEW i \in Inbounds, Toggle(r, i) PROVE SoundOK'
    <2> DEFINE w == [inbounds[i] EXCEPT !.enabled = ~ inbounds[i].enabled]
    <2>1. Prepare(r, "toggle", i, w)
      BY <1>1 DEF Toggle
    <2>2. Local(i)
      BY <2>1 DEF Prepare
    <2>3. inbounds[i] \in Row /\ Sound(inbounds[i])
      BY <2>2, ExistingRow DEF KInv, SoundOK, Local
    <2>4. (~ inbounds[i].enabled) \in BOOLEAN
      OBVIOUS
    <2>5. Sound(w)
      BY <2>3, <2>4, ToggledRow
    <2> HIDE DEF w
    <2>6. QED
      BY <2>1, <2>5, SoundHold
  <1>2. ASSUME NEW i \in Inbounds, Delete(r, i) PROVE SoundOK'
    <2>1. Prepare(r, "delete", i, inbounds[i])
      BY <1>2 DEF Delete
    <2>2. Sound(inbounds[i])
      BY <2>1 DEF Prepare, SoundOK
    <2>3. QED
      BY <2>1, <2>2, SoundHold
  <1>3. ASSUME Ends(r)
        PROVE  \A s \in Requests : pending'[s] = pending[s] \/ pending'[s] = None
    BY <1>3, EndedRequest DEF KInv
  <1>4. CASE inbounds' = inbounds /\ Ends(r)
    BY <1>3, <1>4, SoundEnd
  <1>5. CASE WriteRow(r) /\ inbounds' # inbounds
    <2>1. /\ Ends(r) /\ pending[r] # None
          /\ inbounds' = [inbounds EXCEPT ![pending[r].id] = pending[r].row]
      BY <1>5 DEF WriteRow, Writes
    <2>2. pending[r].id \in Inbounds /\ Sound(pending[r].row)
      BY <2>1, PendingRow DEF KInv, SoundOK
    <2>3. QED
      BY <1>3, <2>1, <2>2, SoundPut
  <1>6. CASE WriteEnabled(r) /\ inbounds' # inbounds
    <2> DEFINE j == pending[r].id
               w == [inbounds[j] EXCEPT !.enabled = pending[r].row.enabled]
    <2>1. /\ pending[r] # None /\ Exists(j) /\ Ends(r)
          /\ inbounds' = [inbounds EXCEPT ![j] = w]
      BY <1>6 DEF WriteEnabled, Writes
    <2>2. j \in Inbounds /\ pending[r].row.enabled \in BOOLEAN
      BY <2>1, PendingRow DEF KInv, Row
    <2>3. inbounds[j] \in Row
      BY <2>1, <2>2, ExistingRow DEF KInv
    <2>4. w.remote = inbounds[j].remote /\ (Sound(w) <=> Sound(inbounds[j]))
      BY <2>2, <2>3, ToggledRow
    <2>5. inbounds[j].remote \/ Sound(inbounds[j])
      BY <2>1, <2>2 DEF SoundOK, Local
    <2>6. w.remote \/ Sound(w)
      BY <2>4, <2>5
    <2> HIDE DEF j, w
    <2>7. QED
      BY <1>3, <2>1, <2>2, <2>6, SoundPut
  <1>7. CASE WriteClone(r)
    <2>1. PICK i \in Inbounds : inbounds' = [inbounds EXCEPT ![i] = pending[r].row]
      BY <1>7 DEF WriteClone, Insert
    <2>2. Ends(r) /\ Sound(pending[r].row)
      BY <1>7 DEF WriteClone, Writes, SoundOK
    <2>3. QED
      BY <1>3, <2>1, <2>2, SoundPut
  <1>8. CASE DeleteRow(r)
    <2>1. /\ pending[r] # None /\ Ends(r)
          /\ inbounds' = [inbounds EXCEPT ![pending[r].id] = Gone]
      BY <1>8 DEF DeleteRow, Writes
    <2>2. pending[r].id \in Inbounds
      BY <2>1, PendingRow DEF KInv
    <2>3. QED
      BY <1>3, <2>1, <2>2, SoundPut
  <1>9. QED
    BY <1>1, <1>2, <1>4, <1>5, <1>6, <1>7, <1>8
    DEF WriteRow, WriteEnabled, WriteRefused

LEMMA SoundInit == Init => SoundOK
  BY DEF Init, SoundOK, Local, Exists

LEMMA SoundStep == KInv /\ SoundOK /\ [Next]_vars => SoundOK'
  <1> SUFFICES ASSUME KInv, SoundOK, [Next]_vars PROVE SoundOK'
    OBVIOUS
  <1>1. ASSUME NEW i \in Inbounds, NEW in \in Inputs,
               Create(i, in) \/ CacheRemote(i, in)
        PROVE  SoundOK'
    BY <1>1, CreateIsSound
  <1>2. ASSUME NEW r \in Requests, Request(r) PROVE SoundOK'
    BY <1>2, UpdateIsSound, CloneIsSound, OthersAreSound DEF Request
  <1>3. CASE UNCHANGED vars
    BY <1>3, SoundEnd DEF vars
  <1>4. QED
    BY <1>1, <1>2, <1>3 DEF Next

(* Of the entries built from the enabled rows the core refuses two kinds,  *)
(* always, and no other: Hysteria2 without TLS, and those that need a      *)
(* certificate of the panel that could not be made.  The rows keep their   *)
(* types (service.go:167-353, generator.go:189-318, main.go:162-171).      *)
THEOREM EveryOtherEntryRenders == Spec => []Renders
  <1>1. Spec => [](KInv /\ SoundOK)
    BY KeysInit, KeysStep, SoundInit, SoundStep, PTL DEF Spec
  <1>2. ASSUME KInv, SoundOK PROVE Renders
    <2>1. TypeOK
      BY <1>2 DEF KInv, TableOK, PendingOK, TypeOK
    <2>2. ASSUME NEW i \in Listed
          PROVE  Accepted(Entry(inbounds[i]))
                   <=> ~ Unencrypted(inbounds[i]) /\ ~ Uncertified(inbounds[i])
      <3>1. i \in Inbounds /\ Local(i)
        BY DEF Listed
      <3>2. inbounds[i] \in Row /\ Sound(inbounds[i])
        BY <1>2, <3>1, ExistingRow DEF KInv, Local, SoundOK
      <3>3. QED
        BY <3>2, SoundRenders
    <2>3. QED
      BY <2>1, <2>2 DEF Renders
  <1>3. QED
    BY <1>1, <1>2, PTL

-----------------------------------------------------------------------------
(* What the form saves.                                                    *)

\* Opened on a sound row and saved, the form erases what Stripped says.
LEMMA SoundIsStripped ==
  ASSUME NEW w \in Row, Sound(w)
  PROVE  /\ Valid(Payload(Opened(Shown(w))))
         /\ Resaved(w) = Stripped(w)
  <1> DEFINE s == Shown(w)
             d == Opened(s)
             p == Payload(d)
             e == Edited(w, p)
             g == Generated(e, 0)
             t == TLSFor(w.protocol, w.tls)
  <1>1. /\ s.protocol = w.protocol /\ s.port = w.port
        /\ s.transmission = w.transmission /\ s.tls = w.tls
        /\ s.cert = w.cert /\ s.path = w.path /\ s.obfs = FALSE
    BY DEF Shown, Row
  <1> HIDE DEF s
  <1>2. /\ d.protocol = w.protocol /\ d.port = w.port
        /\ d.transmission = w.transmission
        /\ d.tls = t
        /\ d.dest = TRUE /\ d.cert = w.cert /\ d.obfs = FALSE
        /\ d.preset = TRUE
        /\ w.transmission \in d.paths <=> w.path /\ w.transmission # "tcp"
    BY <1>1 DEF Opened
  <1> HIDE DEF d
  <1>3. /\ p.protocol = w.protocol /\ p.port = w.port
        /\ p.transmission = IF w.protocol = "vless" THEN w.transmission
                                                    ELSE "tcp"
        /\ p.tls = t
        /\ p.dest = (t = "reality")
        /\ p.cert = IF t = "tls" THEN w.cert ELSE "panel"
        /\ p.path = (w.protocol = "vless" /\ w.path /\ w.transmission # "tcp")
        /\ p.obfs = FALSE /\ p.preset = (t = "tls") /\ p.extras = FALSE
    BY <1>2 DEF Payload, CertFields, TLSFor
  <1> HIDE DEF p
  <1>4. Transport(p) = w.transmission
    BY <1>3 DEF Sound, Transport
  <1>5. p.path = (w.transmission # "tcp")
    <2>1. w.transmission # "tcp" => w.path /\ w.protocol = "vless"
      BY DEF Sound
    <2>2. QED
      BY <1>3, <2>1
  <1>6. Valid(p)
    <2>1. t = "reality" => w.protocol = "vless"
      BY DEF TLSFor
    <2>2. w.protocol # "vless" => t = "tls"
      BY DEF TLSFor
    <2> HIDE DEF t
    <2>3. QED
      BY <1>3, <2>1, <2>2 DEF Valid
  <1>7. e = [w EXCEPT !.tls = t, !.dest = (t = "reality"),
                      !.cert = IF t = "tls" THEN w.cert ELSE "panel",
                      !.path = (w.transmission # "tcp"), !.obfs = FALSE,
                      !.preset = (t = "tls"), !.extras = FALSE]
    <2> DEFINE a == (t = "reality")
               b == IF t = "tls" THEN w.cert ELSE "panel"
               c == (w.transmission # "tcp")
               f == (t = "tls")
    <2>1. /\ p.protocol = w.protocol /\ p.port = w.port
          /\ Transport(p) = w.transmission /\ p.tls = t /\ p.dest = a
          /\ p.cert = b /\ p.path = c /\ p.obfs = FALSE /\ p.preset = f
          /\ p.extras = FALSE
      BY <1>3, <1>4, <1>5
    <2> HIDE DEF a, b, c, f, t
    <2>2. Edited(w, p) = [w EXCEPT !.protocol = w.protocol, !.port = w.port,
                            !.transmission = w.transmission, !.tls = t,
                            !.dest = a, !.cert = b, !.path = c, !.obfs = FALSE,
                            !.preset = f, !.extras = FALSE]
      BY <2>1 DEF Edited
    <2>3. Edited(w, p) = [w EXCEPT !.tls = t, !.dest = a, !.cert = b,
                            !.path = c, !.obfs = FALSE, !.preset = f,
                            !.extras = FALSE]
      BY <2>2 DEF Row
    <2>4. QED
      BY <2>3 DEF a, b, c, f
  <1>8. e = Stripped(w)
    <2> HIDE DEF e
    <2>1. QED
      BY <1>7, SMT DEF Stripped
  <1>9. e \in Row
    <2>1. t \in TLSModes /\ "panel" \in Certs /\ w.cert \in Certs
      BY DEF TLSFor, Row, TLSModes, Certs
    <2> HIDE DEF t
    <2>2. QED
      BY <1>7, <2>1 DEF Row
  <1>10. /\ e.tls = t /\ e.keys = w.keys /\ e.flow = w.flow
         /\ e.protocol = w.protocol /\ e.transmission = w.transmission
         /\ e.path = (w.transmission # "tcp")
    BY <1>7 DEF Row
  <1> HIDE DEF e
  <1>11. Flow(w) = Flow(e)
    <2>1. w.protocol = "vless" => t = w.tls
      BY DEF TLSFor
    <2> HIDE DEF t
    <2>2. QED
      BY <1>10, <2>1 DEF Flow
  <1>12. /\ (IF NeedsKeys(e) THEN 0 ELSE e.keys) = e.keys
         /\ Flow(e) = e.flow
         /\ (e.path \/ e.transmission # "tcp") = e.path
    BY <1>10, <1>11 DEF NeedsKeys, Sound
  <1>13. g = [e EXCEPT !.keys = e.keys, !.flow = e.flow, !.path = e.path]
    BY <1>12 DEF Generated
  <1>14. e = [e EXCEPT !.keys = e.keys, !.flow = e.flow, !.path = e.path]
    BY <1>9 DEF Row
  <1>15. g = Stripped(w)
    BY <1>8, <1>13, <1>14
  <1>16. QED
    BY <1>6, <1>15 DEF Resaved, g, e, p, d, s

(* Opening an inbound and saving it erases what Stripped says and nothing  *)
(* else, and is never refused as invalid, for all inputs that the API      *)
(* accepts, of the form or not (useInboundForm.ts:110-262,                 *)
(* inbound_handler.go:91-142, service.go:104-351).                         *)
THEOREM SavesEraseOnly == Spec => []SaveErasesOnly
  <1>1. Spec => [](KInv /\ SoundOK)
    BY KeysInit, KeysStep, SoundInit, SoundStep, PTL DEF Spec
  <1>2. ASSUME KInv, SoundOK PROVE SaveErasesOnly
    <2>1. ASSUME NEW i \in Inbounds, Local(i)
          PROVE  /\ Valid(Payload(Opened(Shown(inbounds[i]))))
                 /\ Resaved(inbounds[i]) = Stripped(inbounds[i])
      <3>1. inbounds[i] \in Row /\ Sound(inbounds[i])
        BY <1>2, <2>1, ExistingRow DEF KInv, Local, SoundOK
      <3>2. QED
        BY <3>1, SoundIsStripped
    <2>2. QED
      BY <2>1 DEF SaveErasesOnly
  <1>3. QED
    BY <1>1, <1>2, PTL

=============================================================================
