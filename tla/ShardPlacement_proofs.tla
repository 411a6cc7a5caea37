----------------------- MODULE ShardPlacement_proofs ------------------------
(***************************************************************************)
(* The redistribution of the sharded store, as long as nobody dies: it     *)
(* loses nothing it was given (Placement), a GET routed under the current  *)
(* servers finds what they were given (PlacedKeyFound), and a key lies at  *)
(* another shard than its own only through a client routed earlier         *)
(* (StraysAreStale).  All three for any servers, clients, keys, values,    *)
(* bounds and initial membership.                                          *)
(***************************************************************************)
EXTENDS ShardedKV_proofs

\* Key k is still to be sent by the master's redistribution.
AtMaster(k) ==
    \/ mpc = "reorg" /\ kv_map[k] # None
    \/ mpc = "reput" /\ k \in reput_left

\* Whoever reaches the i-th request of shard s finds key k there, and no REORG
\* after it.
Ahead(s, i, k) ==
    \/ db[s][k] # None /\ ~ReorgAfter(s, 0)
    \/ \E j \in DOMAIN queue[s] :
          /\ j < i /\ queue[s][j].type = "REORG_PUT" /\ queue[s][j].key = k
          /\ ~ReorgAfter(s, j)

\* Key k is at its shard, or in its queue behind every REORG.
AtShard(k) == PortOf(k) # NoPort /\ \E n \in Nat : Ahead(PortOf(k), n, k)

\* Message m is client c's lookup, or its operation.
Asked(m, c) == m.from = c /\ m.type = "GET"
Brings(m, c) == m.from = c /\ m.type \in {"PUT", "GET"}

\* The i-th request in the master's queue, if it is a client's, is the only
\* one of that client, which waits for its answer.
LookupAt(i) ==
    \A c \in Clients : Asked(queue[Master][i], c) =>
        /\ cpc[c] = "lookup" /\ inbox[c].kind = "none"
        /\ queue[Master][i].key = op[c].key
        /\ \A j \in DOMAIN queue[Master] : Asked(queue[Master][j], c) => j = i

\* The i-th request in the queue of shard s, if it is a client's, is the
\* operation of that client and the only one; and if it was routed under the
\* current servers, it is at the key's shard and no REORG is behind it.
RequestAt(s, i) ==
    /\ queue[s][i].type \in {"PUT", "GET"} => queue[s][i].from \in Clients
    /\ \A c \in Clients : Brings(queue[s][i], c) =>
          /\ cpc[c] = "request" /\ inbox[c].kind = "none" /\ route[c] = s
          /\ queue[s][i].type = op[c].type /\ queue[s][i].key = op[c].key
          /\ \A j \in DOMAIN queue[s] : Brings(queue[s][j], c) => j = i
          /\ epoch[c] = num_servers => PortOf(op[c].key) = s /\ ~ReorgAfter(s, i)

Redistributes == mpc \in {"reorg", "reput"}

\* A client that was routed under the current set of servers is on its way to
\* the shard of its key, and nobody is during a redistribution.
Routed(c) ==
    /\ epoch[c] \in 0..num_servers
    /\ Redistributes => epoch[c] < num_servers
    /\ cpc[c] = "route" /\ epoch[c] = num_servers => route[c] = PortOf(op[c].key)
    /\ cpc[c] = "lookup" /\ inbox[c].kind = "port" /\ epoch[c] = num_servers =>
           inbox[c].port = PortOf(op[c].key)
    /\ inbox[c].kind # "eof"
    /\ cpc[c] # "done" => code[c] = -1

\* Key k, if it was placed, is where it belongs or will be; while the REORGs
\* are being sent, the master has a value for it.
Placed(k) ==
    placed[k] # None => /\ AtMaster(k) \/ AtShard(k)
                        /\ mpc = "reorg" => kv_map[k] # None

\* The inductive invariant behind Placement, for the time nobody died.
PlacementInv ==
    /\ listening[Master]
    /\ \A i \in DOMAIN queue[Master] : LookupAt(i)
    /\ \A s \in Servers : \A i \in DOMAIN queue[s] : RequestAt(s, i)
    /\ \A c \in Clients : Routed(c)
    /\ \A k \in KeyFields : Placed(k)

PlacementHolds == Intact => PlacementInv

\* What PlacedKeyFound asks of client c.
Wants(c) ==
    op[c].type = "GET" /\ op[c].key \in 1..127 /\ owed[c] /\ epoch[c] = num_servers

\* Client c's operation, where it is queued, finds its key.
OnItsWay(c) ==
    \A s \in Servers : \A i \in DOMAIN queue[s] :
        Brings(queue[s][i], c) => Ahead(s, i, op[c].key)

\* The inductive invariant behind PlacedKeyFound.
Found(c) ==
    Wants(c) =>
        /\ code[c] # 2
        /\ placed[op[c].key] # None
        /\ cpc[c] = "request" /\ inbox[c].kind = "data" => inbox[c].status
        /\ OnItsWay(c)

\* A REORG is behind the i-th request of shard s, or will be.
Doomed(s, i) ==
    \/ ReorgAfter(s, i)
    \/ mpc = "reorg" /\ \E j \in reorg_next..num_servers : server_port_map[j] = s

Settled(s, k, i) == num_servers >= 3 /\ (PortOf(k) = s \/ Doomed(s, i))

\* Some client's PUT of k went to s, and if it was routed under the current
\* servers, rightly so.
PutThere(s, k) ==
    \E c \in Clients :
        /\ op[c].type = "PUT" /\ op[c].key = k /\ route[c] = s /\ cpc[c] \in {"request", "done"}
        /\ epoch[c] = num_servers => PortOf(k) = s

\* The inductive invariant behind StraysAreStale.
Strays(s) ==
    /\ starts[s] <= 1 /\ (spc[s] = "down" => starts[s] = 0)
    /\ \A k \in KeyFields : db[s][k] # None /\ k \notin since[s] => Settled(s, k, 0)
    /\ \A i \in DOMAIN queue[s] :
          queue[s][i].type = "REORG_PUT" => Settled(s, queue[s][i].key, i)
    /\ \A k \in since[s] : PutThere(s, k)
-----------------------------------------------------------------------------
(* The queues. *)

\* No REORG comes to stand behind a request, except by being sent.
LEMMA ReorgAfterSend ==
    ASSUME NetTypeOK, NEW p \in Procs, NEW m, Send(p, m), m.type # "REORG",
           NEW q \in Procs, NEW i, ReorgAfter(q, i)'
    PROVE  ReorgAfter(q, i)
<1>1. PICK j \in DOMAIN queue'[q] : j > i /\ queue'[q][j].type = "REORG"
  BY DEF ReorgAfter
<1> QED
  BY <1>1, SendQueue DEF ReorgAfter

LEMMA ReorgAfterAccept ==
    ASSUME NetTypeOK, NEW p \in Procs, NEW t, Accept(p, t), NEW i \in Nat, ReorgAfter(p, i)'
    PROVE  ReorgAfter(p, i + 1)
<1>1. PICK j \in DOMAIN queue'[p] : j > i /\ queue'[p][j].type = "REORG"
  BY DEF ReorgAfter
<1>2. /\ Len(queue[p]) \in Nat /\ DOMAIN queue[p] = 1..Len(queue[p])
      /\ DOMAIN queue'[p] = 1..(Len(queue[p]) - 1)
      /\ \A n \in 1..(Len(queue[p]) - 1) : queue'[p][n] = queue[p][n + 1]
  BY AcceptQueue
<1>3. j \in 1..(Len(queue[p]) - 1) /\ j + 1 \in 1..Len(queue[p]) /\ j + 1 > i + 1
  BY <1>1, <1>2
<1>4. j + 1 \in DOMAIN queue[p] /\ queue[p][j + 1].type = "REORG"
  BY <1>1, <1>2, <1>3
<1> QED
  BY <1>3, <1>4 DEF ReorgAfter
-----------------------------------------------------------------------------
(* A key at its shard. *)

LEMMA AheadOfMore ==
    ASSUME NEW s, NEW i \in Nat, NEW n \in Nat, i <= n, NEW k, Ahead(s, i, k),
           DOMAIN queue[s] \subseteq Nat
    PROVE  Ahead(s, n, k)
BY DEF Ahead

LEMMA AheadAfterSend ==
    ASSUME NetTypeOK, UNCHANGED db, NEW p \in Procs, NEW m, Send(p, m), m.type # "REORG",
           NEW s \in Procs, NEW i, NEW k, Ahead(s, i, k)
    PROVE  Ahead(s, i, k)'
<1>1. \A n : ReorgAfter(s, n)' => ReorgAfter(s, n)
  BY ReorgAfterSend
<1>2. \A n \in DOMAIN queue[s] : n \in DOMAIN queue'[s] /\ queue'[s][n] = queue[s][n]
  BY SendQueue
<1>3. CASE db[s][k] # None /\ ~ReorgAfter(s, 0)
  BY <1>1, <1>3 DEF Ahead
<1>4. ASSUME NEW j \in DOMAIN queue[s], j < i,
             queue[s][j].type = "REORG_PUT", queue[s][j].key = k, ~ReorgAfter(s, j)
      PROVE  Ahead(s, i, k)'
  BY <1>1, <1>2, <1>4 DEF Ahead
<1> QED
  BY <1>3, <1>4 DEF Ahead

\* A shard that accepts a request loses no key by it, unless it is a REORG,
\* and gains the key of a REORG_PUT.
LEMMA AheadAfterAccept ==
    ASSUME NetTypeOK, NEW s \in Procs, NEW t, Accept(s, t),
           NEW i \in Nat, NEW k, Ahead(s, i + 1, k),
           t # "REORG" /\ db[s][k] # None => db'[s][k] # None,
           t = "REORG_PUT" /\ queue[s][1].key = k => db'[s][k] # None
    PROVE  Ahead(s, i, k)'
<1>1. \A n \in Nat : ReorgAfter(s, n)' => ReorgAfter(s, n + 1)
  BY ReorgAfterAccept
<1>2. /\ Len(queue[s]) \in Nat /\ DOMAIN queue[s] = 1..Len(queue[s]) /\ 1 \in DOMAIN queue[s]
      /\ DOMAIN queue'[s] = 1..(Len(queue[s]) - 1) /\ queue[s][1].type = t
      /\ \A n \in 1..(Len(queue[s]) - 1) : queue'[s][n] = queue[s][n + 1]
  BY AcceptQueue
<1>3. ReorgAfter(s, 1) => ReorgAfter(s, 0)
  BY <1>2 DEF ReorgAfter
<1>4. ASSUME db[s][k] # None, ~ReorgAfter(s, 0)
      PROVE  Ahead(s, i, k)'
  <2>1. t # "REORG"
    BY <1>2, <1>4 DEF ReorgAfter
  <2>2. db'[s][k] # None /\ ~ReorgAfter(s, 0)'
    BY <1>1, <1>3, <1>4, <2>1
  <2> QED
    BY <2>2 DEF Ahead
<1>5. ASSUME NEW j \in DOMAIN queue[s], j < i + 1,
             queue[s][j].type = "REORG_PUT", queue[s][j].key = k, ~ReorgAfter(s, j)
      PROVE  Ahead(s, i, k)'
  <2>1. CASE j = 1
    <3>1. db'[s][k] # None /\ ~ReorgAfter(s, 0)'
      BY <1>1, <1>2, <1>5, <2>1
    <3> QED
      BY <3>1 DEF Ahead
  <2>2. CASE j # 1
    <3>1. PICK n \in Nat : j = n + 1 /\ n \in DOMAIN queue'[s]
      <4>1. j - 1 \in Nat /\ j = (j - 1) + 1 /\ j - 1 \in DOMAIN queue'[s]
        BY <1>2, <2>2
      <4> QED
        BY <4>1
    <3>2. queue'[s][n] = queue[s][j] /\ ~ReorgAfter(s, n)' /\ n < i
      BY <1>1, <1>2, <1>5, <3>1
    <3> QED
      BY <1>5, <3>1, <3>2 DEF Ahead
  <2> QED
    BY <2>1, <2>2
<1> QED
  BY <1>4, <1>5 DEF Ahead

LEMMA ShardKept ==
    ASSUME MasterTypeOK, NEW k, AtShard(k), UNCHANGED <<db, server_port_map>>,
           \A s \in Servers : queue'[s] = queue[s]
    PROVE  AtShard(k)'
<1>1. PICK h : h = PortOf(k)
  OBVIOUS
<1>2. h \in Servers /\ PortOf(k)' = h
  BY <1>1, PortType, PortKept DEF AtShard
<1> QED
  BY <1>1, <1>2 DEF AtShard, Ahead, ReorgAfter

LEMMA ShardAfterSend ==
    ASSUME NetTypeOK, MasterTypeOK, NEW k, AtShard(k), UNCHANGED <<db, server_port_map>>,
           NEW p \in Procs, NEW m, Send(p, m), m.type # "REORG"
    PROVE  AtShard(k)'
<1>1. PICK h, n : h = PortOf(k) /\ n \in Nat /\ Ahead(h, n, k) /\ h # NoPort
  BY DEF AtShard
<1>2. h \in Procs /\ PortOf(k)' = h
  BY <1>1, PortType, PortKept DEF Procs
<1>3. Ahead(h, n, k)'
  BY <1>1, <1>2, AheadAfterSend
<1> QED
  BY <1>1, <1>2, <1>3 DEF AtShard

LEMMA ShardAfterAccept ==
    ASSUME NetTypeOK, MasterTypeOK, NEW k, AtShard(k), UNCHANGED server_port_map,
           NEW s \in Servers, NEW t, Accept(s, t),
           \A q \in Servers : q # s => db'[q] = db[q],
           t # "REORG" /\ db[s][k] # None => db'[s][k] # None,
           t = "REORG_PUT" /\ queue[s][1].key = k => db'[s][k] # None
    PROVE  AtShard(k)'
<1>1. PICK h, n : h = PortOf(k) /\ n \in Nat /\ Ahead(h, n, k) /\ h # NoPort
  BY DEF AtShard
<1>2. h \in Servers /\ PortOf(k)' = h /\ h \in Procs /\ s \in Procs
  BY <1>1, PortType, PortKept DEF Procs
<1>3. CASE h # s
  <2>1. queue'[h] = queue[h] /\ db'[h] = db[h]
    BY <1>2, <1>3, AcceptQueue
  <2>2. Ahead(h, n, k)'
    BY <1>1, <2>1 DEF Ahead, ReorgAfter
  <2> QED
    BY <1>1, <1>2, <2>2 DEF AtShard
<1>4. CASE h = s
  <2>1. DOMAIN queue[h] \subseteq Nat
    BY <1>2 DEF NetTypeOK
  <2>2. Ahead(h, n + 1, k)
    BY <1>1, <2>1, AheadOfMore
  <2>3. Ahead(h, n, k)'
    BY <1>1, <1>2, <1>4, <2>2, AheadAfterAccept
  <2> QED
    BY <1>1, <1>2, <2>3 DEF AtShard
<1> QED
  BY <1>3, <1>4
-----------------------------------------------------------------------------
(* What clients have on the way. *)

\* Client c stays where its pending operation was sent, under the same routing.
StaysRouted(c) ==
    cpc[c] = "request" /\ inbox[c].kind = "none" =>
        /\ cpc'[c] = cpc[c] /\ inbox'[c] = inbox[c] /\ route'[c] = route[c]
        /\ epoch'[c] = num_servers' =>
               epoch[c] = num_servers /\ PortOf(op[c].key)' = PortOf(op[c].key)

\* No client was routed under the current set of servers.
NobodyRouted == \A c \in Clients : epoch[c] # num_servers

\* A request keeps its meaning when its client stays and its queue mates are
\* mates of before.
LEMMA RequestKept ==
    ASSUME op' = op, NEW s, NEW i, NEW j, RequestAt(s, j),
           \A c \in Clients : Brings(queue[s][j], c) => StaysRouted(c),
           queue'[s][i] = queue[s][j],
           ReorgAfter(s, i)' => ReorgAfter(s, j) \/ NobodyRouted',
           \A c \in Clients, n \in DOMAIN queue'[s] :
               Brings(queue[s][j], c) /\ Brings(queue'[s][n], c) => n = i
    PROVE  RequestAt(s, i)'
BY DEF RequestAt, StaysRouted, NobodyRouted, Brings

LEMMA RequestsKept ==
    ASSUME op' = op, \A c \in Clients : StaysRouted(c),
           \A s \in Servers : \A i \in DOMAIN queue[s] : RequestAt(s, i),
           \A s \in Servers : queue'[s] = queue[s]
    PROVE  \A s \in Servers : \A i \in DOMAIN queue'[s] : RequestAt(s, i)'
<1> SUFFICES ASSUME NEW s \in Servers, NEW i \in DOMAIN queue'[s] PROVE RequestAt(s, i)'
  OBVIOUS
<1>1. ReorgAfter(s, i)' => ReorgAfter(s, i)
  BY DEF ReorgAfter
<1>2. RequestAt(s, i)
  OBVIOUS
<1>3. \A c \in Clients, n \in DOMAIN queue'[s] :
          Brings(queue[s][i], c) /\ Brings(queue'[s][n], c) => n = i
  BY <1>2 DEF RequestAt
<1> QED
  BY <1>1, <1>2, <1>3, RequestKept

LEMMA RequestsAfterSend ==
    ASSUME NetTypeOK, op' = op, \A c \in Clients : StaysRouted(c),
           \A s \in Servers : \A i \in DOMAIN queue[s] : RequestAt(s, i),
           NEW p \in Procs, NEW m, Send(p, m), m.type = "REORG" => NobodyRouted',
           \A c \in Clients : p \in Servers /\ Brings(m, c) => cpc[c] # "request",
           \A s \in Servers : \A i : s = p /\ i = Len(queue[p]) + 1 => RequestAt(s, i)'
    PROVE  \A s \in Servers : \A i \in DOMAIN queue'[s] : RequestAt(s, i)'
<1> SUFFICES ASSUME NEW s \in Servers, NEW i \in DOMAIN queue'[s] PROVE RequestAt(s, i)'
  OBVIOUS
<1>0. s \in Procs
  BY DEF Procs
<1>1. CASE s = p /\ i = Len(queue[p]) + 1
  BY <1>1
<1>2. CASE ~(s = p /\ i = Len(queue[p]) + 1)
  <2>1. i \in DOMAIN queue[s] /\ queue'[s][i] = queue[s][i] /\ RequestAt(s, i)
    BY <1>0, <1>2, SendQueue
  <2>2. ReorgAfter(s, i)' => ReorgAfter(s, i) \/ NobodyRouted'
    BY <1>0, ReorgAfterSend
  <2>3. ASSUME NEW c \in Clients, NEW n \in DOMAIN queue'[s],
               Brings(queue[s][i], c), Brings(queue'[s][n], c)
        PROVE  n = i
    <3>1. cpc[c] = "request"
      BY <2>1, <2>3 DEF RequestAt
    <3>2. n \in DOMAIN queue[s] /\ queue'[s][n] = queue[s][n]
      BY <1>0, <2>3, <3>1, SendQueue
    <3> QED
      BY <2>1, <2>3, <3>2 DEF RequestAt
  <2> QED
    BY <2>1, <2>2, <2>3, RequestKept
<1> QED
  BY <1>1, <1>2

\* A process accepts a request: nobody else's operation is disturbed.
LEMMA RequestsAfterAccept ==
    ASSUME NetTypeOK, op' = op,
           \A s \in Servers : \A i \in DOMAIN queue[s] : RequestAt(s, i),
           NEW p \in Procs, NEW t, Accept(p, t),
           \A c \in Clients : ~(p \in Servers /\ Brings(queue[p][1], c)) => StaysRouted(c)
    PROVE  \A s \in Servers : \A i \in DOMAIN queue'[s] : RequestAt(s, i)'
<1> SUFFICES ASSUME NEW s \in Servers, NEW i \in DOMAIN queue'[s] PROVE RequestAt(s, i)'
  OBVIOUS
<1>0. s \in Procs
  BY DEF Procs
<1>a. /\ Len(queue[p]) \in Nat /\ DOMAIN queue[p] = 1..Len(queue[p]) /\ 1 \in DOMAIN queue[p]
      /\ DOMAIN queue'[p] = 1..(Len(queue[p]) - 1)
      /\ \A j \in 1..(Len(queue[p]) - 1) : queue'[p][j] = queue[p][j + 1]
  BY AcceptQueue
<1>1. CASE s # p
  <2>1. queue'[s] = queue[s] /\ i \in DOMAIN queue[s] /\ RequestAt(s, i)
    BY <1>0, <1>1, AcceptQueue
  <2>2. ASSUME NEW c \in Clients, Brings(queue[s][i], c) PROVE StaysRouted(c)
    <3>1. route[c] = s
      BY <2>1, <2>2 DEF RequestAt
    <3>2. ~(p \in Servers /\ Brings(queue[p][1], c))
      BY <1>1, <1>a, <3>1 DEF RequestAt
    <3> QED
      BY <3>2
  <2>3. ReorgAfter(s, i)' => ReorgAfter(s, i)
    BY <2>1 DEF ReorgAfter
  <2>4. \A c \in Clients, n \in DOMAIN queue'[s] :
            Brings(queue[s][i], c) /\ Brings(queue'[s][n], c) => n = i
    BY <2>1 DEF RequestAt
  <2> QED
    BY <2>1, <2>2, <2>3, <2>4, RequestKept
<1>2. CASE s = p
  <2>1. /\ i \in Nat /\ i # 0 /\ i + 1 \in DOMAIN queue[s] /\ queue'[s][i] = queue[s][i + 1]
        /\ 1 \in DOMAIN queue[s]
        /\ \A n \in DOMAIN queue'[s] :
              n \in Nat /\ n + 1 \in DOMAIN queue[s] /\ queue'[s][n] = queue[s][n + 1]
    BY <1>2, <1>a
  <2>2. ReorgAfter(s, i)' => ReorgAfter(s, i + 1)
    BY <1>0, <1>2, <2>1, ReorgAfterAccept
  <2>3. RequestAt(s, i + 1)
    BY <2>1
  <2>4. ASSUME NEW c \in Clients, Brings(queue[s][i + 1], c) PROVE StaysRouted(c)
    <3>1. \A j \in DOMAIN queue[s] : Brings(queue[s][j], c) => j = i + 1
      BY <2>3, <2>4 DEF RequestAt
    <3>2. ~Brings(queue[p][1], c)
      BY <1>2, <2>1, <3>1
    <3> QED
      BY <3>2
  <2>5. ASSUME NEW c \in Clients, NEW n \in DOMAIN queue'[s],
               Brings(queue[s][i + 1], c), Brings(queue'[s][n], c)
        PROVE  n = i
    <3>1. n + 1 = i + 1
      BY <2>1, <2>3, <2>5 DEF RequestAt
    <3> QED
      BY <2>1, <3>1
  <2> QED
    BY <2>1, <2>2, <2>3, <2>4, <2>5, RequestKept
<1> QED
  BY <1>1, <1>2

\* Client c goes on waiting for the master, if it does.
GoesOnWaiting(c) ==
    cpc[c] = "lookup" /\ inbox[c].kind = "none" => cpc'[c] = cpc[c] /\ inbox'[c] = inbox[c]

LEMMA LookupsKept ==
    ASSUME op' = op, \A c \in Clients : GoesOnWaiting(c),
           \A i \in DOMAIN queue[Master] : LookupAt(i), queue'[Master] = queue[Master]
    PROVE  \A i \in DOMAIN queue'[Master] : LookupAt(i)'
BY DEF LookupAt, GoesOnWaiting

\* A request of a process that is no client's lookup.
LEMMA LookupsAfterOther ==
    ASSUME NetTypeOK, op' = op, \A c \in Clients : GoesOnWaiting(c),
           \A i \in DOMAIN queue[Master] : LookupAt(i),
           NEW p \in Procs, NEW m, Send(p, m), \A c \in Clients : p = Master => ~Asked(m, c)
    PROVE  \A i \in DOMAIN queue'[Master] : LookupAt(i)'
<1>1. CASE p # Master
  <2>1. queue'[Master] = queue[Master]
    BY <1>1, SendQueue DEF Procs
  <2> QED
    BY <2>1, LookupsKept
<1>2. CASE p = Master
  <2> SUFFICES ASSUME NEW i \in DOMAIN queue'[Master], NEW c \in Clients,
                      Asked(queue'[Master][i], c)
               PROVE  /\ cpc'[c] = "lookup" /\ inbox'[c].kind = "none"
                      /\ queue'[Master][i].key = op'[c].key
                      /\ \A j \in DOMAIN queue'[Master] : Asked(queue'[Master][j], c) => j = i
    BY DEF LookupAt
  <2>1. \A j \in DOMAIN queue'[Master] : Asked(queue'[Master][j], c) =>
            j \in DOMAIN queue[Master] /\ queue'[Master][j] = queue[Master][j]
    BY <1>2, SendQueue
  <2>2. LookupAt(i) /\ Asked(queue[Master][i], c) /\ queue'[Master][i] = queue[Master][i]
    BY <2>1
  <2>3. /\ cpc[c] = "lookup" /\ inbox[c].kind = "none" /\ queue[Master][i].key = op[c].key
        /\ \A j \in DOMAIN queue[Master] : Asked(queue[Master][j], c) => j = i
    BY <2>2 DEF LookupAt
  <2> QED
    BY <2>1, <2>2, <2>3 DEF GoesOnWaiting
<1> QED
  BY <1>1, <1>2

\* The master accepts a request: every other client's lookup is still there.
LEMMA LookupsAfterAccept ==
    ASSUME NetTypeOK, op' = op, \A i \in DOMAIN queue[Master] : LookupAt(i),
           NEW t, Accept(Master, t),
           \A c \in Clients : ~Asked(queue[Master][1], c) => GoesOnWaiting(c)
    PROVE  \A i \in DOMAIN queue'[Master] : LookupAt(i)'
<1> SUFFICES ASSUME NEW i \in DOMAIN queue'[Master], NEW c \in Clients,
                    Asked(queue'[Master][i], c)
             PROVE  /\ cpc'[c] = "lookup" /\ inbox'[c].kind = "none"
                    /\ queue'[Master][i].key = op'[c].key
                    /\ \A j \in DOMAIN queue'[Master] : Asked(queue'[Master][j], c) => j = i
  BY DEF LookupAt
<1>1. \A j \in DOMAIN queue'[Master] :
          j \in Nat /\ j # 0 /\ j + 1 \in DOMAIN queue[Master]
          /\ queue'[Master][j] = queue[Master][j + 1]
  BY AcceptQueue DEF Procs
<1>2. 1 \in DOMAIN queue[Master]
  BY AcceptQueue DEF Procs
<1>3. /\ cpc[c] = "lookup" /\ inbox[c].kind = "none" /\ queue[Master][i + 1].key = op[c].key
      /\ \A j \in DOMAIN queue[Master] : Asked(queue[Master][j], c) => j = i + 1
  BY <1>1 DEF LookupAt
<1>4. ~Asked(queue[Master][1], c)
  BY <1>1, <1>2, <1>3
<1>5. \A j \in DOMAIN queue'[Master] : Asked(queue'[Master][j], c) => j = i
  BY <1>1, <1>3
<1> QED
  BY <1>1, <1>3, <1>4, <1>5 DEF GoesOnWaiting
-----------------------------------------------------------------------------
(* The history. *)

LEMMA PlacedKept ==
    ASSUME History, UNCHANGED server_port_map, \A c \in Clients : ~Gets(c, "data")
    PROVE  \A k \in KeyFields : placed'[k] = placed[k]
BY DEF History, Stored

LEMMA EpochKept ==
    ASSUME History, NEW c \in Clients, ~Gets(c, "port")
    PROVE  epoch'[c] = epoch[c]
BY DEF History

\* What is known of a key carries over when its place does.
LEMMA PlacedCarries ==
    ASSUME NEW k, Placed(k), placed'[k] = placed[k], kv_map[k] # None => kv_map'[k] # None,
           AtMaster(k) \/ AtShard(k) => (AtMaster(k) \/ AtShard(k))',
           mpc' = "reorg" => mpc = "reorg"
    PROVE  Placed(k)'
BY DEF Placed

LEMMA RoutedKept ==
    ASSUME NEW c \in Clients, Routed(c), epoch'[c] = epoch[c], op' = op, cpc'[c] = cpc[c],
           inbox'[c] = inbox[c], route'[c] = route[c], code'[c] = code[c],
           UNCHANGED server_port_map, Redistributes' => Redistributes
    PROVE  Routed(c)'
BY PortKept DEF Routed, num_servers
-----------------------------------------------------------------------------
(* The master's steps. *)

LEMMA MasterKeeps ==
    ASSUME TypeInv, PlacementInv, UNCHANGED <<serverVars, clientVars>>, History,
           UNCHANGED <<server_port_map, inbox>>, Redistributes' => Redistributes
    PROVE  /\ op' = op
           /\ \A c \in Clients : StaysRouted(c) /\ GoesOnWaiting(c) /\ Routed(c)'
           /\ \A k \in KeyFields : placed'[k] = placed[k]
<1>1. \A c \in Clients : ~Gets(c, "port") /\ ~Gets(c, "data")
  BY DEF Gets
<1>2. \A c \in Clients : epoch'[c] = epoch[c]
  BY <1>1, EpochKept
<1>3. \A k \in KeyFields : placed'[k] = placed[k]
  BY <1>1, PlacedKept
<1>4. \A c \in Clients : Routed(c)'
  BY <1>2, RoutedKept DEF PlacementInv, clientVars
<1>5. \A c \in Clients : StaysRouted(c) /\ GoesOnWaiting(c)
  BY <1>2, PortKept DEF StaysRouted, GoesOnWaiting, clientVars, num_servers
<1> QED
  BY <1>3, <1>4, <1>5 DEF clientVars

LEMMA MasterReceivesKeeps ==
    ASSUME TypeInv, PlacementInv, UNCHANGED <<serverVars, clientVars>>, NEW t, MasterReceives(t),
           \A c \in Clients : StaysRouted(c),
           \A c \in Clients : ~Asked(queue[Master][1], c) => GoesOnWaiting(c)
    PROVE  /\ \A i \in DOMAIN queue'[Master] : LookupAt(i)'
           /\ \A s \in Servers : \A i \in DOMAIN queue'[s] : RequestAt(s, i)'
           /\ \A s \in Servers : queue'[s] = queue[s]
<1>1. Accept(Master, t) /\ Master \in Procs /\ op' = op /\ NetTypeOK
  BY DEF MasterReceives, Procs, clientVars, TypeInv, TypeOK
<1>2. \A i \in DOMAIN queue'[Master] : LookupAt(i)'
  BY <1>1, LookupsAfterAccept DEF PlacementInv
<1>3. \A s \in Servers : \A i \in DOMAIN queue'[s] : RequestAt(s, i)'
  BY <1>1, RequestsAfterAccept DEF PlacementInv
<1>4. \A s \in Servers : queue'[s] = queue[s]
  BY <1>1, AcceptQueue, NetAssumption DEF Procs
<1> QED
  BY <1>2, <1>3, <1>4

\* MasterDrop and MasterPut.
LEMMA DropPutPlacement ==
    ASSUME TypeInv, PlacementInv, UNCHANGED <<serverVars, clientVars>>, History,
           MasterDrop \/ MasterPut
    PROVE  PlacementInv'
<1>1. PICK t : MasterReceives(t)
  BY DEF MasterDrop, MasterPut
<1>2. /\ UNCHANGED <<mpc, server_port_map, reorg_next, reput_left, listening, inbox>>
      /\ \A k : kv_map[k] # None => kv_map'[k] # None
  <2>1. CASE MasterDrop
    BY <2>1 DEF MasterDrop, masterVars
  <2>2. CASE MasterPut
    BY <2>2, NetAssumption DEF MasterPut, TypeInv, TypeOK, MasterTypeOK
  <2> QED
    BY <2>1, <2>2
<1>3. /\ \A c \in Clients : StaysRouted(c) /\ GoesOnWaiting(c) /\ Routed(c)'
      /\ \A k \in KeyFields : placed'[k] = placed[k]
  BY <1>2, MasterKeeps DEF Redistributes
<1>4. /\ \A i \in DOMAIN queue'[Master] : LookupAt(i)'
      /\ \A s \in Servers : \A i \in DOMAIN queue'[s] : RequestAt(s, i)'
      /\ \A s \in Servers : queue'[s] = queue[s]
  BY <1>1, <1>3, MasterReceivesKeeps
<1>5. ASSUME NEW k \in KeyFields PROVE Placed(k)'
  <2>1. AtShard(k) => AtShard(k)'
    BY <1>2, <1>4, ShardKept DEF serverVars, TypeInv, TypeOK
  <2>2. AtMaster(k) => AtMaster(k)'
    BY <1>2 DEF AtMaster
  <2> QED
    BY <1>2, <1>3, <2>1, <2>2, PlacedCarries DEF PlacementInv
<1> QED
  BY <1>2, <1>3, <1>4, <1>5 DEF PlacementInv

LEMMA JoinPlacement ==
    ASSUME TypeInv, PlacementInv, UNCHANGED <<serverVars, clientVars>>, History, MasterJoin
    PROVE  PlacementInv'
<1>1. /\ MasterReceives("SERVER") /\ UNCHANGED <<kv_map, reput_left, listening, inbox>>
      /\ server_port_map' = Append(server_port_map, Request(Master).from)
      /\ Len(server_port_map') >= 3 => mpc' = "reorg"
      /\ Len(server_port_map') = Len(server_port_map) + 1 /\ Len(server_port_map) \in Nat
      /\ mpc' = "reorg" => Len(server_port_map') >= 3
  <2>1. server_port_map \in Seq(Servers)
    BY DEF TypeInv, TypeOK, MasterTypeOK
  <2>2. PICK f : f = Request(Master).from
    OBVIOUS
  <2>3. server_port_map' = Append(server_port_map, f) /\ MasterReceives("SERVER")
    BY <2>2 DEF MasterJoin
  <2>4. Len(server_port_map') = Len(server_port_map) + 1 /\ Len(server_port_map) \in Nat
    BY <2>1, <2>3
  <2> QED
    BY <2>2, <2>3, <2>4 DEF MasterJoin, MasterReceives, NeedsReorg, num_servers
<1>2. \A c \in Clients : epoch'[c] = epoch[c] /\ epoch[c] \in 0..num_servers
  BY <1>1, EpochKept DEF Gets, PlacementInv, Routed
<1>3. num_servers' = num_servers + 1 /\ num_servers \in Nat
  BY <1>1 DEF num_servers
<1>4. \A c \in Clients : epoch'[c] \in 0..num_servers' /\ epoch'[c] < num_servers'
  BY <1>2, <1>3
<1>a. \A c \in Clients : inbox[c].kind # "eof" /\ (cpc[c] # "done" => code[c] = -1)
  BY DEF PlacementInv, Routed
<1>5. \A c \in Clients : StaysRouted(c) /\ GoesOnWaiting(c) /\ Routed(c)'
  BY <1>1, <1>4, <1>a DEF StaysRouted, GoesOnWaiting, Routed, clientVars
<1>6. /\ \A i \in DOMAIN queue'[Master] : LookupAt(i)'
      /\ \A s \in Servers : \A i \in DOMAIN queue'[s] : RequestAt(s, i)'
  BY <1>1, <1>5, MasterReceivesKeeps
<1>7. ASSUME NEW k \in KeyFields PROVE Placed(k)'
  <2>1. server_port_map' # server_port_map
    BY <1>1
  <2>2. placed'[k] # None => Len(server_port_map') >= 3 /\ kv_map[k] # None
    BY <2>1 DEF History
  <2> QED
    BY <1>1, <2>2 DEF Placed, AtMaster
<1> QED
  BY <1>1, <1>5, <1>6, <1>7 DEF PlacementInv

LEMMA LookupPlacement ==
    ASSUME TypeInv, PlacementInv, UNCHANGED <<serverVars, clientVars>>, History, MasterLookup
    PROVE  PlacementInv'
<1>1. /\ MasterReceives("GET") /\ queue[Master] # <<>> /\ mpc = "accept"
      /\ UNCHANGED <<mpc, server_port_map, kv_map, reorg_next, reput_left, listening>>
      /\ num_servers \in Nat /\ num_servers' = num_servers
  BY DEF MasterLookup, MasterReceives, Accept, TypeInv, TypeOK, MasterTypeOK, num_servers
<1>2. PICK b, k0 : b = Request(Master).from /\ k0 = Request(Master).key
  OBVIOUS
<1>3. /\ b = queue[Master][1].from /\ k0 = queue[Master][1].key /\ 1 \in DOMAIN queue[Master]
      /\ queue[Master][1].type = "GET" /\ Accept(Master, "GET")
  <2>1. NetTypeOK /\ Master \in Procs /\ Accept(Master, "GET")
    BY <1>1 DEF TypeInv, TypeOK, Procs, MasterReceives
  <2>2. queue[Master][1].type = "GET"
    BY <2>1, AcceptQueue
  <2> QED
    BY <1>1, <1>2, <2>1, <2>2, RequestType
<1>4. /\ \A c \in Clients \ {b} : inbox'[c] = inbox[c]
      /\ b \in Clients => inbox'[b] = PortReply(PortOf(k0))
  BY <1>2 DEF MasterLookup, Respond, TypeInv, TypeOK, NetTypeOK
<1>5. b \in Clients => /\ cpc[b] = "lookup" /\ k0 = op[b].key /\ Asked(queue[Master][1], b)
                       /\ inbox'[b].kind = "port" /\ inbox'[b].port = PortOf(op[b].key)
  <2>1. b \in Clients => cpc[b] = "lookup" /\ k0 = op[b].key /\ Asked(queue[Master][1], b)
    BY <1>3 DEF PlacementInv, LookupAt, Asked
  <2>2. PortReply(PortOf(k0)).kind = "port" /\ PortReply(PortOf(k0)).port = PortOf(k0)
    BY DEF PortReply, NoReply
  <2> QED
    BY <1>4, <2>1, <2>2
<1>6. \A c \in Clients : epoch'[c] = epoch[c] \/ (c = b /\ epoch'[c] = num_servers)
  BY <1>4 DEF History, Gets
<1>7. \A c \in Clients : ~Gets(c, "data")
  BY <1>4, <1>5 DEF Gets
<1>8. ASSUME NEW c \in Clients PROVE StaysRouted(c)
  BY <1>1, <1>4, <1>5, <1>6, PortKept DEF StaysRouted, clientVars
<1>9. ASSUME NEW c \in Clients, ~Asked(queue[Master][1], c) PROVE GoesOnWaiting(c)
  BY <1>4, <1>5, <1>9 DEF GoesOnWaiting, clientVars
<1>10. ASSUME NEW c \in Clients PROVE Routed(c)'
  <2>1. Routed(c)
    BY DEF PlacementInv
  <2>2. PortOf(op[c].key)' = PortOf(op[c].key)
    BY <1>1, PortKept DEF clientVars
  <2>3. CASE c # b
    <3>1. inbox'[c] = inbox[c] /\ epoch'[c] = epoch[c]
      BY <1>4, <1>6, <2>3
    <3> QED
      BY <1>1, <2>1, <2>2, <3>1 DEF Routed, Redistributes, clientVars
  <2>4. CASE c = b
    <3>1. epoch'[c] \in 0..num_servers'
      BY <1>1, <1>6, <2>1 DEF Routed
    <3>2. cpc'[c] = "lookup" /\ inbox'[c].port = PortOf(op[c].key)'
      BY <1>5, <2>2, <2>4 DEF clientVars
    <3> QED
      BY <1>1, <1>5, <2>1, <2>4, <3>1, <3>2 DEF Routed, Redistributes, clientVars
  <2> QED
    BY <2>3, <2>4
<1>11. /\ \A i \in DOMAIN queue'[Master] : LookupAt(i)'
       /\ \A s \in Servers : \A i \in DOMAIN queue'[s] : RequestAt(s, i)'
       /\ \A s \in Servers : queue'[s] = queue[s]
  BY <1>1, <1>8, <1>9, MasterReceivesKeeps
<1>12. ASSUME NEW k \in KeyFields PROVE Placed(k)'
  <2>1. AtShard(k) => AtShard(k)'
    BY <1>1, <1>11, ShardKept DEF serverVars, TypeInv, TypeOK
  <2>2. placed'[k] = placed[k]
    BY <1>1, <1>7, PlacedKept
  <2> QED
    BY <1>1, <2>1, <2>2, PlacedCarries DEF PlacementInv, AtMaster
<1> QED
  BY <1>1, <1>10, <1>11, <1>12 DEF PlacementInv

LEMMA ReorgPlacement ==
    ASSUME TypeInv, PlacementInv, UNCHANGED <<serverVars, clientVars>>, History, MasterReorg
    PROVE  PlacementInv'
<1>1. /\ mpc = "reorg" /\ UNCHANGED <<server_port_map, kv_map, listening, inbox>>
      /\ mpc' = "reorg" \/ (mpc' = "reput" /\ reput_left' = KnownKeys)
  BY DEF MasterReorg
<1>2. PICK p, m : /\ p \in Procs /\ Send(p, m) /\ m.type = "REORG" /\ m.from = Master
  BY DEF MasterReorg, CanConnect, MkMsg
<1>3. /\ op' = op
      /\ \A c \in Clients : StaysRouted(c) /\ GoesOnWaiting(c) /\ Routed(c)'
      /\ \A k \in KeyFields : placed'[k] = placed[k]
  BY <1>1, MasterKeeps DEF Redistributes
<1>4. NobodyRouted'
  <2>1. \A c \in Clients : epoch'[c] = epoch[c]
    BY <1>1, EpochKept DEF Gets
  <2>2. \A c \in Clients : epoch[c] \in 0..num_servers /\ epoch[c] < num_servers
    BY <1>1 DEF PlacementInv, Routed, Redistributes
  <2> QED
    BY <1>1, <2>1, <2>2 DEF NobodyRouted, num_servers
<1>5. \A s \in Servers : \A i : s = p /\ i = Len(queue[p]) + 1 => RequestAt(s, i)'
  <2>1. queue'[p][Len(queue[p]) + 1] = m
    BY <1>2, SendQueue DEF TypeInv, TypeOK
  <2> QED
    BY <1>2, <2>1 DEF RequestAt, Brings
<1>6. \A s \in Servers : \A i \in DOMAIN queue'[s] : RequestAt(s, i)'
  BY <1>2, <1>3, <1>4, <1>5, RequestsAfterSend DEF PlacementInv, TypeInv, TypeOK, Brings
<1>7. \A i \in DOMAIN queue'[Master] : LookupAt(i)'
  <2>1. \A c \in Clients : ~Asked(m, c)
    BY <1>2 DEF Asked
  <2> QED
    BY <1>2, <1>3, <2>1, LookupsAfterOther DEF PlacementInv, TypeInv, TypeOK
<1>8. ASSUME NEW k \in KeyFields PROVE Placed(k)'
  <2>1. placed'[k] # None => kv_map[k] # None /\ kv_map'[k] # None
    BY <1>1, <1>3 DEF PlacementInv, Placed
  <2> QED
    BY <1>1, <2>1 DEF Placed, AtMaster, KnownKeys
<1> QED
  BY <1>1, <1>3, <1>6, <1>7, <1>8 DEF PlacementInv

LEMMA ReorgPutPlacement ==
    ASSUME TypeInv, PlacementInv, UNCHANGED <<serverVars, clientVars>>, History, MasterReorgPut
    PROVE  PlacementInv'
<1>0. NetTypeOK /\ MasterTypeOK
  BY DEF TypeInv, TypeOK
<1>1. /\ mpc = "reput" /\ UNCHANGED <<mpc, server_port_map, kv_map, listening, inbox>>
  BY DEF MasterReorgPut
<1>2. PICK k0 \in reput_left : /\ CanConnect(PortOf(k0))
                               /\ Send(PortOf(k0), MkMsg("REORG_PUT", k0, kv_map[k0], Master))
                               /\ reput_left' = reput_left \ {k0}
  BY DEF MasterReorgPut
<1>3. PICK p, m : p = PortOf(k0) /\ m = MkMsg("REORG_PUT", k0, kv_map[k0], Master)
  OBVIOUS
<1>4. p \in Procs /\ Send(p, m) /\ m.type = "REORG_PUT" /\ m.key = k0 /\ m.from = Master
  BY <1>2, <1>3 DEF CanConnect, MkMsg
<1>5. p \in Servers /\ p # NoPort
  BY <1>0, <1>3, <1>4, PortType, NetAssumption DEF Procs
<1>6. /\ op' = op
      /\ \A c \in Clients : StaysRouted(c) /\ GoesOnWaiting(c) /\ Routed(c)'
      /\ \A k \in KeyFields : placed'[k] = placed[k]
  BY <1>1, MasterKeeps DEF Redistributes
<1>7. /\ Len(queue[p]) + 1 \in DOMAIN queue'[p] /\ queue'[p][Len(queue[p]) + 1] = m
      /\ \A j \in DOMAIN queue'[p] : ~(j > Len(queue[p]) + 1)
  BY <1>0, <1>4, SendQueue
<1>8. \A s \in Servers : \A i \in DOMAIN queue'[s] : RequestAt(s, i)'
  <2>1. \A s \in Servers : \A i : s = p /\ i = Len(queue[p]) + 1 => RequestAt(s, i)'
    BY <1>4, <1>7 DEF RequestAt, Brings
  <2> QED
    BY <1>0, <1>4, <1>6, <2>1, RequestsAfterSend DEF PlacementInv, Brings
<1>9. \A i \in DOMAIN queue'[Master] : LookupAt(i)'
  <2>1. \A c \in Clients : ~Asked(m, c)
    BY <1>4 DEF Asked
  <2> QED
    BY <1>0, <1>4, <1>6, <2>1, LookupsAfterOther DEF PlacementInv
<1>10. ASSUME NEW k \in KeyFields PROVE Placed(k)'
  <2>1. AtShard(k) => AtShard(k)'
    BY <1>0, <1>1, <1>4, ShardAfterSend DEF serverVars
  <2>2. AtMaster(k) => AtMaster(k)' \/ k = k0
    BY <1>1, <1>2 DEF AtMaster
  <2>3. AtShard(k0)'
    <3>1. PortOf(k0)' = p
      BY <1>1, <1>3, PortKept
    <3>2. PICK n : n = Len(queue[p]) + 1
      OBVIOUS
    <3>3. /\ n \in DOMAIN queue'[p] /\ queue'[p][n] = m
          /\ \A j \in DOMAIN queue'[p] : ~(j > n)
      BY <1>7, <3>2
    <3>4. ~ReorgAfter(p, n)'
      BY <3>3 DEF ReorgAfter
    <3>5. n \in Nat /\ n + 1 \in Nat /\ n < n + 1
      BY <1>0, <1>4, <3>2, SendQueue
    <3>6. Ahead(p, n + 1, k0)'
      BY <1>4, <3>3, <3>4, <3>5 DEF Ahead
    <3> QED
      BY <1>5, <3>1, <3>5, <3>6 DEF AtShard
  <2> QED
    BY <1>1, <1>6, <2>1, <2>2, <2>3, PlacedCarries DEF PlacementInv
<1> QED
  BY <1>1, <1>6, <1>8, <1>9, <1>10 DEF PlacementInv

\* MasterReorgDone and MasterOutOfDescriptors.
LEMMA DonePlacement ==
    ASSUME TypeInv, PlacementInv, UNCHANGED <<serverVars, clientVars>>, History,
           MasterReorgDone \/ MasterOutOfDescriptors
    PROVE  PlacementInv'
<1>1. /\ UNCHANGED <<server_port_map, kv_map, reput_left, netVars>>
      /\ mpc' \notin {"reorg", "reput"} /\ mpc # "reorg" /\ (mpc = "reput" => reput_left = {})
  BY DEF MasterReorgDone, MasterOutOfDescriptors
<1>2. UNCHANGED <<listening, queue, inbox>>
  BY <1>1 DEF netVars
<1>3. /\ op' = op
      /\ \A c \in Clients : StaysRouted(c) /\ GoesOnWaiting(c) /\ Routed(c)'
      /\ \A k \in KeyFields : placed'[k] = placed[k]
  BY <1>1, <1>2, MasterKeeps DEF Redistributes
<1>4. \A s \in Servers : \A i \in DOMAIN queue'[s] : RequestAt(s, i)'
  BY <1>2, <1>3, RequestsKept DEF PlacementInv
<1>5. \A i \in DOMAIN queue'[Master] : LookupAt(i)'
  BY <1>2, <1>3, LookupsKept DEF PlacementInv
<1>6. ASSUME NEW k \in KeyFields PROVE Placed(k)'
  <2>1. AtShard(k) => AtShard(k)'
    BY <1>1, <1>2, ShardKept DEF serverVars, TypeInv, TypeOK
  <2>2. ~AtMaster(k)
    BY <1>1 DEF AtMaster
  <2> QED
    BY <1>1, <1>3, <2>1, <2>2, PlacedCarries DEF PlacementInv
<1> QED
  BY <1>2, <1>3, <1>4, <1>5, <1>6 DEF PlacementInv

LEMMA MasterPlacement ==
    ASSUME TypeInv, PlacementInv, UNCHANGED <<serverVars, clientVars>>, History, MasterNext,
           Intact'
    PROVE  PlacementInv'
<1>1. ~(MasterConnectFails \/ MasterDividesByZero)
  BY DEF MasterConnectFails, MasterDividesByZero, MasterLeaves, Intact
<1> QED
  BY <1>1, DropPutPlacement, JoinPlacement, LookupPlacement, ReorgPlacement, ReorgPutPlacement,
     DonePlacement
  DEF MasterNext
-----------------------------------------------------------------------------
(* The shards' steps. *)

\* Steps of shards, but for an answered PUT, change nothing the history sees.
LEMMA ServerKeeps ==
    ASSUME TypeInv, PlacementInv, UNCHANGED <<masterVars, clientVars>>, History, UNCHANGED inbox
    PROVE  /\ op' = op
           /\ \A c \in Clients : StaysRouted(c) /\ GoesOnWaiting(c) /\ Routed(c)'
           /\ \A k \in KeyFields : placed'[k] = placed[k]
<1>1. \A c \in Clients : ~Gets(c, "port") /\ ~Gets(c, "data")
  BY DEF Gets
<1>2. \A c \in Clients : epoch'[c] = epoch[c]
  BY <1>1, EpochKept
<1>3. \A k \in KeyFields : placed'[k] = placed[k]
  BY <1>1, PlacedKept DEF masterVars
<1>4. \A c \in Clients : Routed(c)'
  BY <1>2, RoutedKept DEF PlacementInv, Redistributes, clientVars, masterVars
<1>5. \A c \in Clients : StaysRouted(c) /\ GoesOnWaiting(c)
  BY <1>2, PortKept DEF StaysRouted, GoesOnWaiting, clientVars, masterVars, num_servers
<1> QED
  BY <1>3, <1>4, <1>5 DEF clientVars

\* A server registers or reports to the master.
LEMMA ServerSendPlacement ==
    ASSUME TypeInv, PlacementInv, UNCHANGED <<masterVars, clientVars>>, History,
           UNCHANGED <<db, listening, inbox>>,
           NEW m, Send(Master, m), m.type \in {"SERVER", "MASTER_PUT"}
    PROVE  PlacementInv'
<1>1. /\ op' = op
      /\ \A c \in Clients : StaysRouted(c) /\ GoesOnWaiting(c) /\ Routed(c)'
      /\ \A k \in KeyFields : placed'[k] = placed[k]
  BY ServerKeeps
<1>2. NetTypeOK /\ MasterTypeOK /\ Master \in Procs /\ Master \notin Servers
  BY NetAssumption DEF TypeInv, TypeOK, Procs
<1>3. \A s \in Servers : \A i \in DOMAIN queue'[s] : RequestAt(s, i)'
  BY <1>1, <1>2, RequestsAfterSend DEF PlacementInv
<1>4. \A i \in DOMAIN queue'[Master] : LookupAt(i)'
  <2>1. \A c \in Clients : ~Asked(m, c)
    BY DEF Asked
  <2> QED
    BY <1>1, <1>2, <2>1, LookupsAfterOther DEF PlacementInv
<1>5. ASSUME NEW k \in KeyFields PROVE Placed(k)'
  <2>1. AtShard(k) => AtShard(k)'
    BY <1>2, ShardAfterSend DEF masterVars
  <2>2. AtMaster(k) => AtMaster(k)'
    BY DEF AtMaster, masterVars
  <2> QED
    BY <1>1, <2>1, <2>2, PlacedCarries DEF PlacementInv, masterVars
<1> QED
  BY <1>1, <1>3, <1>4, <1>5 DEF PlacementInv

\* A server's step on no connection: it opens its socket.
LEMMA ServerQuietPlacement ==
    ASSUME TypeInv, PlacementInv, UNCHANGED <<masterVars, clientVars>>, History,
           UNCHANGED <<db, queue, inbox>>, listening'[Master]
    PROVE  PlacementInv'
<1>1. /\ op' = op
      /\ \A c \in Clients : StaysRouted(c) /\ GoesOnWaiting(c) /\ Routed(c)'
      /\ \A k \in KeyFields : placed'[k] = placed[k]
  BY ServerKeeps
<1>2. \A s \in Servers : \A i \in DOMAIN queue'[s] : RequestAt(s, i)'
  BY <1>1, RequestsKept DEF PlacementInv
<1>3. \A i \in DOMAIN queue'[Master] : LookupAt(i)'
  BY <1>1, LookupsKept DEF PlacementInv
<1>4. ASSUME NEW k \in KeyFields PROVE Placed(k)'
  <2>1. AtShard(k) => AtShard(k)'
    BY ShardKept DEF masterVars, TypeInv, TypeOK
  <2>2. AtMaster(k) => AtMaster(k)'
    BY DEF AtMaster, masterVars
  <2> QED
    BY <1>1, <2>1, <2>2, PlacedCarries DEF PlacementInv, masterVars
<1> QED
  BY <1>1, <1>2, <1>3, <1>4 DEF PlacementInv

\* Server s accepts a request that the master or nobody waits on.
LEMMA ServerAcceptPlacement ==
    ASSUME TypeInv, PlacementInv, UNCHANGED <<masterVars, clientVars>>, History,
           UNCHANGED <<listening, inbox>>, NEW s \in Servers, NEW t, Accept(s, t),
           \A q \in Servers : q # s => db'[q] = db[q],
           \A k \in KeyFields : t # "REORG" /\ db[s][k] # None => db'[s][k] # None,
           \A k \in KeyFields : t = "REORG_PUT" /\ queue[s][1].key = k => db'[s][k] # None
    PROVE  PlacementInv'
<1>1. /\ op' = op
      /\ \A c \in Clients : StaysRouted(c) /\ GoesOnWaiting(c) /\ Routed(c)'
      /\ \A k \in KeyFields : placed'[k] = placed[k]
  BY ServerKeeps
<1>2. NetTypeOK /\ MasterTypeOK /\ s \in Procs /\ Master # s /\ Master \in Procs
  BY NetAssumption DEF TypeInv, TypeOK, Procs
<1>3. \A r \in Servers : \A i \in DOMAIN queue'[r] : RequestAt(r, i)'
  BY <1>1, <1>2, RequestsAfterAccept DEF PlacementInv
<1>4. \A i \in DOMAIN queue'[Master] : LookupAt(i)'
  <2>1. queue'[Master] = queue[Master]
    BY <1>2, AcceptQueue
  <2> QED
    BY <1>1, <2>1, LookupsKept DEF PlacementInv
<1>5. ASSUME NEW k \in KeyFields PROVE Placed(k)'
  <2>1. AtShard(k) => AtShard(k)'
    BY <1>2, ShardAfterAccept DEF masterVars
  <2>2. AtMaster(k) => AtMaster(k)'
    BY DEF AtMaster, masterVars
  <2> QED
    BY <1>1, <2>1, <2>2, PlacedCarries DEF PlacementInv, masterVars
<1> QED
  BY <1>1, <1>3, <1>4, <1>5 DEF PlacementInv

\* Server s answers a client's request.  If it was a PUT of a client routed
\* under the current servers, its key is at its shard, ahead of every REORG.
LEMMA ServerAnswerPlacement ==
    ASSUME TypeInv, PlacementInv, UNCHANGED <<masterVars, clientVars, listening>>, History,
           NEW s \in Servers, NEW t \in {"PUT", "GET"}, Accept(s, t),
           NEW r, r.kind = "data", Respond(queue[s][1].from, r),
           \A q \in Servers : q # s => db'[q] = db[q],
           \A k \in KeyFields : db[s][k] # None => db'[s][k] # None,
           t = "PUT" => db'[s][queue[s][1].key] # None
    PROVE  PlacementInv'
<1>1. NetTypeOK /\ MasterTypeOK /\ s \in Procs /\ Master # s /\ Master \in Procs
  BY NetAssumption DEF TypeInv, TypeOK, Procs
<1>2. PICK b : b = queue[s][1].from
  OBVIOUS
<1>3. /\ 1 \in DOMAIN queue[s] /\ queue[s][1].type = t /\ RequestAt(s, 1)
      /\ Len(queue[s]) \in Nat /\ DOMAIN queue[s] = 1..Len(queue[s])
  BY <1>1, AcceptQueue DEF PlacementInv
<1>4. /\ b \in Clients
      /\ Brings(queue[s][1], b) /\ \A c \in Clients \ {b} : ~Brings(queue[s][1], c)
      /\ cpc[b] = "request" /\ inbox[b].kind = "none" /\ route[b] = s /\ t = op[b].type
      /\ queue[s][1].key = op[b].key
      /\ epoch[b] = num_servers => PortOf(op[b].key) = s /\ ~ReorgAfter(s, 1)
  BY <1>2, <1>3 DEF RequestAt, Brings
<1>5. /\ \A c \in Clients \ {b} : inbox'[c] = inbox[c]
      /\ inbox'[b] = r
  BY <1>1, <1>2, <1>4 DEF Respond, NetTypeOK
<1>6. \A c \in Clients : epoch'[c] = epoch[c]
  <2>1. \A c \in Clients : ~Gets(c, "port")
    BY <1>5 DEF Gets
  <2> QED
    BY <2>1, EpochKept
<1>7. ASSUME NEW c \in Clients
      PROVE  (c # b => StaysRouted(c)) /\ GoesOnWaiting(c) /\ Routed(c)'
  <2>1. CASE c # b
    <3>1. StaysRouted(c) /\ GoesOnWaiting(c)
      BY <1>5, <1>6, <2>1, PortKept
      DEF StaysRouted, GoesOnWaiting, clientVars, masterVars, num_servers
    <3>2. Routed(c)'
      BY <1>5, <1>6, <2>1, RoutedKept DEF PlacementInv, Redistributes, clientVars, masterVars
    <3> QED
      BY <3>1, <3>2
  <2>2. CASE c = b
    <3>1. Routed(c) /\ cpc[c] \notin {"lookup", "route"} /\ inbox'[c].kind # "eof"
      BY <1>4, <1>5, <2>2 DEF PlacementInv
    <3>2. Routed(c)'
      BY <1>6, <3>1 DEF Routed, Redistributes, clientVars, masterVars, num_servers
    <3> QED
      BY <2>2, <3>1, <3>2 DEF GoesOnWaiting
  <2> QED
    BY <2>1, <2>2
<1>8. \A q \in Servers : \A i \in DOMAIN queue'[q] : RequestAt(q, i)'
  BY <1>1, <1>4, <1>7, RequestsAfterAccept DEF PlacementInv, clientVars
<1>9. \A i \in DOMAIN queue'[Master] : LookupAt(i)'
  <2>1. queue'[Master] = queue[Master]
    BY <1>1, AcceptQueue
  <2> QED
    BY <1>7, <2>1, LookupsKept DEF PlacementInv, clientVars
<1>10. ASSUME NEW k \in KeyFields PROVE Placed(k)'
  <2>1. AtShard(k) => AtShard(k)'
    BY <1>1, ShardAfterAccept DEF masterVars
  <2>2. AtMaster(k) => AtMaster(k)'
    BY DEF AtMaster, masterVars
  <2>3. CASE placed'[k] = placed[k]
    BY <2>1, <2>2, <2>3, PlacedCarries DEF PlacementInv, masterVars
  <2>4. ASSUME placed'[k] # placed[k] PROVE Placed(k)'
    <3>1. PICK c \in Clients : Stored(c, k) /\ epoch[c] = num_servers
      BY <2>4 DEF History, masterVars
    <3>2. c = b
      BY <1>5, <3>1 DEF Stored, Gets
    <3>3. /\ t = "PUT" /\ op[b].key = k /\ PortOf(k) = s /\ ~ReorgAfter(s, 1)
          /\ queue[s][1].key = k
      BY <1>4, <3>1, <3>2 DEF Stored
    <3>4. db'[s][k] # None /\ PortOf(k)' = s /\ s # NoPort
      BY <3>3, PortKept, NetAssumption DEF masterVars
    <3>5. ~ReorgAfter(s, 0)'
      <4>1. ReorgAfter(s, 0)' => ReorgAfter(s, 0 + 1)
        BY <1>1, ReorgAfterAccept
      <4> QED
        BY <3>3, <4>1
    <3>6. AtShard(k)'
      <4>1. Ahead(s, 0, k)'
        BY <3>4, <3>5 DEF Ahead
      <4> QED
        BY <3>4, <4>1 DEF AtShard
    <3>7. mpc # "reorg"
      BY <3>1 DEF PlacementInv, Routed, Redistributes
    <3> QED
      BY <3>6, <3>7 DEF Placed, masterVars
  <2> QED
    BY <2>3, <2>4
<1> QED
  BY <1>7, <1>8, <1>9, <1>10 DEF PlacementInv

\* Storing a request gives its key a value, and takes none away.
LEMMA StoreKeeps ==
    ASSUME NetTypeOK, ServerTypeOK, NEW s \in Servers, queue[s] # <<>>
    PROVE  /\ Request(s).key = queue[s][1].key /\ Request(s).from = queue[s][1].from
           /\ StoreRequest(s) =>
                  /\ \A q \in Servers : q # s => db'[q] = db[q]
                  /\ \A k \in KeyFields : db[s][k] # None => db'[s][k] # None
                  /\ db'[s][queue[s][1].key] # None
<1>1. /\ Request(s).key = queue[s][1].key /\ Request(s).key \in KeyFields
      /\ Request(s).from = queue[s][1].from /\ Request(s).value \in Payload
  BY RequestType DEF Procs, Msg
<1>2. Request(s).value # None
  BY <1>1, NetAssumption DEF Payload
<1>3. ASSUME StoreRequest(s)
      PROVE  /\ \A q \in Servers : q # s => db'[q] = db[q]
             /\ \A k \in KeyFields : db[s][k] # None => db'[s][k] # None
             /\ db'[s][Request(s).key] # None
  BY <1>1, <1>2, <1>3 DEF StoreRequest, ServerTypeOK
<1> QED
  BY <1>1, <1>3

LEMMA ServerPlacement ==
    ASSUME TypeInv, PlacementInv, UNCHANGED <<masterVars, clientVars>>, History, ServerNext,
           Intact, Intact'
    PROVE  PlacementInv'
<1>0. NetTypeOK /\ ServerTypeOK /\ Master \in Procs /\ Master \notin Servers
  BY NetAssumption DEF TypeInv, TypeOK, Procs
<1>1. PICK s \in Servers :
         \/ ServerStep(s) \/ ServerJoin(s) \/ ServerJoinFails(s)
         \/ ServerCrash(s) \/ ServerCrashInPut(s)
  BY DEF ServerNext
<1>2. ~ServerCrash(s) /\ ~ServerCrashInPut(s)
  BY DEF ServerCrash, ServerCrashInPut, Intact
<1>3. ~ServerNotifyFails(s) /\ ~ServerJoinFails(s)
  BY DEF ServerNotifyFails, ServerJoinFails, Intact
<1>4. ASSUME queue[s] # <<>>
      PROVE  /\ Request(s).key = queue[s][1].key /\ Request(s).from = queue[s][1].from
             /\ StoreRequest(s) =>
                    /\ \A q \in Servers : q # s => db'[q] = db[q]
                    /\ \A k \in KeyFields : db[s][k] # None => db'[s][k] # None
                    /\ db'[s][queue[s][1].key] # None
  BY <1>0, <1>1, <1>4, StoreKeeps
<1>5. ASSUME NEW t, ServerReceives(s, t)
      PROVE  Accept(s, t) /\ queue[s] # <<>> /\ queue[s][1].type = t
  BY <1>0, <1>5, AcceptQueue DEF ServerReceives, Procs
<1>6. CASE ServerJoin(s)
  <2>1. PICK m : m = MkMsg("SERVER", 0, Empty, s)
    OBVIOUS
  <2>2. Send(Master, m) /\ m.type = "SERVER" /\ UNCHANGED <<db, listening, inbox>>
    BY <1>6, <2>1 DEF ServerJoin, MkMsg
  <2> QED
    BY <2>2, ServerSendPlacement
<1>7. CASE ServerNotify(s)
  <2>1. PICK m : m = Report(s)
    OBVIOUS
  <2>2. Send(Master, m) /\ m.type = "MASTER_PUT" /\ UNCHANGED <<db, listening, inbox>>
    BY <1>7, <2>1 DEF ServerNotify, Report, MkMsg
  <2> QED
    BY <2>2, ServerSendPlacement
<1>8. CASE ServerListen(s)
  <2>1. UNCHANGED <<db, queue, inbox>> /\ listening'[Master]
    BY <1>0, <1>8 DEF ServerListen, PlacementInv, NetTypeOK
  <2> QED
    BY <2>1, ServerQuietPlacement
<1>9. CASE ServerDrop(s)
  <2>1. Accept(s, "EOF") /\ UNCHANGED <<db, listening, inbox>>
    BY <1>5, <1>9 DEF ServerDrop, serverVars
  <2> QED
    BY <2>1, ServerAcceptPlacement
<1>10. CASE ServerReorg(s)
  <2>1. Accept(s, "REORG") /\ UNCHANGED <<listening, inbox>>
    BY <1>5, <1>10 DEF ServerReorg
  <2>2. \A q \in Servers : q # s => db'[q] = db[q]
    BY <1>0, <1>10 DEF ServerReorg, ServerTypeOK
  <2> QED
    BY <2>1, <2>2, ServerAcceptPlacement
<1>11. CASE ServerReorgPut(s)
  <2>1. Accept(s, "REORG_PUT") /\ UNCHANGED <<listening, inbox>> /\ StoreRequest(s)
        /\ queue[s] # <<>>
    BY <1>5, <1>11 DEF ServerReorgPut
  <2> QED
    BY <1>4, <2>1, ServerAcceptPlacement
<1>12. CASE ServerPut(s)
  <2>1. /\ Accept(s, "PUT") /\ UNCHANGED listening /\ StoreRequest(s) /\ queue[s] # <<>>
        /\ Respond(Request(s).from, PutReply(TRUE))
    BY <1>5, <1>12 DEF ServerPut
  <2>2. PutReply(TRUE).kind = "data"
    BY DEF PutReply, NoReply
  <2>3. PICK r : r = PutReply(TRUE)
    OBVIOUS
  <2>4. r.kind = "data" /\ Respond(queue[s][1].from, r)
    BY <1>4, <2>1, <2>2, <2>3 DEF Respond
  <2> QED
    BY <1>4, <2>1, <2>4, ServerAnswerPlacement
<1>13. CASE ServerGet(s)
  <2>1. PICK r : r = GetReply(Lookup(s, Request(s).key))
    OBVIOUS
  <2>2. /\ Accept(s, "GET") /\ UNCHANGED <<db, listening>> /\ queue[s] # <<>>
        /\ Respond(Request(s).from, r)
    BY <1>5, <1>13, <2>1 DEF ServerGet, serverVars
  <2>3. r.kind = "data" /\ Respond(queue[s][1].from, r)
    BY <1>4, <2>1, <2>2 DEF Respond, GetReply, NoReply
  <2> QED
    BY <2>2, <2>3, ServerAnswerPlacement
<1> QED
  BY <1>1, <1>2, <1>3, <1>6, <1>7, <1>8, <1>9, <1>10, <1>11, <1>12, <1>13 DEF ServerStep
-----------------------------------------------------------------------------
(* The clients' steps. *)

LEMMA ClientKeeps ==
    ASSUME TypeInv, PlacementInv, UNCHANGED <<masterVars, serverVars>>, History,
           \A c \in Clients : inbox'[c] = inbox[c] \/ inbox'[c] = NoReply
    PROVE  /\ \A c \in Clients : epoch'[c] = epoch[c]
           /\ \A k \in KeyFields : placed'[k] = placed[k]
<1>1. \A c \in Clients : ~Gets(c, "port") /\ ~Gets(c, "data")
  BY DEF Gets, NoReply
<1> QED
  BY <1>1, EpochKept, PlacedKept DEF masterVars

\* A client sends its lookup, its operation or nothing.
LEMMA ClientSendPlacement ==
    ASSUME TypeInv, PlacementInv, UNCHANGED <<masterVars, serverVars>>, History,
           NEW c \in Clients, ClientSend(c)
    PROVE  PlacementInv'
<1>0. NetTypeOK /\ MasterTypeOK /\ ClientTypeOK /\ Master \in Procs
  BY DEF TypeInv, TypeOK, Procs
<1>1. PICK p, m : p = Target(c) /\ m = Asks(c)
  OBVIOUS
<1>2. /\ cpc[c] \in {"start", "route"} /\ p \in Procs /\ Send(p, m)
      /\ cpc' = [cpc EXCEPT ![c] = IF cpc[c] = "start" THEN "lookup" ELSE "request"]
      /\ inbox' = [inbox EXCEPT ![c] = NoReply]
      /\ UNCHANGED <<op, route, code, listening>>
  BY <1>1 DEF ClientSend, CanConnect
<1>3. /\ \A b \in Clients : epoch'[b] = epoch[b]
      /\ \A k \in KeyFields : placed'[k] = placed[k]
  BY <1>0, <1>2, ClientKeeps DEF NetTypeOK
<1>4. /\ inbox'[c] = NoReply /\ inbox'[c].kind = "none"
      /\ \A b \in Clients \ {c} : inbox'[b] = inbox[b] /\ cpc'[b] = cpc[b]
      /\ cpc'[c] = IF cpc[c] = "start" THEN "lookup" ELSE "request"
  BY <1>0, <1>2 DEF NetTypeOK, ClientTypeOK, NoReply
<1>5. num_servers' = num_servers /\ \A b \in Clients : PortOf(op[b].key)' = PortOf(op[b].key)
  BY <1>2, PortKept DEF masterVars, num_servers
<1>6. ASSUME NEW b \in Clients PROVE StaysRouted(b) /\ GoesOnWaiting(b) /\ Routed(b)'
  <2>1. StaysRouted(b)
    BY <1>2, <1>3, <1>4, <1>5 DEF StaysRouted
  <2>2. GoesOnWaiting(b)
    BY <1>2, <1>4 DEF GoesOnWaiting
  <2>3. CASE b # c
    <3>1. Routed(b)'
      BY <1>2, <1>3, <1>4, <2>3, RoutedKept DEF PlacementInv, Redistributes, masterVars
    <3> QED
      BY <2>1, <2>2, <3>1
  <2>4. CASE b = c
    <3>1. /\ cpc'[b] # "route" /\ inbox'[b].kind \notin {"port", "eof"} /\ Routed(b)
          /\ cpc[b] # "done" /\ code'[b] = code[b]
      BY <1>2, <1>4, <2>4 DEF PlacementInv
    <3>2. Routed(b)'
      BY <1>3, <1>5, <3>1 DEF Routed, Redistributes, masterVars
    <3> QED
      BY <2>1, <2>2, <3>2
  <2> QED
    BY <2>3, <2>4
<1>7. m.type # "REORG" /\ m.from = c
  BY <1>0, <1>1, ClientAssumption DEF Asks, MkMsg, ClientTypeOK
<1>8. /\ Len(queue[p]) + 1 \in DOMAIN queue'[p] /\ queue'[p][Len(queue[p]) + 1] = m
      /\ \A j \in DOMAIN queue'[p] : ~(j > Len(queue[p]) + 1)
  BY <1>0, <1>2, SendQueue
<1>9. \A s \in Servers : \A i \in DOMAIN queue'[s] : RequestAt(s, i)'
  <2>1. ASSUME NEW s \in Servers, NEW i, s = p, i = Len(queue[p]) + 1 PROVE RequestAt(s, i)'
    <3>1. queue'[s][i] = m /\ ~ReorgAfter(s, i)' /\ DOMAIN queue'[s] = 1..i /\ i \in Nat
          /\ \A j \in DOMAIN queue'[s] :
                j # i => j \in DOMAIN queue[s] /\ queue'[s][j] = queue[s][j]
      <4>1. /\ Len(queue[p]) \in Nat /\ DOMAIN queue[p] = 1..Len(queue[p])
            /\ DOMAIN queue'[p] = 1..(Len(queue[p]) + 1)
            /\ \A j \in 1..Len(queue[p]) : queue'[p][j] = queue[p][j]
        BY <1>0, <1>2, SendQueue
      <4> QED
        BY <1>8, <2>1, <4>1 DEF ReorgAfter
    <3>2. cpc[c] = "route" /\ route[c] = s
      BY <1>1, <1>2, <2>1, NetAssumption DEF Target
    <3>3. m.type = op[c].type /\ m.key = op[c].key
      BY <1>1, <3>2 DEF Asks, MkMsg
    <3>4. epoch[c] = num_servers => PortOf(op[c].key) = s
      BY <3>2 DEF PlacementInv, Routed
    <3>5. /\ cpc'[c] = "request" /\ route'[c] = s
          /\ epoch'[c] = num_servers' => PortOf(op[c].key)' = s
      BY <1>2, <1>3, <1>4, <1>5, <3>2, <3>4
    <3>6. \A j \in DOMAIN queue'[s] : Brings(queue'[s][j], c) => j = i
      <4>1. \A j \in DOMAIN queue[s] : ~Brings(queue[s][j], c)
        BY <3>2 DEF PlacementInv, RequestAt
      <4> QED
        BY <3>1, <4>1
    <3>7. inbox'[c].kind = "none"
      BY <1>4
    <3> QED
      BY <1>2, <1>7, <3>1, <3>3, <3>5, <3>6, <3>7 DEF RequestAt, Brings
  <2> QED
    BY <1>0, <1>2, <1>6, <1>7, <2>1, RequestsAfterSend DEF PlacementInv, Brings
<1>10. \A i \in DOMAIN queue'[Master] : LookupAt(i)'
  <2>1. CASE p # Master
    BY <1>0, <1>2, <1>6, <2>1, LookupsAfterOther DEF PlacementInv
  <2>2. CASE p = Master
    <3>1. cpc[c] = "start"
      BY <1>0, <1>1, <1>2, <2>2, NetAssumption DEF Target, ClientTypeOK
    <3>2. m.type = "GET" /\ m.key = op[c].key
      BY <1>1, <3>1 DEF Asks, MkMsg
    <3>3. PICK n : n = Len(queue[Master]) + 1
      OBVIOUS
    <3>4. /\ n \in DOMAIN queue'[Master] /\ queue'[Master][n] = m
          /\ \A i \in DOMAIN queue'[Master] :
                i # n => i \in DOMAIN queue[Master] /\ queue'[Master][i] = queue[Master][i]
      BY <1>0, <1>2, <2>2, <3>3, SendQueue
    <3>5. \A i \in DOMAIN queue[Master] : ~Asked(queue[Master][i], c)
      BY <3>1 DEF PlacementInv, LookupAt
    <3>6. ASSUME NEW i \in DOMAIN queue'[Master], NEW b \in Clients, Asked(queue'[Master][i], b)
          PROVE  /\ cpc'[b] = "lookup" /\ inbox'[b].kind = "none"
                 /\ queue'[Master][i].key = op'[b].key
                 /\ \A j \in DOMAIN queue'[Master] : Asked(queue'[Master][j], b) => j = i
      <4>1. CASE i = n
        <5>1. b = c
          BY <1>7, <3>4, <3>6, <4>1 DEF Asked
        <5>2. \A j \in DOMAIN queue'[Master] : Asked(queue'[Master][j], b) => j = i
          BY <3>4, <3>5, <4>1, <5>1
        <5> QED
          BY <1>2, <1>4, <3>1, <3>2, <3>4, <4>1, <5>1, <5>2
      <4>2. CASE i # n
        <5>1. i \in DOMAIN queue[Master] /\ queue'[Master][i] = queue[Master][i] /\ b # c
          BY <3>4, <3>5, <3>6, <4>2
        <5>2. /\ cpc[b] = "lookup" /\ inbox[b].kind = "none" /\ queue[Master][i].key = op[b].key
              /\ \A j \in DOMAIN queue[Master] : Asked(queue[Master][j], b) => j = i
          BY <3>6, <5>1 DEF PlacementInv, LookupAt
        <5>3. ~Asked(m, b)
          BY <1>7, <5>1 DEF Asked
        <5> QED
          BY <1>2, <1>4, <3>4, <5>1, <5>2, <5>3
      <4> QED
        BY <4>1, <4>2
    <3> QED
      BY <3>6 DEF LookupAt
  <2> QED
    BY <2>1, <2>2
<1>11. ASSUME NEW k \in KeyFields PROVE Placed(k)'
  <2>1. AtShard(k) => AtShard(k)'
    BY <1>0, <1>2, <1>7, ShardAfterSend DEF masterVars, serverVars
  <2>2. AtMaster(k) => AtMaster(k)'
    BY DEF AtMaster, masterVars
  <2> QED
    BY <1>3, <2>1, <2>2, PlacedCarries DEF PlacementInv, masterVars
<1> QED
  BY <1>2, <1>6, <1>9, <1>10, <1>11 DEF PlacementInv

LEMMA ClientKilledPlacement ==
    ASSUME TypeInv, PlacementInv, UNCHANGED <<masterVars, serverVars>>, History,
           NEW c \in Clients, ClientKilled(c)
    PROVE  PlacementInv'
<1>0. NetTypeOK /\ MasterTypeOK /\ ClientTypeOK
  BY DEF TypeInv, TypeOK
<1>1. PICK p, m : p = Target(c) /\ m = MkMsg("EOF", 0, Empty, c)
  OBVIOUS
<1>2. /\ cpc[c] \in {"start", "route"} /\ p \in Procs /\ Send(p, m) /\ m.type = "EOF"
      /\ cpc' = [cpc EXCEPT ![c] = "killed"]
      /\ UNCHANGED <<op, route, code, listening, inbox>>
  BY <1>1 DEF ClientKilled, CanConnect, MkMsg
<1>3. /\ \A b \in Clients : epoch'[b] = epoch[b]
      /\ \A k \in KeyFields : placed'[k] = placed[k]
  BY <1>2, ClientKeeps
<1>4. /\ \A b \in Clients \ {c} : cpc'[b] = cpc[b]
      /\ cpc'[c] = "killed"
  BY <1>0, <1>2 DEF ClientTypeOK
<1>5. num_servers' = num_servers /\ \A b \in Clients : PortOf(op[b].key)' = PortOf(op[b].key)
  BY <1>2, PortKept DEF masterVars, num_servers
<1>6. ASSUME NEW b \in Clients PROVE StaysRouted(b) /\ GoesOnWaiting(b) /\ Routed(b)'
  <2>1. StaysRouted(b) /\ GoesOnWaiting(b)
    BY <1>2, <1>3, <1>4, <1>5 DEF StaysRouted, GoesOnWaiting
  <2>2. Routed(b)'
    BY <1>2, <1>3, <1>4, <1>5 DEF PlacementInv, Routed, Redistributes, masterVars
  <2> QED
    BY <2>1, <2>2
<1>7. \A s \in Servers : \A i \in DOMAIN queue'[s] : RequestAt(s, i)'
  <2>1. queue'[p][Len(queue[p]) + 1] = m
    BY <1>0, <1>2, SendQueue
  <2>2. \A s \in Servers : \A i : s = p /\ i = Len(queue[p]) + 1 => RequestAt(s, i)'
    BY <1>2, <2>1 DEF RequestAt, Brings
  <2> QED
    BY <1>0, <1>2, <1>6, <2>2, RequestsAfterSend DEF PlacementInv, Brings
<1>8. \A i \in DOMAIN queue'[Master] : LookupAt(i)'
  <2>1. \A b \in Clients : ~Asked(m, b)
    BY <1>2 DEF Asked
  <2> QED
    BY <1>0, <1>2, <1>6, <2>1, LookupsAfterOther DEF PlacementInv
<1>9. ASSUME NEW k \in KeyFields PROVE Placed(k)'
  <2>1. AtShard(k) => AtShard(k)'
    BY <1>0, <1>2, ShardAfterSend DEF masterVars, serverVars
  <2>2. AtMaster(k) => AtMaster(k)'
    BY DEF AtMaster, masterVars
  <2> QED
    BY <1>3, <2>1, <2>2, PlacedCarries DEF PlacementInv, masterVars
<1> QED
  BY <1>2, <1>6, <1>7, <1>8, <1>9 DEF PlacementInv

\* A client reads its answer, or cannot connect.
LEMMA ClientQuietPlacement ==
    ASSUME TypeInv, PlacementInv, UNCHANGED <<masterVars, serverVars>>, History, NEW c \in Clients,
           ClientRefused(c) \/ ClientRouted(c) \/ ClientAnswered(c) \/ ClientCutOff(c)
    PROVE  PlacementInv'
<1>0. NetTypeOK /\ MasterTypeOK /\ ClientTypeOK
  BY DEF TypeInv, TypeOK
<1>1. /\ UNCHANGED <<op, listening, queue, inbox>>
      /\ \A b \in Clients \ {c} :
            cpc'[b] = cpc[b] /\ route'[b] = route[b] /\ code'[b] = code[b]
      /\ \/ /\ cpc'[c] = "done" /\ route'[c] = route[c]
            /\ cpc[c] \in {"lookup", "request"} => inbox[c].kind # "none"
         \/ /\ cpc'[c] = "route" /\ route'[c] = inbox[c].port /\ code'[c] = code[c]
            /\ cpc[c] = "lookup" /\ inbox[c].kind = "port"
  BY <1>0
  DEF ClientRefused, ClientRouted, ClientAnswered, ClientCutOff, Exit, netVars, ClientTypeOK
<1>3. /\ \A b \in Clients : epoch'[b] = epoch[b]
      /\ \A k \in KeyFields : placed'[k] = placed[k]
  BY <1>1, ClientKeeps
<1>4. num_servers' = num_servers /\ \A b \in Clients : PortOf(op[b].key)' = PortOf(op[b].key)
  BY <1>1, PortKept DEF masterVars, num_servers
<1>5. ASSUME NEW b \in Clients PROVE StaysRouted(b) /\ GoesOnWaiting(b) /\ Routed(b)'
  <2>1. StaysRouted(b) /\ GoesOnWaiting(b)
    BY <1>1, <1>3, <1>4 DEF StaysRouted, GoesOnWaiting
  <2>2. Routed(b)'
    BY <1>1, <1>3, <1>4 DEF PlacementInv, Routed, Redistributes, masterVars
  <2> QED
    BY <2>1, <2>2
<1>6. \A s \in Servers : \A i \in DOMAIN queue'[s] : RequestAt(s, i)'
  BY <1>1, <1>5, RequestsKept DEF PlacementInv
<1>7. \A i \in DOMAIN queue'[Master] : LookupAt(i)'
  BY <1>1, <1>5, LookupsKept DEF PlacementInv
<1>8. ASSUME NEW k \in KeyFields PROVE Placed(k)'
  <2>1. AtShard(k) => AtShard(k)'
    BY <1>0, <1>1, ShardKept DEF masterVars, serverVars
  <2>2. AtMaster(k) => AtMaster(k)'
    BY DEF AtMaster, masterVars
  <2> QED
    BY <1>3, <2>1, <2>2, PlacedCarries DEF PlacementInv, masterVars
<1> QED
  BY <1>1, <1>5, <1>6, <1>7, <1>8 DEF PlacementInv

LEMMA ClientPlacement ==
    ASSUME TypeInv, PlacementInv, UNCHANGED <<masterVars, serverVars>>, History, ClientNext
    PROVE  PlacementInv'
BY ClientSendPlacement, ClientKilledPlacement, ClientQuietPlacement DEF ClientNext, ClientStep
-----------------------------------------------------------------------------
(* The theorem. *)

LEMMA InitPlacement == ASSUME Init PROVE PlacementInv
<1>1. \A p \in Procs : queue[p] = <<>> /\ DOMAIN queue[p] = {}
  BY DEF Init
<1>2. Master \in Procs /\ Servers \subseteq Procs
  BY DEF Procs
<1>3. num_servers \in Nat
  BY FormedAssumption DEF Init, num_servers
<1>4. \A c \in Clients : Routed(c)
  BY <1>3 DEF Init, Routed, Redistributes, NoReply
<1>5. \A k \in KeyFields : Placed(k)
  BY DEF Init, Placed
<1>6. listening[Master]
  BY <1>2 DEF Init
<1> QED
  BY <1>1, <1>2, <1>4, <1>5, <1>6 DEF PlacementInv

\* What happened before everybody was there still holds of those who are.
LEMMA IntactBefore ==
    ASSUME TypeInv, [Next]_vars, Intact'
    PROVE  Intact
<1>1. crashes \in Nat /\ crashes' = 0 /\ mpc' # "exited"
  BY DEF TypeInv, TypeOK, ServerTypeOK, Intact
<1>2. CASE UNCHANGED vars
  BY <1>1, <1>2 DEF vars, masterVars, serverVars, Intact
<1>3. CASE MasterNext /\ UNCHANGED serverVars
  BY <1>1, <1>3
  DEF MasterNext, MasterDrop, MasterPut, MasterJoin, MasterLookup, MasterReceives, MasterReorg,
      MasterReorgPut, MasterReorgDone, MasterConnectFails, MasterDividesByZero, MasterLeaves,
      MasterOutOfDescriptors, serverVars, Intact
<1>4. CASE ServerNext /\ UNCHANGED masterVars
  <2>1. crashes' = crashes \/ crashes' = crashes + 1
    BY <1>4
    DEF ServerNext, ServerStep, ServerJoin, ServerJoinFails, ServerListen, ServerDrop, ServerReorg,
        ServerReorgPut, ServerPut, ServerNotify, ServerNotifyFails, ServerGet, ServerCrash,
        ServerCrashInPut, serverVars
  <2> QED
    BY <1>1, <1>4, <2>1 DEF masterVars, Intact
<1>5. CASE ClientNext /\ UNCHANGED <<masterVars, serverVars>>
  BY <1>1, <1>5 DEF masterVars, serverVars, Intact
<1> QED
  BY <1>2, <1>3, <1>4, <1>5 DEF Next, Rest

LEMMA NextPlacement ==
    ASSUME TypeInv, PlacementHolds, [Next]_vars
    PROVE  PlacementHolds'
<1> SUFFICES ASSUME Intact' PROVE PlacementInv'
  BY DEF PlacementHolds
<1>1. Intact /\ PlacementInv
  BY IntactBefore DEF PlacementHolds
<1>2. CASE UNCHANGED vars
  <2>1. UNCHANGED <<listening, queue, inbox, mpc, server_port_map, kv_map, reput_left, db, op,
                    cpc, route, code, placed, epoch>>
    BY <1>2 DEF vars, netVars, masterVars, serverVars, clientVars, historyVars
  <2> QED
    BY <1>1, <2>1
    DEF PlacementInv, LookupAt, Asked, RequestAt, Brings, ReorgAfter, Routed, Redistributes,
        Placed, AtMaster, AtShard, Ahead, PortOf, num_servers
<1> QED
  BY <1>1, <1>2, MasterPlacement, ServerPlacement, ClientPlacement DEF Next, Rest

\* Whatever the current set of servers was given, by the redistribution that
\* formed it or by a PUT routed under it, is at its shard or on its way there
\* behind every REORG, as long as no server and not the master died.
THEOREM PlacementCorrect == Spec => []Placement
<1>1. Init => PlacementHolds
  BY InitPlacement DEF PlacementHolds
<1>2. TypeInv /\ PlacementHolds /\ [Next]_vars => PlacementHolds'
  BY NextPlacement
<1>3. PlacementHolds => Placement
  BY DEF PlacementHolds, PlacementInv, Placed, AtMaster, AtShard, Ahead, Placement, AtHomeOrComing
<1> QED
  BY <1>1, <1>2, <1>3, InitTypes, NextTypes, PTL DEF Spec
-----------------------------------------------------------------------------
(* A placed key is found. *)

LEMMA OwedKept ==
    ASSUME History, NEW c \in Clients, ~Gets(c, "port")
    PROVE  owed'[c] = owed[c] /\ epoch'[c] = epoch[c]
BY DEF History

LEMMA WayKept ==
    ASSUME NEW c \in Clients, OnItsWay(c), op' = op, db' = db,
           \A s \in Servers : queue'[s] = queue[s]
    PROVE  OnItsWay(c)'
BY DEF OnItsWay, Ahead, ReorgAfter

LEMMA WayAfterSend ==
    ASSUME NetTypeOK, NEW c \in Clients, OnItsWay(c), op' = op, UNCHANGED db,
           NEW p \in Procs, NEW m, Send(p, m), m.type # "REORG",
           \A s \in Servers : \A i, k :
               /\ s = p /\ i = Len(queue[p]) + 1 /\ k = op[c].key /\ Brings(m, c)
               => Ahead(s, i, k)
    PROVE  OnItsWay(c)'
<1>1. PICK k : k = op[c].key /\ k = op'[c].key
  OBVIOUS
<1>2. ASSUME NEW s \in Servers, NEW i \in DOMAIN queue'[s], Brings(queue'[s][i], c)
      PROVE  Ahead(s, i, k)'
  <2>0. s \in Procs
    BY DEF Procs
  <2>1. Ahead(s, i, k)
    <3>1. CASE s = p /\ i = Len(queue[p]) + 1
      <4>1. queue'[s][i] = m
        BY <3>1, SendQueue
      <4> QED
        BY <1>1, <1>2, <3>1, <4>1
    <3>2. CASE ~(s = p /\ i = Len(queue[p]) + 1)
      <4>1. i \in DOMAIN queue[s] /\ queue'[s][i] = queue[s][i]
        BY <2>0, <3>2, SendQueue
      <4> QED
        BY <1>1, <1>2, <4>1 DEF OnItsWay
    <3> QED
      BY <3>1, <3>2
  <2> QED
    BY <2>0, <2>1, AheadAfterSend
<1> QED
  BY <1>1, <1>2 DEF OnItsWay

LEMMA WayAfterAccept ==
    ASSUME NetTypeOK, NEW c \in Clients, OnItsWay(c), op' = op, op[c].key \in KeyFields,
           NEW p \in Procs, NEW t, Accept(p, t),
           \A q \in Servers : q # p => db'[q] = db[q],
           p \in Servers => \A k \in KeyFields :
               /\ t # "REORG" /\ db[p][k] # None => db'[p][k] # None
               /\ t = "REORG_PUT" /\ queue[p][1].key = k => db'[p][k] # None
    PROVE  OnItsWay(c)'
<1>1. PICK k : k = op[c].key /\ k = op'[c].key /\ k \in KeyFields
  OBVIOUS
<1>2. ASSUME NEW s \in Servers, NEW i \in DOMAIN queue'[s], Brings(queue'[s][i], c)
      PROVE  Ahead(s, i, k)'
  <2>0. s \in Procs
    BY DEF Procs
  <2>1. CASE s # p
    <3>1. queue'[s] = queue[s] /\ db'[s] = db[s]
      BY <2>0, <2>1, AcceptQueue
    <3> QED
      BY <1>1, <1>2, <3>1 DEF OnItsWay, Ahead, ReorgAfter
  <2>2. CASE s = p
    <3>1. /\ Len(queue[p]) \in Nat /\ DOMAIN queue[p] = 1..Len(queue[p])
          /\ DOMAIN queue'[p] = 1..(Len(queue[p]) - 1)
          /\ \A j \in 1..(Len(queue[p]) - 1) : queue'[p][j] = queue[p][j + 1]
      BY AcceptQueue
    <3>2. i \in Nat /\ i + 1 \in DOMAIN queue[s] /\ queue'[s][i] = queue[s][i + 1]
      BY <2>2, <3>1
    <3>3. Ahead(s, i + 1, k)
      BY <1>1, <1>2, <3>2 DEF OnItsWay
    <3> QED
      BY <1>1, <2>0, <2>2, <3>2, <3>3, AheadAfterAccept
  <2> QED
    BY <2>1, <2>2
<1> QED
  BY <1>1, <1>2 DEF OnItsWay

\* Nothing that client c can see changes.
LEMMA FoundKept ==
    ASSUME History, NEW c \in Clients, Found(c), UNCHANGED <<inbox, server_port_map, op>>,
           code'[c] = code[c], cpc'[c] = "request" => cpc[c] = "request",
           op[c].key \in KeyFields, OnItsWay(c) => OnItsWay(c)'
    PROVE  Found(c)'
<1>1. owed'[c] = owed[c] /\ epoch'[c] = epoch[c]
  BY OwedKept DEF Gets
<1>2. placed'[op[c].key] = placed[op[c].key]
  BY PlacedKept DEF Gets
<1> QED
  BY <1>1, <1>2 DEF Found, Wants, num_servers

LEMMA KeyOfOp == ASSUME TypeInv, NEW c \in Clients PROVE op[c].key \in KeyFields
BY ClientAssumption DEF TypeInv, TypeOK, ClientTypeOK, KeyFields

LEMMA MasterFound ==
    ASSUME TypeInv, PlacementInv, \A c \in Clients : Found(c),
           UNCHANGED <<serverVars, clientVars>>, History, MasterNext, Intact'
    PROVE  \A c \in Clients : Found(c)'
<1> SUFFICES ASSUME NEW c \in Clients PROVE Found(c)'
  OBVIOUS
<1>0. /\ NetTypeOK /\ MasterTypeOK /\ op[c].key \in KeyFields /\ Master \in Procs
      /\ Master \notin Servers /\ db' = db /\ UNCHANGED <<op, cpc, code>>
  BY KeyOfOp, NetAssumption DEF TypeInv, TypeOK, Procs, serverVars, clientVars
<1>1. ~(MasterConnectFails \/ MasterDividesByZero)
  BY DEF MasterConnectFails, MasterDividesByZero, MasterLeaves, Intact
<1>2. ASSUME NEW t, MasterReceives(t)
      PROVE  /\ OnItsWay(c) => OnItsWay(c)'
             /\ Accept(Master, t) /\ \A s \in Servers : queue'[s] = queue[s]
  <2>1. Accept(Master, t)
    BY <1>2 DEF MasterReceives
  <2>2. \A s \in Servers : queue'[s] = queue[s]
    BY <1>0, <2>1, AcceptQueue DEF Procs
  <2> QED
    BY <1>0, <2>1, <2>2, WayKept
<1>3. CASE MasterDrop \/ MasterPut
  BY <1>0, <1>2, <1>3, FoundKept DEF MasterDrop, MasterPut, masterVars
<1>4. CASE MasterReorgDone \/ MasterOutOfDescriptors
  BY <1>0, <1>4, FoundKept, WayKept DEF MasterReorgDone, MasterOutOfDescriptors, netVars
<1>5. CASE MasterReorgPut
  <2>1. PICK k0 \in reput_left : /\ CanConnect(PortOf(k0))
                                 /\ Send(PortOf(k0), MkMsg("REORG_PUT", k0, kv_map[k0], Master))
    BY <1>5 DEF MasterReorgPut
  <2>2. PICK p, m : p = PortOf(k0) /\ m = MkMsg("REORG_PUT", k0, kv_map[k0], Master)
    OBVIOUS
  <2>3. p \in Procs /\ Send(p, m) /\ m.type = "REORG_PUT"
    BY <2>1, <2>2 DEF CanConnect, MkMsg
  <2>4. OnItsWay(c) => OnItsWay(c)'
    BY <1>0, <2>3, WayAfterSend DEF Brings
  <2> QED
    BY <1>0, <1>5, <2>4, FoundKept DEF MasterReorgPut
<1>6. CASE MasterReorg \/ MasterJoin
  <2>1. epoch'[c] = epoch[c] /\ epoch[c] \in 0..num_servers
    BY <1>6, EpochKept DEF MasterReorg, MasterJoin, Gets, PlacementInv, Routed
  <2>2. CASE MasterReorg
    <3>1. epoch[c] < num_servers /\ num_servers' = num_servers
      BY <2>2 DEF MasterReorg, PlacementInv, Routed, Redistributes, num_servers
    <3> QED
      BY <2>1, <3>1 DEF Found, Wants
  <2>3. CASE MasterJoin
    <3>1. server_port_map \in Seq(Servers)
      BY <1>0 DEF MasterTypeOK
    <3>2. PICK f : f = Request(Master).from
      OBVIOUS
    <3>3. server_port_map' = Append(server_port_map, f)
      BY <2>3, <3>2 DEF MasterJoin
    <3>4. num_servers' = num_servers + 1 /\ num_servers \in Nat
      BY <3>1, <3>3 DEF num_servers
    <3> QED
      BY <2>1, <3>4 DEF Found, Wants
  <2> QED
    BY <1>6, <2>2, <2>3
<1>7. CASE MasterLookup
  <2>1. /\ MasterReceives("GET") /\ Accept(Master, "GET") /\ UNCHANGED server_port_map
        /\ num_servers' = num_servers
    BY <1>2, <1>7 DEF MasterLookup, num_servers
  <2>2. PICK b : b = Request(Master).from
    OBVIOUS
  <2>3. /\ b = queue[Master][1].from /\ 1 \in DOMAIN queue[Master]
        /\ queue[Master][1].type = "GET"
    BY <1>0, <2>1, <2>2, AcceptQueue, RequestType
  <2>4. /\ \A a \in Clients \ {b} : inbox'[a] = inbox[a]
        /\ b \in Clients => inbox'[b].kind = "port"
    BY <1>0, <1>7, <2>2 DEF MasterLookup, Respond, NetTypeOK, PortReply, NoReply
  <2>5. b \in Clients => cpc[b] = "lookup" /\ inbox[b].kind = "none"
    BY <2>3 DEF PlacementInv, LookupAt, Asked
  <2>6. \A a \in Clients : ~Gets(a, "data")
    BY <2>4 DEF Gets
  <2>7. placed'[op[c].key] = placed[op[c].key]
    BY <1>0, <2>1, <2>6, PlacedKept
  <2>8. CASE c # b
    <3>1. owed'[c] = owed[c] /\ epoch'[c] = epoch[c] /\ inbox'[c] = inbox[c]
      BY <2>4, <2>8, OwedKept DEF Gets
    <3>2. OnItsWay(c) => OnItsWay(c)'
      BY <1>2, <2>1
    <3>3. Wants(c)' => Wants(c)
      BY <1>0, <2>1, <3>1 DEF Wants
    <3> QED
      BY <1>0, <2>7, <3>1, <3>2, <3>3 DEF Found
  <2>9. CASE c = b
    <3>1. Gets(c, "port")
      BY <2>4, <2>5, <2>9 DEF Gets
    <3>2. owed'[c] => placed[op[c].key] # None
      BY <3>1 DEF History
    <3>3. OnItsWay(c)
      BY <2>5, <2>9 DEF OnItsWay, PlacementInv, RequestAt
    <3>4. OnItsWay(c)'
      BY <1>2, <2>1, <3>3
    <3>5. code[c] = -1 /\ cpc[c] = "lookup"
      BY <2>5, <2>9 DEF PlacementInv, Routed
    <3> QED
      BY <1>0, <2>7, <3>2, <3>4, <3>5 DEF Found, Wants
  <2> QED
    BY <2>8, <2>9
<1> QED
  BY <1>1, <1>3, <1>4, <1>5, <1>6, <1>7 DEF MasterNext

\* No client writes the empty value, which a GET cannot tell from no value.
NonEmptyPuts == \A o \in Ops : o.type = "PUT" => o.value # Empty

\* A shard answers the PUT, or the GET, of the client b of its oldest request.
LEMMA AnswerFound ==
    ASSUME TypeInv, PlacementInv, \A c \in Clients : Found(c),
           UNCHANGED <<masterVars, clientVars>>, History,
           NEW s \in Servers, NEW t \in {"PUT", "GET"}, Accept(s, t),
           NEW r, r.kind = "data", Respond(queue[s][1].from, r),
           \A q \in Servers : q # s => db'[q] = db[q],
           \A k \in KeyFields : db[s][k] # None => db'[s][k] # None,
           t = "PUT" => db'[s][queue[s][1].key] # None,
           LET k == queue[s][1].key
           IN  t = "GET" /\ k \in 1..127 /\ k \in KeyFields /\ db[s][k] # None => r.status
    PROVE  \A c \in Clients : Found(c)'
<1>1. NetTypeOK /\ MasterTypeOK /\ s \in Procs /\ UNCHANGED <<op, cpc, code, route>>
      /\ num_servers' = num_servers /\ UNCHANGED server_port_map
  BY DEF TypeInv, TypeOK, Procs, clientVars, masterVars, num_servers
<1>2. PICK b : b = queue[s][1].from
  OBVIOUS
<1>3. /\ 1 \in DOMAIN queue[s] /\ queue[s][1].type = t /\ RequestAt(s, 1)
      /\ Len(queue[s]) \in Nat /\ DOMAIN queue[s] = 1..Len(queue[s])
  BY <1>1, AcceptQueue DEF PlacementInv
<1>4. /\ b \in Clients /\ Brings(queue[s][1], b) /\ route[b] = s /\ t = op[b].type
      /\ queue[s][1].key = op[b].key
  BY <1>2, <1>3 DEF RequestAt, Brings
<1>5. /\ \A c \in Clients \ {b} : inbox'[c] = inbox[c]
      /\ inbox'[b] = r
  BY <1>1, <1>2, <1>4 DEF Respond, NetTypeOK
<1>6. \A c \in Clients : epoch'[c] = epoch[c] /\ owed'[c] = owed[c]
  <2>1. \A c \in Clients : ~Gets(c, "port")
    BY <1>5 DEF Gets
  <2> QED
    BY <2>1, OwedKept
<1>7. ASSUME NEW k \in KeyFields, placed[k] # None PROVE placed'[k] # None
  <2>1. CASE placed'[k] = placed[k]
    BY <1>7, <2>1
  <2>2. CASE placed'[k] # placed[k]
    <3>1. (\E c \in Clients : Stored(c, k)) /\ placed'[k] = latest'[k]
      BY <1>1, <2>2 DEF History
    <3>2. \A c \in Clients : Stored(c, k) => c = b
      BY <1>5 DEF Stored, Gets
    <3>3. Stored(b, k) /\ (CHOOSE c \in Clients : Stored(c, k)) = b
      BY <3>1, <3>2
    <3>4. latest'[k] = db'[route[b]][k]
      BY <3>1, <3>3 DEF History
    <3>5. t = "PUT" /\ queue[s][1].key = k
      BY <1>4, <3>3 DEF Stored
    <3> QED
      BY <1>4, <3>1, <3>4, <3>5
  <2> QED
    BY <2>1, <2>2
<1>8. ASSUME NEW c \in Clients PROVE Found(c)'
  <2>1. op[c].key \in KeyFields /\ Found(c)
    BY KeyOfOp
  <2>2. OnItsWay(c) => OnItsWay(c)'
    BY <1>1, <2>1, WayAfterAccept
  <2>3. Wants(c)' => Wants(c)
    BY <1>1, <1>6 DEF Wants
  <2>4. placed[op[c].key] # None => placed'[op'[c].key] # None
    BY <1>1, <1>7, <2>1
  <2>5. CASE c # b
    <3>1. inbox'[c] = inbox[c]
      BY <1>5, <2>5
    <3> QED
      BY <1>1, <2>1, <2>2, <2>3, <2>4, <3>1 DEF Found
  <2>6. CASE c = b
    <3>1. ASSUME Wants(c) PROVE r.status
      <4>1. t = "GET" /\ op[c].key \in 1..127
        BY <1>4, <2>6, <3>1 DEF Wants
      <4>2. Ahead(s, 1, op[c].key)
        BY <1>3, <1>4, <2>1, <2>6, <3>1 DEF Found, OnItsWay
      <4>3. db[s][op[c].key] # None
        BY <1>3, <4>2 DEF Ahead
      <4> QED
        BY <1>4, <2>1, <2>6, <4>1, <4>3
    <3> QED
      BY <1>1, <1>5, <2>1, <2>2, <2>3, <2>4, <2>6, <3>1 DEF Found
  <2> QED
    BY <2>5, <2>6
<1> QED
  BY <1>8

\* The char of a key up to 127 is the key, and what is stored for it is no
\* empty value.
LEMMA StoredIsReported ==
    ASSUME TypeInv, Provenance, NonEmptyPuts,
           NEW s \in Servers, NEW k \in KeyFields, k \in 1..127, db[s][k] # None
    PROVE  GetReply(Lookup(s, k)).status
<1>1. CharOf(k) = k
  BY DEF CharOf
<1>2. Lookup(s, k) = db[s][k]
  BY <1>1 DEF Lookup
<1>3. db[s][k] # Empty
  <2>1. PICK c \in Clients : op[c].type = "PUT" /\ db[s][k] = IF k = 0 THEN Empty ELSE op[c].value
    BY DEF Provenance, WrittenFor
  <2>2. op[c] \in Ops
    BY DEF TypeInv, TypeOK, ClientTypeOK
  <2> QED
    BY <2>1, <2>2 DEF NonEmptyPuts
<1> QED
  BY <1>2, <1>3 DEF GetReply, NoReply

LEMMA ServerFound ==
    ASSUME TypeInv, PlacementInv, \A c \in Clients : Found(c), Provenance, NonEmptyPuts,
           UNCHANGED <<masterVars, clientVars>>, History, ServerNext, Intact, Intact'
    PROVE  \A c \in Clients : Found(c)'
<1>0. /\ NetTypeOK /\ ServerTypeOK /\ Master \in Procs /\ Master \notin Servers
      /\ UNCHANGED <<op, cpc, code, server_port_map>>
  BY NetAssumption DEF TypeInv, TypeOK, Procs, clientVars, masterVars
<1>1. PICK s \in Servers :
         \/ ServerStep(s) \/ ServerJoin(s) \/ ServerJoinFails(s)
         \/ ServerCrash(s) \/ ServerCrashInPut(s)
  BY DEF ServerNext
<1>2. ~ServerCrash(s) /\ ~ServerCrashInPut(s)
  BY DEF ServerCrash, ServerCrashInPut, Intact
<1>3. ~ServerNotifyFails(s) /\ ~ServerJoinFails(s)
  BY DEF ServerNotifyFails, ServerJoinFails, Intact
<1>4. ASSUME queue[s] # <<>>
      PROVE  /\ Request(s).key = queue[s][1].key /\ Request(s).from = queue[s][1].from
             /\ StoreRequest(s) =>
                    /\ \A q \in Servers : q # s => db'[q] = db[q]
                    /\ \A k \in KeyFields : db[s][k] # None => db'[s][k] # None
                    /\ db'[s][queue[s][1].key] # None
  BY <1>0, <1>1, <1>4, StoreKeeps
<1>5. ASSUME NEW t, ServerReceives(s, t)
      PROVE  Accept(s, t) /\ queue[s] # <<>>
  BY <1>5 DEF ServerReceives, Accept
<1>6. ASSUME UNCHANGED inbox, \A c \in Clients : OnItsWay(c) => OnItsWay(c)'
      PROVE  \A c \in Clients : Found(c)'
  BY <1>0, <1>6, KeyOfOp, FoundKept
<1>7. ASSUME NEW t, Accept(s, t), UNCHANGED inbox,
             \A q \in Servers : q # s => db'[q] = db[q],
             \A k \in KeyFields : t # "REORG" /\ db[s][k] # None => db'[s][k] # None,
             \A k \in KeyFields : t = "REORG_PUT" /\ queue[s][1].key = k => db'[s][k] # None
      PROVE  \A c \in Clients : Found(c)'
  <2>1. \A c \in Clients : OnItsWay(c) => OnItsWay(c)'
    BY <1>0, <1>7, KeyOfOp, WayAfterAccept DEF Procs
  <2> QED
    BY <1>6, <1>7, <2>1
<1>8. CASE ServerJoin(s) \/ ServerNotify(s)
  <2>1. PICK m : /\ Send(Master, m) /\ m.type \in {"SERVER", "MASTER_PUT"}
                 /\ UNCHANGED <<db, inbox>>
    BY <1>8 DEF ServerJoin, ServerNotify, Report, MkMsg
  <2>2. \A c \in Clients : OnItsWay(c) => OnItsWay(c)'
    BY <1>0, <2>1, WayAfterSend DEF Brings
  <2> QED
    BY <1>6, <2>1, <2>2
<1>9. CASE ServerListen(s)
  BY <1>0, <1>6, <1>9, WayKept DEF ServerListen
<1>10. CASE ServerDrop(s)
  <2>1. Accept(s, "EOF") /\ UNCHANGED <<db, inbox>>
    BY <1>5, <1>10 DEF ServerDrop, serverVars
  <2> QED
    BY <1>7, <2>1
<1>11. CASE ServerReorg(s)
  <2>1. Accept(s, "REORG") /\ UNCHANGED inbox
    BY <1>5, <1>11 DEF ServerReorg
  <2>2. \A q \in Servers : q # s => db'[q] = db[q]
    BY <1>0, <1>11 DEF ServerReorg, ServerTypeOK
  <2> QED
    BY <1>7, <2>1, <2>2
<1>12. CASE ServerReorgPut(s)
  <2>1. Accept(s, "REORG_PUT") /\ UNCHANGED inbox /\ StoreRequest(s) /\ queue[s] # <<>>
    BY <1>5, <1>12 DEF ServerReorgPut
  <2> QED
    BY <1>4, <1>7, <2>1
<1>13. CASE ServerPut(s)
  <2>1. /\ Accept(s, "PUT") /\ StoreRequest(s) /\ queue[s] # <<>>
        /\ Respond(Request(s).from, PutReply(TRUE))
    BY <1>5, <1>13 DEF ServerPut
  <2>2. PICK r : r = PutReply(TRUE)
    OBVIOUS
  <2>3. r.kind = "data" /\ Respond(queue[s][1].from, r)
    BY <1>4, <2>1, <2>2 DEF Respond, PutReply, NoReply
  <2> QED
    BY <1>4, <2>1, <2>3, AnswerFound
<1>14. CASE ServerGet(s)
  <2>1. PICK r : r = GetReply(Lookup(s, Request(s).key))
    OBVIOUS
  <2>2. /\ Accept(s, "GET") /\ UNCHANGED db /\ queue[s] # <<>>
        /\ Respond(Request(s).from, r)
    BY <1>5, <1>14, <2>1 DEF ServerGet, serverVars
  <2>3. r.kind = "data" /\ Respond(queue[s][1].from, r)
    BY <1>4, <2>1, <2>2 DEF Respond, GetReply, NoReply
  <2>4. PICK k : k = queue[s][1].key
    OBVIOUS
  <2>5. k \in 1..127 /\ k \in KeyFields /\ db[s][k] # None => r.status
    BY <1>4, <2>1, <2>2, <2>4, StoredIsReported
  <2> QED
    BY <2>2, <2>3, <2>4, <2>5, AnswerFound
<1> QED
  BY <1>1, <1>2, <1>3, <1>8, <1>9, <1>10, <1>11, <1>12, <1>13, <1>14 DEF ServerStep

\* A client that sends a GET it was routed for finds its key ahead of it.
LEMMA SendFound ==
    ASSUME TypeInv, PlacementInv, \A c \in Clients : Found(c),
           UNCHANGED <<masterVars, serverVars>>, History,
           NEW b \in Clients, ClientSend(b)
    PROVE  \A c \in Clients : Found(c)'
<1>0. NetTypeOK /\ MasterTypeOK /\ ClientTypeOK /\ db' = db
  BY DEF TypeInv, TypeOK, serverVars
<1>1. PICK p, m : p = Target(b) /\ m = Asks(b)
  OBVIOUS
<1>2. /\ cpc[b] \in {"start", "route"} /\ p \in Procs /\ Send(p, m)
      /\ cpc' = [cpc EXCEPT ![b] = IF cpc[b] = "start" THEN "lookup" ELSE "request"]
      /\ inbox' = [inbox EXCEPT ![b] = NoReply]
      /\ UNCHANGED <<op, code>>
  BY <1>1 DEF ClientSend, CanConnect
<1>3. /\ \A c \in Clients \ {b} : inbox'[c] = inbox[c] /\ cpc'[c] = cpc[c]
      /\ inbox'[b].kind = "none"
  BY <1>0, <1>2 DEF NetTypeOK, ClientTypeOK, NoReply
<1>4. \A c \in Clients : owed'[c] = owed[c] /\ epoch'[c] = epoch[c]
  <2>1. \A c \in Clients : ~Gets(c, "port")
    BY <1>3 DEF Gets
  <2> QED
    BY <2>1, OwedKept
<1>5. \A k \in KeyFields : placed'[k] = placed[k]
  <2>1. \A c \in Clients : ~Gets(c, "data")
    BY <1>3 DEF Gets
  <2> QED
    BY <2>1, PlacedKept DEF masterVars
<1>6. m.type # "REORG" /\ m.from = b
  BY <1>0, <1>1, ClientAssumption DEF Asks, MkMsg, ClientTypeOK
<1>7. ASSUME NEW c \in Clients PROVE Found(c)'
  <2>1. op[c].key \in KeyFields /\ Found(c)
    BY KeyOfOp
  <2>2. Wants(c)' => Wants(c)
    BY <1>2, <1>4 DEF Wants, masterVars, num_servers
  <2>3. CASE c # b
    <3>1. OnItsWay(c) => OnItsWay(c)'
      BY <1>0, <1>2, <1>6, <2>3, WayAfterSend DEF Brings
    <3> QED
      BY <1>2, <1>3, <1>5, <2>1, <2>2, <2>3, <3>1 DEF Found
  <2>4. CASE c = b
    <3>1. ASSUME Wants(c) PROVE OnItsWay(c)'
      <4>1. ASSUME NEW s \in Servers, NEW i, NEW k, s = p, i = Len(queue[p]) + 1, k = op[c].key
            PROVE  Ahead(s, i, k)
        <5>1. cpc[b] = "route" /\ route[b] = s
          BY <1>1, <1>2, <4>1, NetAssumption DEF Target
        <5>2. PortOf(k) = s
          BY <2>4, <3>1, <4>1, <5>1 DEF PlacementInv, Routed, Wants
        <5>3. ~Redistributes
          BY <3>1 DEF PlacementInv, Routed, Wants
        <5>4. placed[k] # None /\ k \in KeyFields
          BY <2>1, <3>1, <4>1 DEF Found
        <5>5. AtShard(k)
          BY <5>3, <5>4 DEF PlacementInv, Placed, AtMaster, Redistributes
        <5>6. PICK n \in Nat : Ahead(s, n, k)
          BY <5>2, <5>5 DEF AtShard
        <5>7. DOMAIN queue[s] = 1..Len(queue[s]) /\ Len(queue[s]) \in Nat
          BY <1>0 DEF NetTypeOK, Procs
        <5> QED
          BY <4>1, <5>6, <5>7 DEF Ahead
      <4>2. OnItsWay(c)
        BY <2>1, <3>1 DEF Found
      <4> QED
        BY <1>0, <1>2, <1>6, <4>1, <4>2, WayAfterSend
    <3> QED
      BY <1>2, <1>3, <1>5, <2>1, <2>2, <2>4, <3>1 DEF Found
  <2> QED
    BY <2>3, <2>4
<1> QED
  BY <1>7

LEMMA ClientFound ==
    ASSUME TypeInv, PlacementInv, \A c \in Clients : Found(c),
           UNCHANGED <<masterVars, serverVars>>, History, ClientNext
    PROVE  \A c \in Clients : Found(c)'
<1>0. NetTypeOK /\ ClientTypeOK /\ db' = db /\ UNCHANGED server_port_map
  BY DEF TypeInv, TypeOK, serverVars, masterVars
<1>1. PICK b \in Clients : ClientStep(b) \/ ClientKilled(b)
  BY DEF ClientNext
<1>2. CASE ClientSend(b)
  BY <1>2, SendFound
<1>3. CASE ClientKilled(b)
  <2>1. PICK p, m : p = Target(b) /\ m = MkMsg("EOF", 0, Empty, b)
    OBVIOUS
  <2>2. /\ p \in Procs /\ Send(p, m) /\ m.type = "EOF" /\ UNCHANGED <<op, code, inbox>>
        /\ \A c \in Clients : cpc'[c] = cpc[c] \/ cpc'[c] = "killed"
    BY <1>0, <1>3, <2>1 DEF ClientKilled, CanConnect, MkMsg, ClientTypeOK
  <2>3. \A c \in Clients : OnItsWay(c) => OnItsWay(c)'
    BY <1>0, <2>2, WayAfterSend DEF Brings
  <2> QED
    BY <1>0, <2>2, <2>3, KeyOfOp, FoundKept
<1>4. CASE ClientRefused(b) \/ ClientRouted(b) \/ ClientAnswered(b) \/ ClientCutOff(b)
  <2>1. /\ UNCHANGED <<op, queue, inbox>>
        /\ \A c \in Clients \ {b} : cpc'[c] = cpc[c] /\ code'[c] = code[c]
        /\ cpc'[b] # "request"
        /\ code'[b] = 2 =>
               \/ code[b] = 2
               \/ cpc[b] = "request" /\ inbox[b].kind = "data" /\ ~inbox[b].status
               \/ inbox[b].kind = "eof"
    BY <1>0, <1>4
    DEF ClientRefused, ClientRouted, ClientAnswered, ClientCutOff, Exit, netVars, ClientTypeOK
  <2>2. \A c \in Clients : owed'[c] = owed[c] /\ epoch'[c] = epoch[c]
    BY <2>1, OwedKept DEF Gets
  <2>3. \A k \in KeyFields : placed'[k] = placed[k]
    BY <1>0, <2>1, PlacedKept DEF Gets
  <2>4. ASSUME NEW c \in Clients PROVE Found(c)'
    <3>1. op[c].key \in KeyFields /\ Found(c)
      BY KeyOfOp
    <3>2. OnItsWay(c) => OnItsWay(c)'
      BY <1>0, <2>1, WayKept
    <3>3. Wants(c)' => Wants(c)
      BY <1>0, <2>1, <2>2 DEF Wants, num_servers
    <3>4. inbox[c].kind # "eof"
      BY DEF PlacementInv, Routed
    <3>5. CASE c # b
      BY <2>1, <2>3, <3>1, <3>2, <3>3, <3>5 DEF Found
    <3>6. CASE c = b
      BY <2>1, <2>3, <3>1, <3>2, <3>3, <3>4, <3>6 DEF Found
    <3> QED
      BY <3>5, <3>6
  <2> QED
    BY <2>4
<1> QED
  BY <1>1, <1>2, <1>3, <1>4 DEF ClientStep

FoundHolds == Intact => \A c \in Clients : Found(c)

LEMMA NextFound ==
    ASSUME NonEmptyPuts, TypeInv, PlacementHolds, Provenance, FoundHolds, [Next]_vars
    PROVE  FoundHolds'
<1> SUFFICES ASSUME Intact' PROVE \A c \in Clients : Found(c)'
  BY DEF FoundHolds
<1>1. Intact /\ PlacementInv /\ \A c \in Clients : Found(c)
  BY IntactBefore DEF PlacementHolds, FoundHolds
<1>2. CASE UNCHANGED vars
  <2>1. UNCHANGED <<queue, inbox, server_port_map, db, op, cpc, code, placed, epoch, owed>>
    BY <1>2 DEF vars, netVars, masterVars, serverVars, clientVars, historyVars
  <2> QED
    BY <1>1, <2>1
    DEF Found, Wants, OnItsWay, Brings, Ahead, ReorgAfter, num_servers
<1> QED
  BY <1>1, <1>2, MasterFound, ServerFound, ClientFound DEF Next, Rest

\* While nobody dies, a GET is not told "no such key" for a key that was placed
\* when the master routed it, unless servers joined since: what puts the key at
\* its shard is ahead of it in the queue.  Clients that write the empty value
\* are left out, since a GET's answer cannot tell it from no value.
THEOREM PlacedKeyFoundCorrect == ASSUME NonEmptyPuts PROVE Spec => []PlacedKeyFound
<1>1. Init => PlacementHolds
  BY InitPlacement DEF PlacementHolds
<1>2. TypeInv /\ PlacementHolds /\ [Next]_vars => PlacementHolds'
  BY NextPlacement
<1>3. Init => FoundHolds
  BY DEF Init, FoundHolds, Found, Wants
<1>4. TypeInv /\ PlacementHolds /\ Provenance /\ FoundHolds /\ [Next]_vars => FoundHolds'
  BY NextFound
<1>5. FoundHolds => PlacedKeyFound
  BY DEF FoundHolds, Found, Wants, PlacedKeyFound
<1> QED
  BY <1>1, <1>2, <1>3, <1>4, <1>5, InitTypes, NextTypes, ProvenanceCorrect, PTL DEF Spec
-----------------------------------------------------------------------------
(* Keys at the wrong shard. *)

\* The redistribution under way, if any, goes on as it stands.
PlanKept ==
    /\ UNCHANGED server_port_map
    /\ mpc = "reorg" => mpc' = "reorg" /\ reorg_next' = reorg_next

\* What client c's PUT left at a shard stays explained.
StaysPut(c) ==
    cpc[c] \in {"request", "done"} =>
        /\ cpc'[c] \in {"request", "done"} /\ route'[c] = route[c]
        /\ epoch'[c] = num_servers' => epoch[c] = num_servers /\ UNCHANGED server_port_map

LEMMA ReorgStaysBehind ==
    ASSUME NetTypeOK, NEW p \in Procs, NEW m, Send(p, m), NEW s \in Procs, NEW i, ReorgAfter(s, i)
    PROVE  ReorgAfter(s, i)'
<1>1. PICK j \in DOMAIN queue[s] : j > i /\ queue[s][j].type = "REORG"
  BY DEF ReorgAfter
<1>2. j \in DOMAIN queue'[s] /\ queue'[s][j] = queue[s][j]
  BY SendQueue
<1> QED
  BY <1>1, <1>2 DEF ReorgAfter

\* A REORG behind the next but one request is behind the next, once the first
\* is accepted; and one behind the first is still there if that was none.
LEMMA ReorgMovesUp ==
    ASSUME NetTypeOK, NEW s \in Procs, NEW t, Accept(s, t), NEW i \in Nat,
           ReorgAfter(s, i + 1) \/ (t # "REORG" /\ i = 0 /\ ReorgAfter(s, 0))
    PROVE  ReorgAfter(s, i)'
<1>1. /\ Len(queue[s]) \in Nat /\ DOMAIN queue[s] = 1..Len(queue[s])
      /\ DOMAIN queue'[s] = 1..(Len(queue[s]) - 1) /\ queue[s][1].type = t
      /\ \A j \in 1..(Len(queue[s]) - 1) : queue'[s][j] = queue[s][j + 1]
  BY AcceptQueue
<1>2. PICK j \in DOMAIN queue[s] : j > i + 1 /\ queue[s][j].type = "REORG"
  <2>1. CASE ReorgAfter(s, i + 1)
    BY <2>1 DEF ReorgAfter
  <2>2. CASE t # "REORG" /\ i = 0 /\ ReorgAfter(s, 0)
    <3>1. PICK j \in DOMAIN queue[s] : j > 0 /\ queue[s][j].type = "REORG"
      BY <2>2 DEF ReorgAfter
    <3>2. j > i + 1
      BY <1>1, <2>2, <3>1
    <3> QED
      BY <3>1, <3>2
  <2> QED
    BY <2>1, <2>2
<1>3. /\ j - 1 \in 1..(Len(queue[s]) - 1) /\ (j - 1) + 1 = j /\ j - 1 > i
  BY <1>1, <1>2
<1>4. PICK n : n = j - 1
  OBVIOUS
<1>5. n \in DOMAIN queue'[s] /\ n > i /\ queue'[s][n].type = "REORG"
  BY <1>1, <1>2, <1>3, <1>4
<1> QED
  BY <1>5 DEF ReorgAfter

\* What is settled stays so while the plan does.
LEMMA SettledKept ==
    ASSUME PlanKept, NEW s, NEW k, NEW i, NEW n, Settled(s, k, i),
           ReorgAfter(s, i) => ReorgAfter(s, n)'
    PROVE  Settled(s, k, n)'
BY PortKept DEF Settled, Doomed, PlanKept, num_servers

\* No client is answered a PUT in this step.
NothingStored == \A c \in Clients, k \in KeyFields : ~Stored(c, k)

\* A shard serves no REORG when its queue stays, grows or loses another request.
LEMMA NotReorganizing ==
    ASSUME NetTypeOK, NEW s \in Servers,
           \/ queue'[s] = queue[s]
           \/ \E p \in Procs, m \in Msg : Send(p, m)
           \/ \E t : t # "REORG" /\ Accept(s, t)
    PROVE  ~Reorganizes(s)
<1> SUFFICES ASSUME Reorganizes(s) PROVE FALSE
  OBVIOUS
<1>0. s \in Procs /\ queue[s] \in Seq(Msg)
  BY DEF Procs, NetTypeOK
<1>1. queue[s] # <<>> /\ Head(queue[s]).type = "REORG" /\ queue'[s] = Tail(queue[s])
  BY DEF Reorganizes
<1>2. PICK q : q = queue[s]
  OBVIOUS
<1>3. PICK n : n = Len(q)
  OBVIOUS
<1>4. /\ q \in Seq(Msg) /\ n \in Nat /\ Len(Tail(q)) = n - 1 /\ Head(q) = q[1]
      /\ queue'[s] = Tail(q) /\ q[1].type = "REORG"
  <2>1. q \in Seq(Msg) /\ q # <<>>
    BY <1>0, <1>1, <1>2
  <2> QED
    BY <1>1, <1>2, <1>3, <2>1, HeadTailProperties
<1>5. CASE queue'[s] = queue[s]
  <2>1. Tail(q) = q
    BY <1>2, <1>4, <1>5
  <2>2. n = n - 1
    BY <1>3, <1>4, <2>1
  <2> QED
    BY <1>4, <2>2
<1>6. ASSUME NEW p \in Procs, NEW m \in Msg, Send(p, m) PROVE FALSE
  <2>1. queue'[s] = q \/ queue'[s] = Append(q, m)
    BY <1>0, <1>2, <1>6 DEF Send, NetTypeOK
  <2>2. Len(Append(q, m)) = n + 1
    BY <1>3, <1>4
  <2>3. n - 1 = n \/ n - 1 = n + 1
    BY <1>3, <1>4, <2>1, <2>2
  <2> QED
    BY <1>4, <2>3
<1>7. ASSUME NEW t, t # "REORG", Accept(s, t) PROVE FALSE
  BY <1>0, <1>2, <1>4, <1>7, AcceptQueue
<1> QED
  BY <1>5, <1>6, <1>7

LEMMA SinceKept ==
    ASSUME History, NetTypeOK, NEW s \in Servers, NothingStored,
           \/ queue'[s] = queue[s]
           \/ \E p \in Procs, m \in Msg : Send(p, m)
           \/ \E t : t # "REORG" /\ Accept(s, t)
    PROVE  since'[s] = since[s]
<1>1. ~Reorganizes(s)
  BY NotReorganizing
<1> QED
  BY <1>1 DEF History, NothingStored

LEMMA PutThereKept ==
    ASSUME NEW s, NEW k, PutThere(s, k), op' = op, \A c \in Clients : StaysPut(c)
    PROVE  PutThere(s, k)'
<1>1. PICK c \in Clients :
         /\ op[c].type = "PUT" /\ op[c].key = k /\ route[c] = s /\ cpc[c] \in {"request", "done"}
         /\ epoch[c] = num_servers => PortOf(k) = s
  BY DEF PutThere
<1>2. epoch'[c] = num_servers' => PortOf(k)' = s
  BY <1>1, PortKept DEF StaysPut
<1> QED
  BY <1>1, <1>2 DEF PutThere, StaysPut

\* The four parts of Strays, one by one.
LEMMA StraysStep ==
    ASSUME NEW s \in Servers, Strays(s), op' = op, \A c \in Clients : StaysPut(c),
           starts'[s] <= 1 /\ (spc'[s] = "down" => starts'[s] = 0),
           since'[s] = since[s], db'[s] = db[s],
           \A k \in KeyFields : Settled(s, k, 0) => Settled(s, k, 0)',
           \A i \in DOMAIN queue'[s] : \A k :
               queue'[s][i].type = "REORG_PUT" /\ queue'[s][i].key = k => Settled(s, k, i)'
    PROVE  Strays(s)'
<1>1. \A k \in since[s] : PutThere(s, k)'
  <2>1. SUFFICES ASSUME NEW k \in since[s] PROVE PutThere(s, k)'
    OBVIOUS
  <2>2. PutThere(s, k)
    BY DEF Strays
  <2> QED
    BY <2>2, PutThereKept
<1>2. \A k \in KeyFields : db'[s][k] # None /\ k \notin since'[s] => Settled(s, k, 0)'
  BY DEF Strays
<1>3. \A i \in DOMAIN queue'[s] :
          queue'[s][i].type = "REORG_PUT" => Settled(s, queue[s][i].key, i)'
  OBVIOUS
<1> QED
  BY <1>1, <1>2, <1>3 DEF Strays

StraysInv ==
    /\ \A s \in Servers : Strays(s)
    /\ Redistributes => num_servers >= 3

\* Nothing happens in the queues of the shards.
LEMMA StraysStill ==
    ASSUME NetTypeOK, \A s \in Servers : Strays(s), History, PlanKept, op' = op,
           \A c \in Clients : StaysPut(c), NothingStored,
           \A s \in Servers : starts'[s] <= 1 /\ (spc'[s] = "down" => starts'[s] = 0),
           \A s \in Servers : queue'[s] = queue[s] /\ db'[s] = db[s]
    PROVE  \A s \in Servers : Strays(s)'
<1> SUFFICES ASSUME NEW s \in Servers PROVE Strays(s)'
  OBVIOUS
<1>1. queue'[s] = queue[s] /\ db'[s] = db[s] /\ since'[s] = since[s]
  BY SinceKept
<1>2. \A i : ReorgAfter(s, i) => ReorgAfter(s, i)'
  BY <1>1 DEF ReorgAfter
<1>3. \A k, i : Settled(s, k, i) => Settled(s, k, i)'
  BY <1>2, SettledKept
<1>4. \A i \in DOMAIN queue'[s] : \A k :
          queue'[s][i].type = "REORG_PUT" /\ queue'[s][i].key = k => Settled(s, k, i)'
  BY <1>1, <1>3 DEF Strays
<1> QED
  BY <1>1, <1>3, <1>4, StraysStep

\* A request other than a REORG is sent; a REORG_PUT goes where it belongs.
LEMMA StraysSent ==
    ASSUME NetTypeOK, \A s \in Servers : Strays(s), History, PlanKept, op' = op,
           \A c \in Clients : StaysPut(c), NothingStored,
           UNCHANGED <<starts, spc, db>>, NEW p \in Procs, NEW m \in Msg, Send(p, m),
           m.type = "REORG_PUT" => num_servers >= 3 /\ PortOf(m.key) = p
    PROVE  \A s \in Servers : Strays(s)'
<1> SUFFICES ASSUME NEW s \in Servers PROVE Strays(s)'
  OBVIOUS
<1>0. s \in Procs
  BY DEF Procs
<1>1. db'[s] = db[s] /\ since'[s] = since[s]
  BY SinceKept
<1>2. \A i : ReorgAfter(s, i) => ReorgAfter(s, i)'
  BY <1>0, ReorgStaysBehind
<1>3. \A k, i : Settled(s, k, i) => Settled(s, k, i)'
  BY <1>2, SettledKept
<1>4. ASSUME NEW i \in DOMAIN queue'[s], NEW k,
             queue'[s][i].type = "REORG_PUT", queue'[s][i].key = k
      PROVE  Settled(s, k, i)'
  <2>1. CASE s = p /\ i = Len(queue[p]) + 1
    <3>1. queue'[s][i] = m
      BY <2>1, SendQueue
    <3>2. num_servers >= 3 /\ PortOf(k) = s
      BY <1>4, <2>1, <3>1
    <3> QED
      BY <1>3, <3>2 DEF Settled
  <2>2. CASE ~(s = p /\ i = Len(queue[p]) + 1)
    <3>1. i \in DOMAIN queue[s] /\ queue'[s][i] = queue[s][i]
      BY <1>0, <2>2, SendQueue
    <3> QED
      BY <1>3, <1>4, <3>1 DEF Strays
  <2> QED
    BY <2>1, <2>2
<1>5. starts'[s] <= 1 /\ (spc'[s] = "down" => starts'[s] = 0)
  BY DEF Strays
<1> QED
  BY <1>1, <1>3, <1>4, <1>5, StraysStep

\* What is known of the requests of shard r when shard s accepts one.
LEMMA AcceptSettles ==
    ASSUME NetTypeOK, \A r \in Servers : Strays(r), PlanKept,
           NEW s \in Servers, NEW t, Accept(s, t), NEW r \in Servers
    PROVE  /\ \A i \in DOMAIN queue'[r] : \A k :
                  queue'[r][i].type = "REORG_PUT" /\ queue'[r][i].key = k => Settled(r, k, i)'
           /\ r # s \/ t # "REORG" => \A k : Settled(r, k, 0) => Settled(r, k, 0)'
           /\ t = "REORG_PUT" => Settled(s, queue[s][1].key, 1)
           /\ \A k : Settled(s, k, 1) => Settled(s, k, 0)'
<1>0. s \in Procs /\ r \in Procs
  BY DEF Procs
<1>1. /\ Len(queue[s]) \in Nat /\ DOMAIN queue[s] = 1..Len(queue[s]) /\ 1 \in DOMAIN queue[s]
      /\ DOMAIN queue'[s] = 1..(Len(queue[s]) - 1) /\ queue[s][1].type = t
      /\ \A j \in 1..(Len(queue[s]) - 1) : queue'[s][j] = queue[s][j + 1]
      /\ r # s => queue'[r] = queue[r]
  BY <1>0, AcceptQueue
<1>2. \A i \in Nat : ReorgAfter(s, i + 1) => ReorgAfter(s, i)'
  BY <1>0, ReorgMovesUp
<1>3. \A i \in Nat : \A k : Settled(s, k, i + 1) => Settled(s, k, i)'
  BY <1>2, SettledKept
<1>4. ASSUME r # s
      PROVE  \A i, k : Settled(r, k, i) => Settled(r, k, i)'
  <2>1. \A i : ReorgAfter(r, i) => ReorgAfter(r, i)'
    BY <1>1, <1>4 DEF ReorgAfter
  <2> QED
    BY <2>1, SettledKept
<1>5. ASSUME NEW i \in DOMAIN queue'[r], NEW k,
             queue'[r][i].type = "REORG_PUT", queue'[r][i].key = k
      PROVE  Settled(r, k, i)'
  <2>1. CASE r # s
    BY <1>1, <1>4, <1>5, <2>1 DEF Strays
  <2>2. CASE r = s
    <3>1. i \in Nat /\ i + 1 \in DOMAIN queue[s] /\ queue'[s][i] = queue[s][i + 1]
      BY <1>1, <2>2
    <3>2. Settled(s, k, i + 1)
      BY <1>5, <2>2, <3>1 DEF Strays
    <3> QED
      BY <1>3, <2>2, <3>1, <3>2
  <2> QED
    BY <2>1, <2>2
<1>6. ASSUME t # "REORG"
      PROVE  \A k : Settled(s, k, 0) => Settled(s, k, 0)'
  <2>1. ReorgAfter(s, 0) => ReorgAfter(s, 0)'
    BY <1>0, <1>6, ReorgMovesUp
  <2> QED
    BY <2>1, SettledKept
<1>7. t = "REORG_PUT" => Settled(s, queue[s][1].key, 1)
  BY <1>1 DEF Strays
<1>8. \A k : Settled(s, k, 1) => Settled(s, k, 0)'
  <2>1. ReorgAfter(s, 1) => ReorgAfter(s, 0)'
    <3>1. ReorgAfter(s, 0 + 1) => ReorgAfter(s, 0)'
      BY <1>0, ReorgMovesUp
    <3> QED
      BY <3>1
  <2> QED
    BY <2>1, SettledKept
<1> QED
  BY <1>4, <1>5, <1>6, <1>7, <1>8

LEMMA MasterStrays ==
    ASSUME TypeInv, PlacementInv, StraysInv, UNCHANGED <<serverVars, clientVars>>, History,
           MasterNext, Intact'
    PROVE  StraysInv'
<1>0. /\ NetTypeOK /\ MasterTypeOK /\ Master \in Procs /\ Master \notin Servers
      /\ UNCHANGED <<starts, spc, db, op, cpc, route>>
      /\ \A s \in Servers : s \in Procs /\ Strays(s) /\ queue[s] \in Seq(Msg)
  BY NetAssumption DEF TypeInv, TypeOK, Procs, serverVars, clientVars, StraysInv, NetTypeOK
<1>1. ~(MasterConnectFails \/ MasterDividesByZero)
  BY DEF MasterConnectFails, MasterDividesByZero, MasterLeaves, Intact
<1>2. \A s \in Servers : starts'[s] <= 1 /\ (spc'[s] = "down" => starts'[s] = 0)
  BY <1>0 DEF Strays
<1>3. ASSUME NEW t, MasterReceives(t)
      PROVE  mpc = "accept" /\ \A s \in Servers : queue'[s] = queue[s]
  BY <1>0, <1>3, AcceptQueue DEF MasterReceives
<1>4. ASSUME UNCHANGED <<inbox, server_port_map>>
      PROVE  NothingStored /\ \A c \in Clients : StaysPut(c)
  <2>1. \A c \in Clients : ~Gets(c, "data") /\ ~Gets(c, "port")
    BY <1>4 DEF Gets
  <2>2. \A c \in Clients : epoch'[c] = epoch[c]
    BY <2>1, EpochKept
  <2> QED
    BY <1>0, <1>4, <2>1, <2>2 DEF StaysPut, num_servers, NothingStored, Stored
<1>5. CASE MasterDrop \/ MasterPut
  <2>1. /\ UNCHANGED <<inbox, server_port_map, mpc>> /\ mpc = "accept"
        /\ \A s \in Servers : queue'[s] = queue[s]
    BY <1>3, <1>5 DEF MasterDrop, MasterPut, masterVars
  <2>2. \A s \in Servers : Strays(s)'
    BY <1>0, <1>2, <1>4, <2>1, StraysStill DEF PlanKept
  <2> QED
    BY <2>1, <2>2 DEF StraysInv, Redistributes
<1>6. CASE MasterReorgDone \/ MasterOutOfDescriptors
  <2>1. /\ UNCHANGED <<inbox, server_port_map, queue>> /\ mpc # "reorg"
        /\ mpc' \notin {"reorg", "reput"}
    BY <1>6 DEF MasterReorgDone, MasterOutOfDescriptors, netVars
  <2>2. \A s \in Servers : Strays(s)'
    BY <1>0, <1>2, <1>4, <2>1, StraysStill DEF PlanKept
  <2> QED
    BY <2>1, <2>2 DEF StraysInv, Redistributes
<1>7. CASE MasterLookup
  <2>1. /\ MasterReceives("GET") /\ UNCHANGED <<server_port_map, mpc>> /\ mpc = "accept"
        /\ \A s \in Servers : queue'[s] = queue[s]
    BY <1>3, <1>7 DEF MasterLookup
  <2>2. PICK b : b = Request(Master).from
    OBVIOUS
  <2>3. /\ b = queue[Master][1].from /\ 1 \in DOMAIN queue[Master]
        /\ queue[Master][1].type = "GET"
    BY <1>0, <2>1, <2>2, AcceptQueue, RequestType DEF MasterReceives
  <2>4. /\ \A a \in Clients \ {b} : inbox'[a] = inbox[a]
        /\ b \in Clients => inbox'[b].kind = "port"
    BY <1>0, <1>7, <2>2 DEF MasterLookup, Respond, NetTypeOK, PortReply, NoReply
  <2>5. b \in Clients => cpc[b] = "lookup"
    BY <2>3 DEF PlacementInv, LookupAt, Asked
  <2>6. NothingStored
    BY <2>4 DEF Gets, NothingStored, Stored
  <2>7. ASSUME NEW c \in Clients PROVE StaysPut(c)
    <3>1. c # b => epoch'[c] = epoch[c]
      BY <2>4, EpochKept DEF Gets
    <3> QED
      BY <1>0, <2>1, <2>5, <3>1 DEF StaysPut, num_servers
  <2>8. \A s \in Servers : Strays(s)'
    BY <1>0, <1>2, <2>1, <2>6, <2>7, StraysStill DEF PlanKept
  <2> QED
    BY <2>1, <2>8 DEF StraysInv, Redistributes
<1>8. CASE MasterReorgPut
  <2>1. PICK k \in reput_left : /\ CanConnect(PortOf(k))
                                /\ Send(PortOf(k), MkMsg("REORG_PUT", k, kv_map[k], Master))
    BY <1>8 DEF MasterReorgPut
  <2>2. PICK p, m : p = PortOf(k) /\ m = MkMsg("REORG_PUT", k, kv_map[k], Master)
    OBVIOUS
  <2>3. p \in Procs /\ Send(p, m) /\ m.type = "REORG_PUT" /\ m.key = k
    BY <2>1, <2>2 DEF CanConnect, MkMsg
  <2>4. mpc = "reput" /\ UNCHANGED <<mpc, server_port_map, inbox>>
    BY <1>8 DEF MasterReorgPut
  <2>5. m \in Msg
    <3>1. k \in KeyFields /\ kv_map[k] \in Payload
      BY <1>0, <2>4 DEF TypeInv, ReputKnown, MasterTypeOK
    <3> QED
      BY <1>0, <2>2, <3>1 DEF MkMsg, Msg
  <2>6. num_servers >= 3
    BY <2>4 DEF StraysInv, Redistributes
  <2>7. \A s \in Servers : Strays(s)'
    BY <1>0, <1>4, <2>2, <2>3, <2>4, <2>5, <2>6, StraysSent DEF PlanKept
  <2> QED
    BY <2>4, <2>6, <2>7 DEF StraysInv, num_servers
<1>9. CASE MasterReorg
  <2>1. PICK p, m : /\ p = server_port_map[reorg_next]
                    /\ m = MkMsg("REORG", 0, Empty, Master)
    OBVIOUS
  <2>2. /\ p \in Procs /\ Send(p, m) /\ m.type = "REORG" /\ m \in Msg
        /\ mpc = "reorg" /\ UNCHANGED <<server_port_map, inbox>>
        /\ \/ reorg_next < num_servers /\ reorg_next' = reorg_next + 1 /\ mpc' = mpc
           \/ reorg_next >= num_servers /\ mpc' = "reput"
        /\ reorg_next \in Nat /\ num_servers \in Nat
    <3>1. p \in Procs /\ Send(p, m)
      BY <1>9, <2>1 DEF MasterReorg, CanConnect
    <3>2. m.type = "REORG" /\ m \in Msg
      BY <1>0, <2>1 DEF MkMsg, Msg, KeyFields, Payload
    <3>3. reorg_next \in Nat /\ num_servers \in Nat
      BY <1>0 DEF MasterTypeOK, num_servers
    <3> QED
      BY <1>9, <3>1, <3>2, <3>3 DEF MasterReorg
  <2>3. ASSUME NEW s \in Servers, NEW i, i < Len(queue[s]) + 1, NEW k, Settled(s, k, i)
        PROVE  Settled(s, k, i)'
    <3>1. num_servers' >= 3 /\ PortOf(k)' = PortOf(k) /\ num_servers >= 3
      BY <2>2, <2>3, PortKept DEF Settled, num_servers
    <3>2. CASE ReorgAfter(s, i)
      BY <1>0, <2>2, <3>1, <3>2, ReorgStaysBehind DEF Settled, Doomed
    <3>3. ASSUME NEW j \in reorg_next..num_servers, server_port_map[j] = s
          PROVE  Settled(s, k, i)'
      <4>1. CASE j = reorg_next
        <5>1. PICK n : n = Len(queue[s]) + 1
          OBVIOUS
        <5>2. n \in DOMAIN queue'[s] /\ queue'[s][n] = m /\ n > i
          <6>1. s = p
            BY <2>1, <3>3, <4>1
          <6>2. /\ Len(queue[p]) \in Nat /\ DOMAIN queue'[p] = 1..(Len(queue[p]) + 1)
                /\ queue'[p][Len(queue[p]) + 1] = m
            BY <1>0, <2>2, SendQueue
          <6> QED
            BY <2>3, <5>1, <6>1, <6>2
        <5>3. ReorgAfter(s, i)'
          BY <2>2, <5>2 DEF ReorgAfter
        <5> QED
          BY <3>1, <5>3 DEF Settled, Doomed
      <4>2. CASE j # reorg_next
        <5>1. /\ mpc' = "reorg" /\ j \in reorg_next'..num_servers'
              /\ server_port_map'[j] = s
          BY <2>2, <3>3, <4>2 DEF num_servers
        <5> QED
          BY <3>1, <5>1 DEF Settled, Doomed
      <4> QED
        BY <4>1, <4>2
    <3>4. CASE PortOf(k) = s
      BY <3>1, <3>4 DEF Settled
    <3> QED
      BY <2>3, <3>2, <3>3, <3>4 DEF Settled, Doomed
  <2>4. ASSUME NEW s \in Servers PROVE Strays(s)'
    <3>1. db'[s] = db[s] /\ since'[s] = since[s]
      BY <1>0, <1>4, <2>2, SinceKept
    <3>2. Len(queue[s]) \in Nat /\ DOMAIN queue[s] = 1..Len(queue[s])
      BY <1>0
    <3>3. \A k : Settled(s, k, 0) => Settled(s, k, 0)'
      <4>1. PICK i : i = 0
        OBVIOUS
      <4>2. i < Len(queue[s]) + 1
        BY <3>2, <4>1
      <4>3. \A k : Settled(s, k, i) => Settled(s, k, i)'
        BY <2>3, <4>2
      <4> QED
        BY <4>1, <4>3
    <3>4. ASSUME NEW i \in DOMAIN queue'[s], NEW k,
                 queue'[s][i].type = "REORG_PUT", queue'[s][i].key = k
          PROVE  Settled(s, k, i)'
      <4>1. i \in DOMAIN queue[s] /\ queue'[s][i] = queue[s][i]
        <5>1. NetTypeOK /\ p \in Procs /\ Send(p, m) /\ m.type = "REORG"
          BY <1>0, <2>2
        <5>2. CASE s = p
          <6>1. /\ DOMAIN queue'[p] = 1..(Len(queue[p]) + 1)
                /\ \A j \in 1..Len(queue[p]) : queue'[p][j] = queue[p][j]
                /\ queue'[p][Len(queue[p]) + 1] = m
            BY <5>1, SendQueue
          <6>2. i # Len(queue[p]) + 1
            BY <3>4, <5>1, <5>2, <6>1
          <6> QED
            BY <3>2, <3>4, <5>2, <6>1, <6>2
        <5>3. CASE s # p
          BY <3>4, <5>1, <5>3, SendQueue DEF Procs
        <5> QED
          BY <5>2, <5>3
      <4>2. Settled(s, k, i) /\ i < Len(queue[s]) + 1
        BY <1>0, <3>2, <3>4, <4>1 DEF Strays
      <4> QED
        BY <2>3, <4>2
    <3> QED
      BY <1>0, <1>2, <1>4, <2>2, <3>1, <3>3, <3>4, StraysStep
  <2> QED
    BY <2>2, <2>4 DEF StraysInv, Redistributes, num_servers
<1>10. CASE MasterJoin
  <2>1. PICK f : f = Request(Master).from
    OBVIOUS
  <2>2. /\ MasterReceives("SERVER") /\ UNCHANGED inbox /\ mpc = "accept"
        /\ server_port_map' = Append(server_port_map, f) /\ server_port_map \in Seq(Servers)
        /\ \A s \in Servers : queue'[s] = queue[s]
        /\ IF num_servers + 1 >= 3 THEN mpc' = "reorg" /\ reorg_next' = 1 ELSE mpc' = mpc
    BY <1>0, <1>3, <1>10, <2>1 DEF MasterJoin, MasterTypeOK, NeedsReorg
  <2>3. /\ num_servers' = num_servers + 1 /\ num_servers \in Nat
        /\ \A j \in 1..num_servers : server_port_map'[j] = server_port_map[j]
    BY <2>2 DEF num_servers
  <2>0. NothingStored
    BY <2>2 DEF Gets, NothingStored, Stored
  <2>4. ASSUME NEW c \in Clients PROVE StaysPut(c)
    <3>1. epoch'[c] = epoch[c] /\ epoch[c] \in 0..num_servers
      BY <2>2, EpochKept DEF Gets, PlacementInv, Routed
    <3> QED
      BY <1>0, <2>2, <2>3, <3>1 DEF StaysPut
  <2>5. ASSUME NEW s \in Servers, NEW k, NEW i, Settled(s, k, i)
        PROVE  Settled(s, k, i)'
    <3>1. num_servers >= 3 /\ (PortOf(k) = s \/ ReorgAfter(s, i))
      BY <2>2, <2>5 DEF Settled, Doomed
    <3>2. CASE ReorgAfter(s, i)
      <4>1. ReorgAfter(s, i)'
        BY <2>2, <3>2 DEF ReorgAfter
      <4> QED
        BY <2>3, <3>1, <4>1 DEF Settled, Doomed
    <3>3. CASE PortOf(k) = s
      <4>1. PICK j \in DOMAIN server_port_map : server_port_map[j] = s
        BY <3>3, NetAssumption DEF PortOf
      <4>2. j \in 1..num_servers' /\ server_port_map'[j] = s
        BY <2>2, <2>3, <4>1 DEF num_servers
      <4>3. mpc' = "reorg" /\ reorg_next' = 1
        BY <2>2, <2>3, <3>1
      <4> QED
        BY <2>3, <3>1, <4>2, <4>3 DEF Settled, Doomed
    <3> QED
      BY <3>1, <3>2, <3>3
  <2>6. ASSUME NEW s \in Servers PROVE Strays(s)'
    <3>1. db'[s] = db[s] /\ since'[s] = since[s]
      BY <1>0, <2>0, <2>2, SinceKept
    <3>2. \A i \in DOMAIN queue'[s] : \A k :
              queue'[s][i].type = "REORG_PUT" /\ queue'[s][i].key = k => Settled(s, k, i)'
      BY <1>0, <2>2, <2>5 DEF Strays
    <3> QED
      BY <1>0, <1>2, <2>4, <2>5, <3>1, <3>2, StraysStep
  <2> QED
    BY <2>2, <2>3, <2>6 DEF StraysInv, Redistributes
<1> QED
  BY <1>1, <1>5, <1>6, <1>7, <1>8, <1>9, <1>10 DEF MasterNext

\* A server accepts a request other than a PUT and a REORG.
LEMMA StraysAccepted ==
    ASSUME NetTypeOK, \A r \in Servers : Strays(r), History, PlanKept, op' = op,
           \A c \in Clients : StaysPut(c), NothingStored,
           UNCHANGED <<starts, spc>>, NEW s \in Servers, NEW t, t # "REORG", Accept(s, t),
           \A r \in Servers : r # s => db'[r] = db[r],
           \A k \in KeyFields : db'[s][k] # None =>
               db[s][k] # None \/ (t = "REORG_PUT" /\ queue[s][1].key = k)
    PROVE  \A r \in Servers : Strays(r)'
<1> SUFFICES ASSUME NEW r \in Servers PROVE Strays(r)'
  OBVIOUS
<1>1. since'[r] = since[r]
  <2>1. r # s => queue'[r] = queue[r]
    BY AcceptQueue DEF Procs
  <2> QED
    BY <2>1, SinceKept
<1>2. /\ \A i \in DOMAIN queue'[r] : \A k :
            queue'[r][i].type = "REORG_PUT" /\ queue'[r][i].key = k => Settled(r, k, i)'
      /\ \A k : Settled(r, k, 0) => Settled(r, k, 0)'
      /\ t = "REORG_PUT" => Settled(s, queue[s][1].key, 1)
      /\ \A k : Settled(s, k, 1) => Settled(s, k, 0)'
  BY AcceptSettles
<1>3. starts'[r] <= 1 /\ (spc'[r] = "down" => starts'[r] = 0)
  BY DEF Strays
<1>4. CASE r # s
  BY <1>1, <1>2, <1>3, <1>4, StraysStep
<1>5. CASE r = s
  <2>1. \A k \in since[s] : PutThere(s, k)'
    <3>1. SUFFICES ASSUME NEW k \in since[s] PROVE PutThere(s, k)'
      OBVIOUS
    <3>2. PutThere(s, k)
      BY DEF Strays
    <3> QED
      BY <3>2, PutThereKept
  <2>2. ASSUME NEW k \in KeyFields, db'[s][k] # None, k \notin since'[s]
        PROVE  Settled(s, k, 0)'
    <3>1. k \notin since[s]
      BY <1>1, <1>5, <2>2
    <3>2. CASE db[s][k] # None
      BY <1>2, <1>5, <3>1, <3>2 DEF Strays
    <3>3. CASE t = "REORG_PUT" /\ queue[s][1].key = k
      BY <1>2, <3>3
    <3> QED
      BY <2>2, <3>2, <3>3
  <2> QED
    BY <1>1, <1>2, <1>3, <1>5, <2>1, <2>2 DEF Strays
<1> QED
  BY <1>4, <1>5

\* A shard deletes all it holds when it serves a REORG.
LEMMA ReorgStrays ==
    ASSUME TypeInv, StraysInv, History, PlanKept, op' = op, KeysCoverDb,
           \A c \in Clients : StaysPut(c), NothingStored,
           NEW s \in Servers, ServerReorg(s)
    PROVE  \A r \in Servers : Strays(r)'
<1> SUFFICES ASSUME NEW r \in Servers PROVE Strays(r)'
  OBVIOUS
<1>0. NetTypeOK /\ ServerTypeOK /\ \A q \in Servers : q \in Procs /\ Strays(q)
  BY DEF TypeInv, TypeOK, StraysInv, Procs
<1>1. /\ spc[s] = "loop" /\ Accept(s, "REORG") /\ UNCHANGED <<spc, starts>>
      /\ \A k \in KeyFields : db'[s][k] = IF k \in keys[s] THEN None ELSE db[s][k]
      /\ \A q \in Servers : q # s => db'[q] = db[q]
  BY <1>0 DEF ServerReorg, ServerReceives, ServerTypeOK
<1>2. /\ \A i \in DOMAIN queue'[r] : \A k :
            queue'[r][i].type = "REORG_PUT" /\ queue'[r][i].key = k => Settled(r, k, i)'
      /\ r # s => \A k : Settled(r, k, 0) => Settled(r, k, 0)'
  BY <1>0, <1>1, AcceptSettles
<1>3. starts'[r] <= 1 /\ (spc'[r] = "down" => starts'[r] = 0)
  BY <1>0, <1>1 DEF Strays
<1>4. CASE r # s
  <2>1. queue'[r] = queue[r]
    BY <1>0, <1>1, <1>4, AcceptQueue
  <2>2. since'[r] = since[r] /\ db'[r] = db[r]
    BY <1>0, <1>1, <1>4, <2>1, SinceKept
  <2> QED
    BY <1>0, <1>2, <1>3, <1>4, <2>2, StraysStep
<1>5. CASE r = s
  <2>1. \A k \in KeyFields : db'[s][k] = None
    <3>1. {k \in KeyFields : db[s][k] # None} = keys[s]
      BY <1>0, <1>1 DEF KeysCoverDb, Strays
    <3> QED
      BY <1>1, <3>1
  <2>2. since'[s] \subseteq since[s]
    BY DEF History, NothingStored
  <2>3. ASSUME NEW k \in since'[s] PROVE PutThere(s, k)'
    <3>1. PutThere(s, k)
      BY <1>0, <2>2, <2>3 DEF Strays
    <3> QED
      BY <3>1, PutThereKept
  <2> QED
    BY <1>2, <1>3, <1>5, <2>1, <2>3 DEF Strays
<1> QED
  BY <1>4, <1>5

\* A shard stores a client's PUT: whether or not the key belongs there, the
\* client explains it.
LEMMA PutStrays ==
    ASSUME TypeInv, PlacementInv, StraysInv, History, UNCHANGED <<masterVars, clientVars>>,
           NEW s \in Servers, ServerPut(s)
    PROVE  \A r \in Servers : Strays(r)'
<1>0. /\ NetTypeOK /\ ServerTypeOK /\ \A q \in Servers : q \in Procs /\ Strays(q)
      /\ UNCHANGED <<op, cpc, route, server_port_map>> /\ PlanKept /\ num_servers' = num_servers
  BY DEF TypeInv, TypeOK, StraysInv, Procs, PlanKept, masterVars, clientVars, num_servers
<1>1. /\ Accept(s, "PUT") /\ StoreRequest(s) /\ queue[s] # <<>> /\ UNCHANGED starts
      /\ Respond(Request(s).from, PutReply(TRUE)) /\ spc'[s] = "notify"
      /\ \A q \in Servers : q # s => spc'[q] = spc[q]
  BY <1>0 DEF ServerPut, ServerReceives, Accept, ServerTypeOK
<1>2. PICK b, k : b = queue[s][1].from /\ k = queue[s][1].key
  OBVIOUS
<1>3. /\ Request(s).from = b /\ Request(s).key = k /\ 1 \in DOMAIN queue[s]
      /\ queue[s][1].type = "PUT"
  BY <1>0, <1>1, <1>2, AcceptQueue, RequestType
<1>4. /\ b \in Clients /\ cpc[b] = "request" /\ inbox[b].kind = "none" /\ route[b] = s
      /\ op[b].type = "PUT" /\ op[b].key = k
      /\ epoch[b] = num_servers => PortOf(k) = s
  BY <1>2, <1>3 DEF PlacementInv, RequestAt, Brings
<1>5. inbox' = [inbox EXCEPT ![b] = PutReply(TRUE)]
  BY <1>1, <1>3, <1>4 DEF Respond
<1>6. /\ \A c \in Clients \ {b} : inbox'[c] = inbox[c]
      /\ inbox'[b].kind = "data"
  BY <1>0, <1>4, <1>5 DEF NetTypeOK, PutReply, NoReply
<1>7. ASSUME NEW c \in Clients PROVE StaysPut(c)
  <2>1. epoch'[c] = epoch[c]
    BY <1>6, EpochKept DEF Gets
  <2> QED
    BY <1>0, <2>1 DEF StaysPut
<1>8. ASSUME NEW r \in Servers PROVE Strays(r)'
  <2>1. /\ \A i \in DOMAIN queue'[r] : \A j :
              queue'[r][i].type = "REORG_PUT" /\ queue'[r][i].key = j => Settled(r, j, i)'
        /\ \A j : Settled(r, j, 0) => Settled(r, j, 0)'
    BY <1>0, <1>1, AcceptSettles
  <2>2. starts'[r] <= 1 /\ (spc'[r] = "down" => starts'[r] = 0)
    BY <1>0, <1>1 DEF Strays
  <2>3. ~Reorganizes(r)
    <3>1. CASE r = s
      <4>1. Head(queue[s]) = queue[s][1]
        BY <1>0, <1>1 DEF NetTypeOK
      <4> QED
        BY <1>3, <3>1, <4>1 DEF Reorganizes
    <3>2. CASE r # s
      BY <1>0, <1>1, <3>2, AcceptQueue, NotReorganizing
    <3> QED
      BY <3>1, <3>2
  <2>4. since'[r] = since[r] \cup
            {j \in KeyFields : \E c \in Clients : Stored(c, j) /\ route[c] = r}
    BY <2>3 DEF History
  <2>5. \A j \in KeyFields, c \in Clients : Stored(c, j) /\ route[c] = r => r = s /\ j = k
    BY <1>4, <1>6 DEF Stored, Gets
  <2>6. ASSUME NEW j \in since'[r] PROVE PutThere(r, j)'
    <3>1. CASE j \in since[r]
      <4>1. PutThere(r, j)
        BY <1>0, <3>1 DEF Strays
      <4> QED
        BY <1>0, <1>7, <4>1, PutThereKept
    <3>2. CASE j \notin since[r]
      <4>1. r = s /\ j = k
        BY <2>4, <2>5, <2>6, <3>2
      <4>2. /\ op'[b].type = "PUT" /\ op'[b].key = j /\ route'[b] = r
            /\ cpc'[b] \in {"request", "done"}
            /\ epoch'[b] = num_servers' => PortOf(j)' = r
        <5>1. epoch'[b] = epoch[b] /\ PortOf(k)' = PortOf(k)
          BY <1>0, <1>4, <1>6, EpochKept, PortKept DEF Gets
        <5> QED
          BY <1>0, <1>4, <4>1, <5>1
      <4> QED
        BY <1>4, <4>2 DEF PutThere
    <3> QED
      BY <3>1, <3>2
  <2>7. ASSUME NEW j \in KeyFields, db'[r][j] # None, j \notin since'[r]
        PROVE  Settled(r, j, 0)'
    <3>1. Stored(b, k)
      BY <1>4, <1>6 DEF Stored, Gets
    <3>2. ~(r = s /\ j = k)
      BY <1>4, <2>4, <2>7, <3>1
    <3>3. db'[r][j] = db[r][j]
      BY <1>0, <1>1, <1>3, <2>7, <3>2 DEF StoreRequest, ServerTypeOK
    <3> QED
      BY <1>0, <2>1, <2>4, <2>7, <3>3 DEF Strays
  <2> QED
    BY <2>1, <2>2, <2>6, <2>7 DEF Strays
<1> QED
  BY <1>8

\* A server goes on past its registration or its report to the master, or
\* begins; the shards' queues do not change.
LEMMA ServerMovesOn ==
    ASSUME TypeInv, StraysInv, History, UNCHANGED <<masterVars, clientVars, inbox, db>>,
           NEW s \in Servers, ServerJoin(s) \/ ServerNotify(s) \/ ServerListen(s)
    PROVE  \A r \in Servers : Strays(r)'
<1>0. /\ NetTypeOK /\ ServerTypeOK /\ Master \in Procs /\ Master \notin Servers
      /\ \A r \in Servers : r \in Procs /\ Strays(r)
      /\ UNCHANGED <<op, cpc, route, server_port_map>> /\ PlanKept
  BY NetAssumption
  DEF TypeInv, TypeOK, StraysInv, Procs, PlanKept, masterVars, clientVars
<1>1. NothingStored /\ \A c \in Clients : StaysPut(c)
  <2>1. \A c \in Clients : ~Gets(c, "port") /\ ~Gets(c, "data")
    BY DEF Gets
  <2>2. \A c \in Clients : epoch'[c] = epoch[c]
    BY <2>1, EpochKept
  <2> QED
    BY <1>0, <2>1, <2>2 DEF NothingStored, Stored, StaysPut, num_servers
<1>2. ASSUME NEW r \in Servers
      PROVE  starts'[r] <= 1 /\ (spc'[r] = "down" => starts'[r] = 0)
  <2>1. starts[r] \in Nat /\ starts[r] <= 1 /\ (spc[r] = "down" => starts[r] = 0)
    BY <1>0 DEF Strays, ServerTypeOK
  <2>2. CASE ServerJoin(s)
    BY <1>0, <2>1, <2>2 DEF ServerJoin, ServerTypeOK
  <2>3. CASE ServerNotify(s) \/ ServerListen(s)
    BY <1>0, <2>1, <2>3 DEF ServerNotify, ServerListen, ServerTypeOK
  <2> QED
    BY <2>2, <2>3
<1>3. \A r \in Servers : queue'[r] = queue[r]
  BY <1>0 DEF ServerJoin, ServerNotify, ServerListen, Send, NetTypeOK
<1> QED
  BY <1>0, <1>1, <1>2, <1>3, StraysStill

LEMMA ServerStrays ==
    ASSUME TypeInv, PlacementInv, StraysInv, KeysCoverDb,
           UNCHANGED <<masterVars, clientVars>>, History, ServerNext, Intact, Intact'
    PROVE  \A r \in Servers : Strays(r)'
<1>0. /\ NetTypeOK /\ ServerTypeOK /\ UNCHANGED <<op, cpc, route, server_port_map>> /\ PlanKept
      /\ \A r \in Servers : r \in Procs /\ Strays(r)
  BY DEF TypeInv, TypeOK, StraysInv, Procs, PlanKept, masterVars, clientVars
<1>1. PICK s \in Servers :
         \/ ServerStep(s) \/ ServerJoin(s) \/ ServerJoinFails(s)
         \/ ServerCrash(s) \/ ServerCrashInPut(s)
  BY DEF ServerNext
<1>2. ~ServerCrash(s) /\ ~ServerCrashInPut(s)
  BY DEF ServerCrash, ServerCrashInPut, Intact
<1>3. ~ServerNotifyFails(s) /\ ~ServerJoinFails(s)
  BY DEF ServerNotifyFails, ServerJoinFails, Intact
<1>4. ASSUME UNCHANGED inbox
      PROVE  NothingStored /\ \A c \in Clients : StaysPut(c)
  <2>1. \A c \in Clients : ~Gets(c, "port") /\ ~Gets(c, "data")
    BY <1>4 DEF Gets
  <2>2. \A c \in Clients : epoch'[c] = epoch[c]
    BY <2>1, EpochKept
  <2> QED
    BY <1>0, <2>1, <2>2 DEF NothingStored, Stored, StaysPut, num_servers
<1>5. CASE ServerJoin(s) \/ ServerNotify(s) \/ ServerListen(s)
  BY <1>5, ServerMovesOn DEF ServerJoin, ServerNotify, ServerListen
<1>6. CASE ServerDrop(s)
  <2>1. Accept(s, "EOF") /\ UNCHANGED <<db, inbox, starts, spc>>
    BY <1>6 DEF ServerDrop, ServerReceives, serverVars
  <2> QED
    BY <1>0, <1>4, <2>1, StraysAccepted
<1>7. CASE ServerReorg(s)
  BY <1>0, <1>4, <1>7, ReorgStrays DEF ServerReorg
<1>8. CASE ServerReorgPut(s)
  <2>1. /\ Accept(s, "REORG_PUT") /\ UNCHANGED <<inbox, starts, spc>> /\ StoreRequest(s)
        /\ queue[s] # <<>>
    BY <1>8 DEF ServerReorgPut, ServerReceives, Accept
  <2>2. Request(s).key = queue[s][1].key
    BY <1>0, <2>1, RequestType
  <2>3. /\ \A r \in Servers : r # s => db'[r] = db[r]
        /\ \A k \in KeyFields : db'[s][k] # None => db[s][k] # None \/ queue[s][1].key = k
    BY <1>0, <2>1, <2>2 DEF StoreRequest, ServerTypeOK
  <2> QED
    BY <1>0, <1>4, <2>1, <2>3, StraysAccepted
<1>9. CASE ServerPut(s)
  BY <1>9, PutStrays
<1>10. CASE ServerGet(s)
  <2>1. /\ Accept(s, "GET") /\ UNCHANGED <<db, starts, spc>> /\ queue[s] # <<>>
        /\ Respond(Request(s).from, GetReply(Lookup(s, Request(s).key)))
    BY <1>10 DEF ServerGet, ServerReceives, Accept, serverVars
  <2>2. PICK b : b = queue[s][1].from
    OBVIOUS
  <2>3. /\ Request(s).from = b /\ 1 \in DOMAIN queue[s] /\ queue[s][1].type = "GET"
    BY <1>0, <2>1, <2>2, AcceptQueue, RequestType
  <2>4. b \in Clients /\ op[b].type = "GET"
    BY <2>2, <2>3 DEF PlacementInv, RequestAt, Brings
  <2>5. PICK r : r = GetReply(Lookup(s, Request(s).key))
    OBVIOUS
  <2>6. r.kind = "data" /\ inbox' = [inbox EXCEPT ![b] = r]
    BY <2>1, <2>3, <2>4, <2>5 DEF Respond, GetReply, NoReply
  <2>7. \A c \in Clients : ~Gets(c, "port") /\ (c # b => ~Gets(c, "data"))
    BY <1>0, <2>6 DEF Gets, NetTypeOK
  <2>8. NothingStored
    BY <2>4, <2>7 DEF NothingStored, Stored
  <2>9. \A c \in Clients : StaysPut(c)
    <3>1. \A c \in Clients : epoch'[c] = epoch[c]
      BY <2>7, EpochKept
    <3> QED
      BY <1>0, <3>1 DEF StaysPut, num_servers
  <2> QED
    BY <1>0, <2>1, <2>8, <2>9, StraysAccepted
<1> QED
  BY <1>1, <1>2, <1>3, <1>5, <1>6, <1>7, <1>8, <1>9, <1>10 DEF ServerStep

\* A client's requests are no redistribution, and it comes to its end with the
\* routing its PUT was sent under.
LEMMA ClientStrays ==
    ASSUME TypeInv, StraysInv, UNCHANGED <<masterVars, serverVars>>, History, ClientNext
    PROVE  \A r \in Servers : Strays(r)'
<1>0. /\ NetTypeOK /\ ClientTypeOK /\ UNCHANGED <<server_port_map, starts, spc, db>> /\ PlanKept
      /\ \A r \in Servers : Strays(r)
  BY DEF TypeInv, TypeOK, StraysInv, PlanKept, masterVars, serverVars
<1>1. PICK b \in Clients : ClientStep(b) \/ ClientKilled(b)
  BY DEF ClientNext
<1>2. /\ \A c \in Clients : inbox'[c] = inbox[c] \/ inbox'[c].kind = "none"
      /\ \A c \in Clients : cpc[c] \in {"request", "done"} =>
             cpc'[c] \in {"request", "done"} /\ route'[c] = route[c]
      /\ op' = op
  BY <1>0, <1>1
  DEF ClientStep, ClientSend, ClientRefused, ClientKilled, ClientRouted, ClientAnswered,
      ClientCutOff, Exit, ClientTypeOK, NetTypeOK, NoReply, netVars
<1>3. \A c \in Clients : ~Gets(c, "port") /\ ~Gets(c, "data")
  BY <1>2 DEF Gets
<1>4. NothingStored
  BY <1>3 DEF NothingStored, Stored
<1>5. \A c \in Clients : StaysPut(c)
  <2>1. \A c \in Clients : epoch'[c] = epoch[c]
    BY <1>3, EpochKept
  <2> QED
    BY <1>0, <1>2, <2>1 DEF StaysPut, num_servers
<1>6. CASE ClientSend(b)
  <2>1. PICK p, m : p = Target(b) /\ m = Asks(b)
    OBVIOUS
  <2>2. p \in Procs /\ Send(p, m)
    BY <1>6, <2>1 DEF ClientSend, CanConnect
  <2>3. m \in Msg
    BY <1>0, <2>1, AsksType
  <2>4. m.type # "REORG_PUT"
    BY <1>0, <2>1, ClientAssumption DEF Asks, MkMsg, ClientTypeOK
  <2> QED
    BY <1>0, <1>2, <1>4, <1>5, <2>2, <2>3, <2>4, StraysSent
<1>7. CASE ClientKilled(b)
  <2>1. PICK p, m : p = Target(b) /\ m = MkMsg("EOF", 0, Empty, b)
    OBVIOUS
  <2>2. p \in Procs /\ Send(p, m)
    BY <1>7, <2>1 DEF ClientKilled, CanConnect
  <2>3. m \in Msg /\ m.type # "REORG_PUT"
    BY <2>1 DEF MkMsg, Msg, KeyFields, Payload
  <2> QED
    BY <1>0, <1>2, <1>4, <1>5, <2>2, <2>3, StraysSent
<1>8. CASE ClientRefused(b) \/ ClientRouted(b) \/ ClientAnswered(b) \/ ClientCutOff(b)
  <2>1. queue' = queue
    BY <1>8 DEF ClientRefused, ClientRouted, ClientAnswered, ClientCutOff, netVars
  <2>2. \A s \in Servers : starts'[s] <= 1 /\ (spc'[s] = "down" => starts'[s] = 0)
    BY <1>0 DEF Strays
  <2> QED
    BY <1>0, <1>2, <1>4, <1>5, <2>1, <2>2, StraysStill
<1> QED
  BY <1>1, <1>6, <1>7, <1>8 DEF ClientStep

StraysHolds == Intact => StraysInv

LEMMA InitStrays == ASSUME Init PROVE StraysInv
<1>1. ASSUME NEW s \in Servers PROVE Strays(s)
  <2>1. /\ starts[s] = (IF IsFormed(s) THEN 1 ELSE 0)
        /\ spc[s] = (IF IsFormed(s) THEN "loop" ELSE "down")
        /\ queue[s] = <<>> /\ since[s] = {} /\ \A k \in KeyFields : db[s][k] = None
    BY DEF Init, Procs
  <2> QED
    BY <2>1 DEF Strays
<1> QED
  BY <1>1 DEF StraysInv, Redistributes, Init

LEMMA NextStrays ==
    ASSUME TypeInv, KeysCoverDb, PlacementHolds, StraysHolds, [Next]_vars
    PROVE  StraysHolds'
<1> SUFFICES ASSUME Intact' PROVE StraysInv'
  BY DEF StraysHolds
<1>1. Intact /\ PlacementInv /\ StraysInv
  BY IntactBefore DEF PlacementHolds, StraysHolds
<1>2. CASE UNCHANGED vars
  <2>1. UNCHANGED <<queue, mpc, server_port_map, reorg_next, spc, db, starts, op, cpc, route,
                    epoch, since>>
    BY <1>2 DEF vars, netVars, masterVars, serverVars, clientVars, historyVars
  <2> QED
    BY <1>1, <2>1
    DEF StraysInv, Strays, Settled, Doomed, ReorgAfter, PutThere, Redistributes, PortOf,
        num_servers
<1>3. ASSUME UNCHANGED masterVars, \A s \in Servers : Strays(s)'
      PROVE  StraysInv'
  BY <1>1, <1>3 DEF StraysInv, Redistributes, num_servers, masterVars
<1> QED
  BY <1>1, <1>2, <1>3, MasterStrays, ServerStrays, ClientStrays DEF Next, Rest

\* After a redistribution, as long as nobody died, a shard that has served its
\* REORG holds a key of another shard only because of a PUT it served since,
\* which its client was routed to under an earlier set of servers.
THEOREM StraysAreStaleCorrect == Spec => []StraysAreStale
<1>1. Init => PlacementHolds /\ StraysHolds
  BY InitPlacement, InitStrays DEF PlacementHolds, StraysHolds
<1>2. TypeInv /\ PlacementHolds /\ [Next]_vars => PlacementHolds'
  BY NextPlacement
<1>3. TypeInv /\ KeysCoverDb /\ PlacementHolds /\ StraysHolds /\ [Next]_vars => StraysHolds'
  BY NextStrays
<1>4. TypeInv /\ PlacementHolds /\ StraysHolds => StraysAreStale
  <2> SUFFICES ASSUME PlacementInv, StraysInv, MasterTypeOK, mpc = "accept",
                      NEW s \in Servers, NEW k \in KeyFields,
                      db[s][k] # None, PortOf(k) # s, ~ReorgAfter(s, 0)
               PROVE  /\ k \in since[s]
                      /\ \E c \in Clients : /\ op[c].type = "PUT" /\ op[c].key = k
                                            /\ route[c] = s /\ epoch[c] < num_servers
    BY DEF TypeInv, TypeOK, PlacementHolds, StraysHolds, StraysAreStale, Intact
  <2>1. ~Settled(s, k, 0)
    BY DEF Settled, Doomed
  <2>2. k \in since[s]
    BY <2>1 DEF StraysInv, Strays
  <2>3. PutThere(s, k)
    BY <2>2 DEF StraysInv, Strays
  <2>4. PICK c \in Clients : /\ op[c].type = "PUT" /\ op[c].key = k /\ route[c] = s
                             /\ epoch[c] # num_servers
    BY <2>3 DEF PutThere
  <2>5. epoch[c] \in 0..num_servers /\ num_servers \in Nat
    BY DEF PlacementInv, Routed, MasterTypeOK, num_servers
  <2> QED
    BY <2>2, <2>4, <2>5
<1> QED
  BY <1>1, <1>2, <1>3, <1>4, InitTypes, NextTypes, KeysCoverDbCorrect, PTL DEF Spec
=============================================================================
