# Formal models of the Cloud Systems Engineering stores

TLA+ models, TLC runs and TLAPS proofs for the programs of this repository: a
counter server (task0), a key-value server with a thread pool (task1), a sharded
key-value store (task2) and a replicated key-value store (task3). Paths below are
relative to `src/`. All four are modelled. The sharded and the replicated store, in which
several processes have to agree, have models and runs of their own; the programs and
libraries of task0 and task1 are modelled one by one and share a run.

## 1. Inventory

| Component | State | Operations | Interacts with |
|---|---|---|---|
| task2 master (`task2/source/master_server.cpp`) | `num_servers`, `server_port_map`, `kv_map`, open descriptors | register a server and redistribute, record a reported key, answer a lookup | shards (connects back to them), clients |
| task2 shard (`task2/source/server.cpp`) | RocksDB database (durable), vector `keys` (volatile) | start and register, PUT with report to the master, GET, REORG, REORG_PUT, crash | master, clients |
| task2 client (`task2/source/client.cpp`) | exit status | lookup, one PUT or GET | master, then a shard |
| task3 server (`task3/source/server.cpp`) | database (durable), mesh counters, descriptors; a follower also has a second thread | start and mesh, leader PUT and GET, follower apply, follower DIRECT_GET, crash | the other servers, clients |
| task3 client (`task3/source/client.cpp`) | exit status | one PUT, GET or DIRECT_GET | one server |
| task2/3 transport (`utils.cpp`, `shared.cpp`, `*.proto`) | sockets, accept queues | connect, send, accept, receive, end of file | everything |
| task1 server (`task1/source/server.cpp`) | list of accepted sockets, thread pool, database | accept, poll the list, serve a connection | benchmark client |
| task1 benchmark client (`client.cpp`, `client_thread.h`) | local map, traces | INIT handshake, PUT, GET, verification | task1 server |
| `KvStore` (`task1/source/kv_store.h`, identical in task2) | map, transaction buffers, read locks, three mutexes | put, get, tx_start, tx_put, tx_get, tx_commit, tx_abort | the benchmark client uses put and the iterator; no program calls tx_* |
| transaction graph (`task1/source/workload_traces/load_txn.*`) | ready queue, `remaining_nodes`, ownership of nodes | add_to_ready, get_ready, enumeration of results | the dump tool prints it; no program calls get_ready |
| framing (`task1/source/shared.cpp`, `shared.h`) | bytes read, retries | read_n, secure_recv, secure_send | every program of task1, task2 and task3 |
| task0 counter | one number | ADD, SUB, TERMINATION | task0 client |
| vendored code, build files, tests, traces | - | - | - |

What is hard, and what makes a component correct:

* **task2.** All processes are single-threaded and every request is a TCP connection
  of its own, so everything that can go wrong is a matter of order: a report of a PUT
  against a join, a REORG against a REORG_PUT, a stale route against a join, a
  registration against the listen that follows it. Correct means: a key that was
  placed stays findable, shards hold only what is theirs, values come from clients,
  with fixed membership the cluster is one atomic map, and every client exits.
* **task3.** No acknowledgements, no log, no terms: replication consists of the order
  in which the leader makes connections and of the accept queues of the followers.
  Servers may be killed anywhere and come back with their database. Correct means:
  followers store the leader's PUTs in the leader's order, an answered PUT has been
  delivered to each serving follower, quiet replicas agree, the leader is one atomic
  map to its clients and keeps answering when followers die, and the mesh forms.
* **task1.** The acceptor and the pool share one linked list. The client listens only
  after it has told the server where to connect. Its threads share one map and, in that
  map, one iterator without a lock. Correct means: no connection is lost or served twice,
  each request has one reply, and the benchmark ends except in the ways that are named.
* **`KvStore`.** Three mutexes taken in different orders. Correct means: a key is
  read-locked by one transaction, a commit is seen whole or not at all, and threads only
  ever block each other in the one way that the code cannot avoid.
* **Transaction graph.** A node is ready when its last owner is destroyed, whichever
  worker does that. Correct means: dependencies first, nothing twice, nothing forgotten,
  and a final state that the verifier lists.
* **Framing.** `recv` and `send` cut the stream anywhere and a peer dies anywhere. Correct
  means: whole messages in order, and the end is noticed.
* **task0.** One server thread that serves one client at a time. Correct means: the number
  a client is told is the sum of the requests served so far.

Every hazard of the code is listed in `PROJECT.json` at its line, with the properties
that cover it or a note.

## 2. Modules

```
ShardNet      connections and messages of task2
  ShardMaster, ShardServer, ShardClient
    ShardedKV     composition, history variables, properties, fairness
      MCShardedKV       instances for TLC
      ShardedKV_proofs  types, values, what REORG deletes, refinement of AtomicKV
        ShardPlacement_proofs  what a redistribution keeps
ReplNet       connections and messages of task3
  ReplServer, ReplClient
    ReplicatedKV  composition, history variables, properties, fairness
      MCReplicatedKV    instances for TLC
      ReplicatedKV_proofs  types and order of the entries
        ReplDelivery_proofs  what an answered PUT has come to, refinement of AtomicKV
AtomicKV      abstract specification: one map, atomic operations, cut-offs
KvStore       the map with transactions
TxnGraph      graph and ready queue
  TxnResults    get_possible_results
  Txn_proofs    theorems about KvStore, TxnGraph and TxnResults
Framing       messages over a byte stream, a refinement of
  MsgChannel    what its callers rely on
Counter       server and clients of task0
  FramingCounter_proofs  theorems about Framing and Counter
BenchNet      connections of task1
  PoolServer, BenchClient
    Bench         composition, properties
      Bench_proofs  theorems
SmallParts    KvStore, TxnResults, Framing, Counter and Bench side by side
  MCSmallParts  instances for TLC
Induction_lemmas  least elements, induction up to a bound, recursive functions
```

One action is one iteration of a server loop, or one part of it where another process
can see the state in between. The points where an iteration is split are the
`connect` calls (each can wait, be refused or time out) and the answers (a shard answers a PUT
before it reports it).

**ShardNet.** `queue[p]` is the accept queue of process `p`, bounded by `Slots`
(`listen(fd, 3)` admits four connections on Linux). A `connect` to a full queue waits for
room or fails with the kernel's timeout, whichever comes first (`Refused`); the same holds
of ReplNet, task1 and task0. `connect` and the `send` after it are one
step; a process killed in between leaves an `EOF` connection, which makes the receiver's
`secure_recv` return no data. `Decode` models `ParseFromString(char*)`,
which ends a message at its first zero byte: a key of 0 hides the value behind it.
`inbox[c]` is what the one pending receive of client `c` will return.

**ShardMaster.** `mpc` is the place in the loop: `accept`, `reorg` (REORG being sent
to server `reorg_next`), `reput` (the keys in `reput_left` still have to be sent),
`hung` (no descriptors left), `exited`. `kv_map` and `server_port_map` are the maps of
the code. Actions: `MasterDrop`, `MasterPut`, `MasterJoin`, `MasterReorg`,
`MasterReorgPut`, `MasterReorgDone`, `MasterLookup`, `MasterConnectFails` (exit(1)),
`MasterDividesByZero`, `MasterOutOfDescriptors`.

**ShardServer.** `db` survives a crash, `keys` does not. `ServerJoin` registers,
`ServerListen` opens the socket; `ServerPut` stores and answers, `ServerNotify`
reports to the master and records the key. `ServerCrash` and `ServerCrashInPut` kill
the process between and within steps.

**ShardClient.** Lookup, request, exit status. The direct connection is dead code in
the program (`direct` is the constant false) and is not modelled.

**ShardedKV.** Five history variables, read by no process: `latest` (last answered
value), `placed` (values given under the current membership), `epoch` and `owed` (the
membership, and whether the key was placed, when the master routed a client) and
`since` (the keys whose PUTs a shard served after its last REORG).

**ReplServer.** `pc[n]` is the place of the main thread: `connect` (loop over the
ports with index `at`), `accept` (loop that takes `need` connections), `serve`, `send`
(the leader forwards the PUT of client `cur`), `hung`, `off`. `open[n]` says whether
the client port is open, `thread[n]` is the follower's second thread. Every opened
descriptor counts in `fds`, since the program closes none. `MeshAccept` takes whatever
connection comes, append entries included, because the code parses it as a join
without looking. `Aborts` is the exception that `ParseFromString(nullptr)` throws when
a connection ends without data.

**ReplicatedKV.** Four history variables: `log` (the order in which the leader took
the PUTs), `applied` (what each follower stored), `due` (the followers that were serving
when a PUT began, have not died since, and were not passed by for want of a descriptor
or of a place in their accept queue) and `launched` (PUTs begun with every server up).

**AtomicKV.** Each client's one operation takes effect at an instant, before it is
answered; a client that is cut off learns nothing and its PUT may have been applied.
Both stores are shown to implement it, under refinement mappings to the database of
the key's shard and to the leader's database.

**KvStore.** A thread runs one transaction under its own name. A call that takes one mutex
is one step, a call that takes more is one step per acquisition, since between them other
threads see what it holds: `TxGet`/`SafeGet`/`PushKey` (gets, db, and the copy and push_back
after db_mtx is given up; the copied string is not guarded, so the answer may be torn), `TxCommit`/`CommitLock`/
`CommitPut`/`CommitErase`/`CommitUnlock` (txs, db, one step per `unsafe_put`, gets),
`TxAbort`/`AbortErase` (gets, txs). `holder` says who has each mutex. `safe_get`
dereferences `end()` for a key that is missing (`SafeGetMissing`); the process is then
gone (`alive`). A value is the transaction that wrote it; `committed` is history.

**TxnGraph.** `edges` are the `shared_ptr`s in the vectors `next`; `ReleaseLast` is the
destructor that puts a node into the ready queue, with its notify_one, and
`ReleaseShared` one that leaves other owners. `GetReady` is get_ready with its wait, and
waits may end spuriously. The workers that consume the graph (`Execute`, `Work`) are
external, as no program of the repository has them yet; they apply a node with the code
of get_possible_results. `convert_key_to_int` returns 0 for every key, as the code does. All
operations of the trace are there, at the width `OpHalf`: the bitwise ones answer an unsigned
number that a later operation may not be able to read back (`IsOpValue`).

**TxnResults.** The recursion over deep copies of the ownership relation. A call takes one
node, so that the calls are listed depth by depth, in the order in which their results are
concatenated (`Inner`), down to the depth of all nodes; a call with nothing ready stands for
itself. Compared with the definition by permutations that respect `depends_on`.

**Framing / MsgChannel.** Bytes are digits to a small base, so a payload byte read
for a header byte is taken for a length. `Send` and `Recv` move any number of bytes, the
sender may close or die anywhere, a reset loses part of what is in flight. `read_n` counts its
empty reads up to `max_retries`. `MsgChannel` is the promise that ShardNet, ReplNet and
BenchNet take for granted.

**Counter.** A connection is served until its TERMINATION; at the end of a stream
`recv_msg` reads an empty message, an ADD of 0, for ever (`ServeEndOfStream`). The
number has `Half` values on each side of zero and wraps.

**BenchNet, PoolServer, BenchClient, Bench.** `heap`, `head` and `tail` are the list with
its pointers; `AddToList` and `GetFromList` are its two critical sections. A
thread of the pool goes through `poll`, `init` and `serve`. `back[c]` is the port on
which client thread `c` waits for the server: `SendInit` comes before
`ListenForReplies`, and a server thread that is refused in between (`RecvInit`) serves a
client it cannot answer. The server never parses a request into the message it has
cleared (`task1/source/server.cpp:43-50`): a build that checks the index of a repeated
field aborts (`AbortOnRequest`), one that does not serves the cleared element
(`Requested`); both are explored, `checked` says which. On the client side `order` is the
node list of the shared map, which an insertion may rehash into any order, and `it` the one iterator
in it, a node or the end. `CheckIt`, `ReadKey`, `ReadIt` and `Advance` are the four accesses of
get_next_key (the comparison, `it->first`, the read and the store of `it++`), between which other
threads move it. A read of a link while another thread inserts may yield any node (`ReadAs`).

**SmallParts.** A behaviour is one of a single unit, chosen at the start; the
variables of the others never change. The sum of the state spaces is explored, not the product.

Operators marked "Seeded bug" are variants of the definition that follows; no
specification uses them. They are what the mutants in `PROJECT.json` put in its place, to
show that each property notices such a bug.

## 3. Runs

| Run | Instance | Properties |
|---|---|---|
| `shard_rebalance` | 3 clients, third server joins, 2 keys, queues of 2 | TypeOK, KeysCoverDb, Provenance, Placement, PlacedKeyFound, StraysAreStale, no deadlock |
| `shard_atomic` | 2 servers, 3 clients, one crash, one killed client, 6 descriptors | ImplementsAtomicKV |
| `shard_live` | 1 server started up to 3 times, 2 kills, keys -1, 0 and 1 | EveryClientExits, AnsweredPutReported |
| `repl_mesh` | 3 servers start in any order, 2 clients | TypeOK, InOrder, AckedDelivered, ReplicasAgree, no deadlock |
| `repl_crash` | 3 servers formed, one kill and restart, one killed client, 9 descriptors | InOrder, AckedDelivered, ReplicasAgree, ImplementsAtomicKV |
| `repl_live` | 3 servers formed, one kill and restart, 7 descriptors | MeshForms, LeaderAnswers, AckedReplicated |

| `small_parts` | task0 and task1, one unit per behaviour (below); 72 935 states, about 100 s | ReadLocksExclusive, NoPartialCommit, DeadlockNeedsCommit, CallsReturn; DependenciesFirst, AppliedOnce, ResultsComplete, FinalStateListed, WorkIsDone; ChannelRefined, MessagesArrive, EndNoticed; AnswersAreSums, ClientsAnswered; ConnectionInOnePlace, ListShape, OneOutstanding, CrashNeedsRace, BenchEnds, ConnectedFinish |

Runs that show a disagreement between the code and what is said of it:

| Run | Shows |
|---|---|
| `shard_lost_report` | a join overtakes the report of an answered PUT; REORG deletes the key and nothing restores it |
| `shard_stale_value` | `kv_map.insert` keeps the first value, so a redistribution brings an overwritten value back |
| `shard_join_race` | the master connects back to a joining server that does not listen yet, and exits |
| `repl_join_entry` | all servers are up; a follower still in its join loop takes an append entry for a join and never stores the PUT the client was told is OK |
| `repl_no_error` | a follower never answers a PUT or GET, where the README demands an error |

What the properties say:

* *Placement*: while nobody dies, a key given to the current membership is at its
  shard with no REORG pending, or on its way behind every REORG. *PlacedKeyFound* is
  its consequence for a client: a GET routed under that membership finds the key.
  *StraysAreStale*: a key at a wrong shard was put there through a
  stale route, after the shard's REORG.
  *KeysCoverDb*: what REORG will delete is what a never restarted shard holds.
  *Provenance*: no message, map or database has a value for a key that no client wrote
  for it.
* *InOrder*: stored and queued entries of a follower are in the leader's order, across
  restarts. *AckedDelivered*: an answered PUT is stored or queued at each follower it
  was due to. *ReplicasAgree*: such a follower, when quiet, agrees with the leader.
  The last two hold only for followers that were serving when the PUT began, and that
  the leader could open a connection to: `repl_join_entry` shows why the first condition
  is needed, and a connect that fails loses its entry for good, since the loop never retries.

* *ReadLocksExclusive*, *NoPartialCommit*: isolation of `KvStore`. *DeadlockNeedsCommit*:
  the lock orders txs-db-gets, gets-db and gets-txs can close a circle, but each such
  circle contains a commit whose writes are already in the map. *CallsReturn*: without one, and
  without the crash of `safe_get`, each call that began returns.
* *DependenciesFirst*, *AppliedOnce*: what workers get is in order and once only.
  *WorkIsDone*: everything is applied and two workers return; a third may sleep for
  ever, since the counter reaches 0 without a notification (`load_txn.h:144`).
  *ResultsComplete*: get_possible_results lists the outcome of each serial
  order, once per order. *FinalStateListed*: the state that concurrent workers end in is
  among them.
* *ChannelRefined*: Framing implements MsgChannel. *MessagesArrive*, *EndNoticed*:
  its two promises of progress.
* *AnswersAreSums*: a COUNTER is the wrapped sum of the clients served so far.
  *ClientsAnswered*: each client is answered unless its connect failed, it was killed, or the server has met
  a client that died before its TERMINATION.
* *ConnectionInOnePlace*, *ListShape*: the list loses and doubles nothing. *OneOutstanding*:
  a client thread has one request or reply in flight, and a refused one has none.
  *BenchEnds*, *ConnectedFinish*: the benchmark ends unless a client thread was refused,
  and a client thread that was not finishes. *CrashNeedsRace*: the client crashes only when two
  threads verify at a time, or a single thread runs past its trace.

**Bounds.** `MaxStarts`, `MaxCrashes` and `MaxKills` bound how often processes start and
die, `Slots` the accept queues, `FdLimit` the descriptors (1024 in reality, scaled down
so that the limit is reached). Two keys suffice for a move between shards against a key that stays;
two values tell an overwrite; three clients give a writer, a second writer and a reader
that race with a join. Three servers are the least for which task2 redistributes, and
for task3 the documented cluster, the smallest in which one server can be missing from
a mesh that believes itself complete. `Formed` starts a run in the state that a quiet
start-up in order of ids leads to, so that the run can spend its states on what
follows; `shard_live` (nobody formed) and `repl_mesh` start from nothing. Client symmetry
is used in the two runs without liveness properties whose clients differ only in their
operation.

In `small_parts`, `MaxCalls` is 4 for one transaction and 2 for the other: enough for
start, two puts and commit against a get and a commit, hence for each of the lock
orders to meet each other. The two shapes of four transactions, with three workers, are the least in which
a node has two owners destroyed by different workers, two nodes become ready at once, and a worker
is left without a wake-up. Messages of 0, 1 and 2 bytes with headers of 2
make frames longer than a header and a header that reads like a payload; two
frames make an order. Three clients of the counter whose sums leave -4..3, with
one kill. The four setups of the benchmark are two threads racing for two
clients, one thread that a refused client exhausts, three clients with a queue of one,
and one client alone; the queue is as short as it can be (`Slots` 1).

**Fairness.** Weak fairness for each thread of each process: no loop in the code yields or
sleeps, and a blocked call returns when its cause is gone. Starting and killing processes is never fair. Nor, in `small_parts`, is the
beginning of a call of `KvStore` or of a message of Framing: only what has begun goes on.
Deadlock is not checked in the runs with exhausted descriptors, kills or a
bounded number of starts, in which the system may really stop.

## 4. Proofs

`ShardedKV_proofs` proves for every number of servers, clients, keys and values, every
queue and descriptor bound and any number of crashes and restarts:

* `TypeCorrect`: `Spec => []TypeOK`. The lemma cites one step per action; the queues
  need the sequence lemmas on `Append` and `Tail`.
* `ProvenanceCorrect`: `Spec => []Provenance`. A value flows from a command line
  through a PUT message, the shard's database, the report, `kv_map` and a REORG_PUT into
  another database. The inductive invariant therefore also speaks of the PUT and report
  messages in the queues and of the report a shard is about to make; the empty value
  that `Decode` yields for key 0 is part of `WrittenFor`.
* `KeysCoverDbCorrect`: `Spec => []KeysCoverDb`. Needs the same knowledge of `note`
  and that a key is stored exactly once per PUT step before it is recorded.
* `ShardsImplementAtomicKV`: `Spec => ImplementsAtomicKV`, assuming that all servers formed
  the cluster and none is started again (`FixedMembership`), that keys are not 0 and fit
  into a char, and that no PUT writes the empty value (`PlainOps`). The run meets these
  assumptions, and each is needed: a join moves keys, and the wire and the cast lose the
  other keys and values. `AtomicInv` says that a request in a queue is the only one of its
  client, which has had no answer, and that at a shard it is the client's operation at the
  shard of its key (`Meets`, `OneEach`). So an answer is `Perform` (`ServerAnswers`), a dying
  process is `CutOff` of those that wait in its queue, with or without the PUT at its
  head (`VanishSimulated`), a refused connection is `CutOff` of one, and all else stutters.

`ShardPlacement_proofs` goes on from there, for the time in which no server and not the
master died (the properties say nothing beyond it):

* `PlacementCorrect`: `Spec => []Placement`. `PlacementInv` says what each request in a
  queue means: it is the only one of a client that waits for it (`LookupAt`, `RequestAt`); if
  that client was routed under the current servers, it is at the shard of its key
  and no REORG stands behind it, and during a redistribution no such client exists
  (`Routed`). That is why a PUT cannot be deleted by a REORG of the servers it was counted for.
  `Placed` is Placement with what the master has still to send. The order of REORG
  and REORG_PUT in a queue is followed by two facts: sending keeps the positions
  (`SendQueue`), accepting moves all of them up by one (`AcceptQueue`).
* `PlacedKeyFoundCorrect`: `Spec => []PlacedKeyFound`, assuming that no client writes the
  empty value (`NonEmptyPuts`: a GET cannot tell it from no value). `Found` adds that whoever
  comes to the GET in its queue finds the key stored, or passes its REORG_PUT, on the way
  (`Ahead`).
* `StraysAreStaleCorrect`: `Spec => []StraysAreStale`. `Strays` says that each key in a
  database, and each REORG_PUT in a queue, is at home, or a REORG is behind it or
  planned (`Settled`), or a PUT served since the last REORG brought it (`PutThere`). A join makes
  all keys of all shards doomed at once; KeysCoverDb, proved before, is why the REORG
  then leaves nothing.

`ReplicatedKV_proofs`, likewise for every number of servers and clients and every bound:

* `TypeCorrect`: `Spec => []TypeOK`. `need` stays in `0..N` only because of what the
  strengthening `Counted` says: the servers a loop has still to try are covered by
  `need`, and the accept loop runs while it is positive. `Forwarding` says that the
  leader in its loop knows whose PUT it forwards.
* `InOrderCorrect`: `Spec => []InOrder`. The invariant `OrderInv` adds that the PUT being
  forwarded is the last of the log (`CurLast`), that a client in the log or in the
  leader's queue has asked and asks once (`AskedOnce`), and that followers the loop has not
  come to have not been sent that PUT (`NodeInv`). The steps fall into four: those in which no
  follower gets an entry and the leader only goes on (`QuietSteps`, `ContinueSteps`),
  `LeaderBegin`, `LeaderSend` and `FollowerApply`.

`ReplDelivery_proofs` goes on from there, in two steps, each with its invariant, and a refinement:

* `AckedDeliveredCorrect`: `Spec => []AckedDelivered`. `DeliveryInv` says that a follower that
  runs listens (`Running`, hence a connection to it fails only for want of descriptors or
  queue places), that what waits at a client port is the unanswered request of a
  client that named this server (`Addressed`), that a PUT is answered only if it is in the
  log and no longer forwarded (`Logged`), and that a PUT that is due to a
  follower was sent to it, or the loop has still to come to it, or its client was cut off
  (`Delivered`). `LoopDelivers` is the step of the loop; `SentStays` says that a follower
  keeps what it was sent until it dies.
* `ReplicasAgreeCorrect`: `Spec => []ReplicasAgree`. `Stored` says that each database has, of
  every key, the value of the last PUT in its own order: of `applied` at a follower, of the answered
  ones in the log at the leader, also when the leader is killed between storing
  and answering. With InOrder the last PUT of the log is the last that the follower stored.
* `AtomicKVImplemented`: `Spec => ImplementsAtomicKV`, so for every
  number of clients and servers the leader's database is an atomic map. The initial
  states map to initial states, a GET of the leader to `Perform` (`ReadStep`), `LeaderCommit` to
  `Perform` (`WriteStep`: by `Logged` the client still waits), the death of the leader to
  `CutOff` of the clients that wait (`CutStep`), and all other steps to stutters. `Fresh`, that
  a client which has not called has received nothing, is the one invariant it adds.

`Txn_proofs`, first for the map, for any transactions, keys and calls, with the invariant `KvInv`: who
holds a mutex is determined by where the threads are (`MutexInv`), a tx_get in progress still
has its key to itself (`CheckedInv`), and the map differs from `committed` by exactly the updates that
the commit in progress has left (`CommitInv`):

* `KvTypeCorrect`, `ReadLocksAreExclusive`, `CommitsAreWhole`.
* `DeadlocksHoldACommit`: in every circle of waiting threads, of any length, there is a commit
  at its end. Whoever waits for txs or db waits for someone who holds it, and who
  waits in turn; the circle can only close through gets.

then for the graph, for any finite set of transactions, graphs and workers, with the
invariant `GraphInv`: a node in the queue, applied or running has no owner (`Ownerless`),
a dependency owns its dependents until it is applied (`DepsOwned`), only applied nodes are destroyed
(`DropsApplied`), and a node is in one place (`OnePlace`):

* `DependenciesComeFirst` and `TransactionsAppliedOnce`.

and last for the verifier, for any finite set of transactions and any commands:

* `ResultsAreComplete`: get_possible_results lists where every order leads that respects
  `depends_on`, and each order once. The only hypothesis is `AcyclicGraphs`: transactions do
  not wait for each other in a circle (of such a trace the code would list partial states).
  By induction on the depth: the calls of depth `k` are in a one-to-one correspondence with
  the beginnings of length `k` of such orders (`Partials`), and each `Stands` for its
  beginning: its state is where the beginning leads, its graph owns by what has not been
  taken, and ready is what depends on the beginning alone (`TakenStands`,
  `ListsNext`). In between, FlattenSeq of the lists has each of their elements in one place
  (`Flattened`).
* `FinalStatesAreListed`: the state that the workers end in is one of these results. The
  invariant is `AppliedInv`: `applied` is such a beginning, and the state is where it leads.
  No hypothesis about circles is needed, since a graph that was applied as a whole has none
  (`AppliedAcyclic`).

`Bench_proofs`, for any threads, clients, connections and traces, in four steps:

* `ListKeepsShape`: `BenchSpec => []ListShape`, by the two critical sections and the
  fact that nothing else writes the list.
* `ConnectionsKeepTheirPlace`: `BenchSpec => []ConnectionInOnePlace`. The property counts places
  along the next pointers; `PlaceInv` compares them instead: what waits in the queue is in no node of
  the list and with no thread, and so on for each pair (`OncePlaced`), and every open connection has
  a place (`PlacesOfOpened`). That the pointers visit exactly the nodes from head to tail is
  `WalkOfList`, an induction over the heap that needs every pointer to lead forward (`Linkage`).
* `TraceIsNotOverrun`: `BenchSpec => []IteratorInTrace`. The iterator of a thread never leaves
  the trace, wherever its part begins and however often it wraps.
* `RequestsAlternateWithReplies`: `BenchSpec => []OneOutstanding`. `Dialog` says for each place in
  a client thread's program what its two connections hold and who serves them: the INIT that
  nobody has read, or a thread that has yet to connect back, or one that waits for requests, with
  nothing, one request or one reply under way. It needs PlaceInv (only one thread serves it)
  and holds until the process ends.
* `CrashesNeedARace`: `BenchSpec => []CrashNeedsRace`. A thread that verifies alone finds
  the shared iterator where it compared it (`AloneAtKey`).

`FramingCounter_proofs`, first for the framing, for any base and width of the header, any messages and
number of retries, and streams of any length:

* `LengthOfHeader`: for every length that fits into the field, convert_byte_array_to_int undoes
  convert_int_to_byte_array. By induction over the bytes read: after `i` of them the value is
  `n \div Weight[w - i]` (`NextDigit` is the step, `LengthSteps` the recursion).
* `FramingImplementsChannel`: `WireSpec => ChannelRefined`, assuming `MessagesFit`: every length is less
  than `Base ^ length_size_field`. The code hands a size_t to a uint32_t, and beyond that the receiver cannot
  know the length; SmallParts asserts that its instance has the room. `StreamInv` speaks of one
  sequence of all bytes ever handed to send, `S`, with the ends of the messages in it, `p`
  (`Frames`): buffer, wire and unsent are the bytes of `S` behind the place `r` where the current
  read_n began (`Flow`); what was accepted covers the complete messages and no more than the
  last one (`Accepted`); and `r` is the end of the last message received, or the end of the
  header behind it, in which case `need` is the length of the next message (`Place`). So a header read
  is that of the next message (`HeaderStream`), the payload read is that message, and
  it was sent to the last byte (`PayloadIsNext`); each step then is one of the channel, or a stutter
  (`WireStep`).

then for the counter of task0, for any clients, workloads, width and backlog:

* `AnswersAreSumsCorrect`: `CounterSpec => []AnswersAreSums`. `CounterInv` says who has a connection, and
  that there is one at most in each place (`OneConnection`), that the requests in a connection are those that
  the client has made and the server not read, in turns ADD and SUB (`InSequence`), and that the number is
  the sum of the clients served and of what has been read from the one being served (`CountsUp`).
  That the sum may be wrapped after each addition or once at the end is `WrapAdds`.

`Induction_lemmas` has what the last three modules need: every set of naturals that is not empty has
a least element, from the library's theorem that strict inclusion of finite sets is
well-founded; induction up to a bound, for a set of naturals in the place of a predicate; and that a
function defined by recursion over `0..m` exists, is what its definition says and has its
type.

The assumptions are the named ASSUMEs of the modules, which TLC evaluates in the runs.
Every safety property of the passing runs is stated by a theorem. All liveness is
model-checked alone: neither fairness nor ENABLED is within the prover's reach.

## 5. Not modelled

RocksDB (a function from keys to values whose operations succeed), logging, option parsing,
failing `bind`, `listen` and `setsockopt`. In the network modules a message arrives whole or not at all, which is what
Framing implements; task0 has its own `recv_msg`, whose header is taken to be read in one
piece. In task3 `NOT_LEADER`, terms, elections and AppendEntriesReply do not
exist in the code. Reading the map at `end()` in the master (a key without a shard) is
taken to yield a port nobody listens on, the outcome of the build that was looked at.

In task1: the generation and parsing of trace files (input without state), a division by
zero in a transaction (it traps; `Computed` has no value for it) and ids in `depends_on` that no transaction has, more server
threads than the array of four has elements (`PoolAssumption` excludes them), exhausted
descriptors, and `get_tx` of the client, which nothing calls. `task1/server.cpp` and
`task1/utils.cpp` are older copies that the build does not use.

Third-party code is not modelled: three copies of RocksDB and of cxxopts are nearly all of the lines
of the repository, so the mapped lines are a very small share of the tree while they
cover most of the repository's own programs.

Hazards that the models contain but no run isolates: a refused task3 client waits for ever
(`ClientRefused`), GET of keys above 127, exit status 2 for a PUT that failed, a
second server's join without redistribution. The server of task1 executes no request on
its database, although `task1/README.md:33` asks for all of them, and its replies
carry no bytes, so that the client's verification compares nothing and succeeds
(`Matches`); OneOutstanding and BenchEnds are stated so that they hold of this.

## 6. Plan

1. When the server of task1 parses its requests: verification of racing PUTs.
