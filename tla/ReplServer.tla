----------------------------- MODULE ReplServer -----------------------------
(***************************************************************************)
(* task3/source/server.cpp.  A server listens for the others, connects to  *)
(* each of them in turn, and then accepts as many connections as it failed *)
(* to make.  The leader forwards every PUT to each follower on a new       *)
(* connection, stores it and answers; nothing waits for a follower.  A     *)
(* follower applies what its main thread accepts, and a second thread      *)
(* serves its clients.                                                     *)
(***************************************************************************)
EXTENDS ReplNet

CONSTANTS
    FdLimit,    \* descriptors a server may open after its listening sockets
    MaxStarts,  \* bound: how often each server may be started
    MaxCrashes  \* bound: how many servers are killed in a behaviour

ASSUME ServerAssumption == FdLimit \in Nat /\ MaxStarts \in Nat /\ MaxCrashes \in Nat

VARIABLES
    pc,       \* "off", "connect", "accept", "serve", "send" (leader) or "hung"
    thread,   \* the follower thread: "ready" or "hung"
    at,       \* the index of the loop over allPorts
    need,     \* need_to_connect, counted down; N - 1 - connected before that
    cur,      \* the PUT the leader is forwarding
    db,       \* the RocksDB database, which survives a crash
    fds,      \* descriptors opened: none is ever closed
    starts, crashes

serverVars == <<pc, thread, at, need, cur, db, fds, starts, crashes>>

ServerTypeOK ==
    /\ pc \in [Nodes -> {"off", "connect", "accept", "serve", "send", "hung"}]
    /\ thread \in [Nodes -> {"ready", "hung"}]
    /\ at \in [Nodes -> 0..N]
    /\ need \in [Nodes -> 0..N]
    /\ cur \in [Nodes -> Clients \cup {Nobody}]
    /\ db \in [Nodes -> [Keys -> Values \cup {None}]]
    /\ fds \in [Nodes -> 0..FdLimit]
    /\ starts \in [Nodes -> Nat] /\ crashes \in Nat

Goto(n, l) == pc' = [pc EXCEPT ![n] = l]
OpenFd(n) == fds[n] < FdLimit /\ fds' = [fds EXCEPT ![n] = @ + 1]

\* Seeded bug: A server that does not listen is waited for.
WaitForServer(n, m) == fds[n] = FdLimit /\ UNCHANGED fds

\* connect_socket returns -1: there is no descriptor left for a socket, or
\* the port is closed or its queue stays full, and the socket is not closed.
ConnectFails(n, m) ==
    IF fds[n] = FdLimit THEN UNCHANGED fds ELSE ~CanReach(m) /\ OpenFd(n)

\* The loop over allPorts goes on to the next server, past n itself.
Skip(n) ==
    /\ at[n] < N
    /\ IF at[n] = n THEN UNCHANGED fds ELSE ConnectFails(n, at[n])
    /\ at' = [at EXCEPT ![n] = @ + 1]

\* Seeded bug: The follower keeps the value it has.
StoredOnce(n, c) == db' = [db EXCEPT ![n][op[c].key] = IF @ = None THEN op[c].value ELSE @]

StoredAt(n, c) == db' = [db EXCEPT ![n][op[c].key] = op[c].value]

Start(n) ==
    /\ pc[n] = "off" /\ starts[n] < MaxStarts
    /\ Goto(n, "connect")
    /\ starts' = [starts EXCEPT ![n] = @ + 1]
    /\ up' = [up EXCEPT ![n] = TRUE]
    /\ at' = [at EXCEPT ![n] = 0]
    /\ need' = [need EXCEPT ![n] = N - 1]
    /\ fds' = [fds EXCEPT ![n] = 0]
    /\ thread' = [thread EXCEPT ![n] = "ready"]
    /\ UNCHANGED <<op, open, peerQ, clientQ, inbox, cur, db, crashes>>

\* Connecting to a server that listens counts as one connection less to wait for.
MeshJoin(n) ==
    /\ pc[n] = "connect" /\ at[n] < N /\ at[n] # n
    /\ CanReach(at[n]) /\ OpenFd(n)
    /\ Tell(at[n], Join)
    /\ need' = [need EXCEPT ![n] = @ - 1]
    /\ at' = [at EXCEPT ![n] = @ + 1]
    /\ UNCHANGED <<op, up, open, clientQ, inbox, pc, thread, cur, db, starts, crashes>>

MeshSkip(n) ==
    /\ pc[n] = "connect" /\ Skip(n)
    /\ UNCHANGED <<netVars, pc, thread, need, cur, db, starts, crashes>>

\* Seeded bug: need_to_connect leaves the connections already made out of account.
MeshWaitForAll(n) ==
    /\ pc[n] = "connect" /\ at[n] = N
    /\ need' = [need EXCEPT ![n] = N - 1]
    /\ Goto(n, IF N = 1 THEN "serve" ELSE "accept")
    /\ UNCHANGED <<netVars, thread, at, cur, db, fds, starts, crashes>>

\* Seeded bug: the loop tests its bound after the first accept.
MeshWaitOnce(n) ==
    /\ pc[n] = "connect" /\ at[n] = N
    /\ Goto(n, "accept")
    /\ UNCHANGED <<netVars, thread, at, need, cur, db, fds, starts, crashes>>

MeshWait(n) ==
    /\ pc[n] = "connect" /\ at[n] = N
    /\ Goto(n, IF need[n] = 0 THEN "serve" ELSE "accept")
    /\ UNCHANGED <<netVars, thread, at, need, cur, db, fds, starts, crashes>>

\* Any connection will do: a second one from a server already connected to,
\* or an append entry, whose first fields parse as a join.
MeshAccept(n) ==
    /\ pc[n] = "accept" /\ OpenFd(n)
    /\ AcceptPeer(n, "JOIN") \/ AcceptPeer(n, "APPEND")
    /\ need' = [need EXCEPT ![n] = @ - 1]
    /\ Goto(n, IF need[n] = 1 THEN "serve" ELSE "accept")
    /\ UNCHANGED <<op, up, open, clientQ, inbox, thread, at, cur, db, starts, crashes>>

\* The leader's main thread and a follower's second thread open the client port,
\* once the loop over the joins is done: a server that hangs in it never does.
OpenClientPort(n) ==
    /\ pc[n] \in {"serve", "hung"} /\ need[n] = 0 /\ ~open[n]
    /\ open' = [open EXCEPT ![n] = TRUE]
    /\ UNCHANGED <<op, up, peerQ, clientQ, inbox, serverVars>>

\* The answer of handle_get.
GetAnswer(v) == IF v = None THEN Answer("NO_KEY", None) ELSE Answer("OK", v)

Get(n) ==
    LET c == Head(clientQ[n]).from IN Respond(c, GetAnswer(db[n][op[c].key]))

LeaderGet ==
    /\ pc[Leader] = "serve" /\ open[Leader] /\ OpenFd(Leader)
    /\ AcceptClient(Leader, "GET") \/ AcceptClient(Leader, "DIRECT_GET")
    /\ Get(Leader)
    /\ UNCHANGED <<op, up, open, peerQ, pc, thread, at, need, cur, db, starts, crashes>>

LeaderBegin ==
    /\ pc[Leader] = "serve" /\ open[Leader] /\ OpenFd(Leader)
    /\ AcceptClient(Leader, "PUT")
    /\ cur' = [cur EXCEPT ![Leader] = Head(clientQ[Leader]).from]
    /\ at' = [at EXCEPT ![Leader] = 0]
    /\ Goto(Leader, "send")
    /\ UNCHANGED <<op, up, open, peerQ, inbox, thread, need, db, starts, crashes>>

LeaderSend ==
    /\ pc[Leader] = "send" /\ at[Leader] < N /\ at[Leader] # Leader
    /\ CanReach(at[Leader]) /\ OpenFd(Leader)
    /\ Tell(at[Leader], AppendEntry(cur[Leader]))
    /\ at' = [at EXCEPT ![Leader] = @ + 1]
    /\ UNCHANGED <<op, up, open, clientQ, inbox, pc, thread, need, cur, db, starts, crashes>>

\* The send to descriptor -1 fails, and nobody looks at its result.
LeaderSkip ==
    /\ pc[Leader] = "send" /\ Skip(Leader)
    /\ UNCHANGED <<netVars, pc, thread, need, cur, db, starts, crashes>>

\* Seeded bug: The loop over allPorts ends one server early.
LeaderCommitEarly ==
    /\ pc[Leader] = "send" /\ at[Leader] = N - 1
    /\ StoredAt(Leader, cur[Leader])
    /\ Respond(cur[Leader], Answer("OK", None))
    /\ cur' = [cur EXCEPT ![Leader] = Nobody]
    /\ Goto(Leader, "serve")
    /\ UNCHANGED <<op, up, open, peerQ, clientQ, thread, at, need, fds, starts, crashes>>

LeaderCommit ==
    /\ pc[Leader] = "send" /\ at[Leader] = N
    /\ StoredAt(Leader, cur[Leader])
    /\ Respond(cur[Leader], Answer("OK", None))
    /\ cur' = [cur EXCEPT ![Leader] = Nobody]
    /\ Goto(Leader, "serve")
    /\ UNCHANGED <<op, up, open, peerQ, clientQ, thread, at, need, fds, starts, crashes>>

Serving(n) == n # Leader /\ pc[n] = "serve"

FollowerApply(n) ==
    /\ Serving(n) /\ OpenFd(n)
    /\ AcceptPeer(n, "APPEND")
    /\ StoredAt(n, Head(peerQ[n]).put)
    /\ UNCHANGED <<op, up, open, clientQ, inbox, pc, thread, at, need, cur, starts, crashes>>

\* A join parses as an append request without entries.
FollowerIgnore(n) ==
    /\ Serving(n) /\ OpenFd(n)
    /\ AcceptPeer(n, "JOIN")
    /\ UNCHANGED <<op, up, open, clientQ, inbox, pc, thread, at, need, cur, db, starts, crashes>>

ThreadRuns(n) == n # Leader /\ open[n] /\ thread[n] = "ready"

ThreadGet(n) ==
    /\ ThreadRuns(n) /\ OpenFd(n)
    /\ AcceptClient(n, "DIRECT_GET")
    /\ Get(n)
    /\ UNCHANGED <<op, up, open, peerQ, pc, thread, at, need, cur, db, starts, crashes>>

\* "unexpected message type": no answer, and the connection stays open.
ThreadDiscard(n) ==
    /\ ThreadRuns(n) /\ OpenFd(n)
    /\ AcceptClient(n, "GET") \/ AcceptClient(n, "PUT")
    /\ UNCHANGED <<op, up, open, peerQ, inbox, pc, thread, at, need, cur, db, starts, crashes>>

AcceptsPeers(n) == pc[n] = "accept" \/ Serving(n)
AcceptsClients(n) == ThreadRuns(n) \/ (n = Leader /\ pc[n] = "serve" /\ open[n])

\* accept() fails with EMFILE, and secure_recv(-1) never returns.
OutOfDescriptors(n) ==
    /\ fds[n] = FdLimit
    /\ \/ /\ AcceptsPeers(n) /\ peerQ[n] # <<>>
          /\ Goto(n, "hung") /\ UNCHANGED thread
       \/ /\ AcceptsClients(n) /\ clientQ[n] # <<>>
          /\ IF n = Leader THEN Goto(n, "hung") /\ UNCHANGED thread
             ELSE thread' = [thread EXCEPT ![n] = "hung"] /\ UNCHANGED pc
    /\ UNCHANGED <<netVars, at, need, cur, db, fds, starts, crashes>>

Dies(n) ==
    /\ Vanish(n)
    /\ Goto(n, "off")
    /\ cur' = [cur EXCEPT ![n] = Nobody]
    /\ UNCHANGED <<thread, at, need, fds, starts>>

\* ParseFromString(nullptr) throws where a peer closed without sending.
Aborts(n) ==
    /\ fds[n] < FdLimit
    /\ \/ /\ AcceptsPeers(n)
          /\ peerQ[n] # <<>> /\ Head(peerQ[n]).type = "EOF"
       \/ /\ AcceptsClients(n)
          /\ clientQ[n] # <<>> /\ Head(clientQ[n]).type = "EOF"
    /\ Dies(n)
    /\ peerQ' = [peerQ EXCEPT ![n] = <<>>]
    /\ UNCHANGED <<db, crashes>>

\* Killed between two steps.  The leader may have stored the PUT it has not
\* answered yet.
Crash(n) ==
    /\ pc[n] # "off" /\ crashes < MaxCrashes
    /\ crashes' = crashes + 1
    /\ Dies(n)
    /\ peerQ' = [peerQ EXCEPT ![n] = <<>>]
    /\ \/ UNCHANGED db
       \/ pc[n] = "send" /\ at[n] = N /\ StoredAt(n, cur[n])

\* Killed between connect and send: the other server reads end of file.
CrashInSend(n) ==
    /\ pc[n] \in {"connect", "send"} /\ at[n] < N /\ at[n] # n
    /\ CanReach(at[n])
    /\ crashes < MaxCrashes
    /\ crashes' = crashes + 1
    /\ Dies(n)
    /\ peerQ' = [peerQ EXCEPT ![n] = <<>>, ![at[n]] = Append(@, PeerEof)]
    /\ UNCHANGED db

LeaderStep == LeaderGet \/ LeaderBegin \/ LeaderSend \/ LeaderSkip \/ LeaderCommit

MainStep(n) ==
    \/ MeshJoin(n) \/ MeshSkip(n) \/ MeshWait(n) \/ MeshAccept(n)
    \/ n = Leader /\ (OpenClientPort(n) \/ LeaderStep)
    \/ FollowerApply(n) \/ FollowerIgnore(n)

ThreadStep(n) ==
    \/ n # Leader /\ OpenClientPort(n)
    \/ ThreadGet(n) \/ ThreadDiscard(n)

Fails(n) == OutOfDescriptors(n) \/ Aborts(n)

ServerNext ==
    \E n \in Nodes :
        \/ MainStep(n) \/ ThreadStep(n)
        \/ Fails(n)
        \/ Start(n) \/ Crash(n) \/ CrashInSend(n)
=============================================================================
