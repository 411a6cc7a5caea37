------------------------ MODULE ReplicatedKV_proofs -------------------------
(***************************************************************************)
(* Proofs about the replicated store, for any servers, clients, command    *)
(* lines and bounds.                                                       *)
(***************************************************************************)
EXTENDS ReplicatedKV, SequenceTheorems, TLAPS

\* A message between servers that, if it is an entry, is some client's.
Entry == {m \in PeerMsg : m.type = "APPEND" => m.put \in Clients}

QueueTypes ==
    /\ peerQ \in [Nodes -> Seq(Entry)]
    /\ clientQ \in [Nodes -> Seq(ClientMsg)]

\* The network but for its queues.
SocketTypes ==
    /\ op \in [Clients -> Ops]
    /\ up \in [Nodes -> BOOLEAN] /\ open \in [Nodes -> BOOLEAN]
    /\ inbox \in [Clients -> Reply]

HistoryTypes ==
    /\ log \in Seq(Clients)
    /\ applied \in [Nodes -> Seq(Clients)]
    /\ due \in [Clients -> SUBSET Nodes]
    /\ launched \subseteq Clients

\* What is left of the loop over allPorts: the servers but n itself.
ToConnect(n) == N - at[n] - (IF at[n] =< n THEN 1 ELSE 0)

\* need_to_connect suffices for the connections that a server may still make,
\* and the accept loop runs while it is positive.
Counted ==
    \A n \in Nodes :
        /\ pc[n] = "connect" => ToConnect(n) =< need[n]
        /\ pc[n] = "accept" => 1 =< need[n]

\* The leader that forwards a PUT knows whose it is.
Forwarding == \A n \in Nodes : pc[n] = "send" => cur[n] \in Clients

TypeInv ==
    /\ QueueTypes /\ SocketTypes /\ ServerTypeOK /\ ClientTypeOK /\ HistoryTypes
    /\ Counted /\ Forwarding

-----------------------------------------------------------------------------
(* The network. *)

LEMMA NodesInt == N \in Nat \ {0} /\ Leader \in Nodes /\ \A n \in Nodes : n \in Nat /\ n < N
BY NetAssumption DEF NetAssumption, Nodes

LEMMA EntryTypes ==
    /\ Join \in Entry /\ PeerEof \in Entry
    /\ \A c \in Clients : AppendEntry(c) \in Entry
    /\ Entry \subseteq PeerMsg
BY DEF Entry, PeerMsg, Join, PeerEof, AppendEntry

LEMMA OpTypes ==
    ASSUME SocketTypes, NEW c \in Clients
    PROVE  /\ op[c] \in Ops /\ op[c].node \in Nodes /\ op[c].key \in Keys
           /\ op[c].value \in Values \cup {None} /\ op[c].type \in {"PUT", "GET", "DIRECT_GET"}
BY NetAssumption DEF SocketTypes, NetAssumption

\* Sending appends one message to one queue.
LEMMA TellType ==
    ASSUME QueueTypes, NEW n \in Nodes, NEW m \in Entry, Tell(n, m)
    PROVE  peerQ' \in [Nodes -> Seq(Entry)]
BY DEF Tell, QueueTypes

\* Accepting takes the oldest one.
LEMMA AcceptTypes ==
    ASSUME QueueTypes, NEW n \in Nodes, NEW t
    PROVE  /\ AcceptPeer(n, t) =>
                 /\ peerQ' \in [Nodes -> Seq(Entry)] /\ Head(peerQ[n]) \in Entry
                 /\ Head(peerQ[n]).type = t
           /\ AcceptClient(n, t) =>
                 /\ clientQ' \in [Nodes -> Seq(ClientMsg)] /\ Head(clientQ[n]) \in ClientMsg
                 /\ Head(clientQ[n]).from \in Clients
<1>1. ASSUME AcceptPeer(n, t)
      PROVE  /\ peerQ' \in [Nodes -> Seq(Entry)] /\ Head(peerQ[n]) \in Entry
             /\ Head(peerQ[n]).type = t
  BY <1>1 DEF AcceptPeer, QueueTypes
<1>2. ASSUME AcceptClient(n, t)
      PROVE  /\ clientQ' \in [Nodes -> Seq(ClientMsg)] /\ Head(clientQ[n]) \in ClientMsg
             /\ Head(clientQ[n]).from \in Clients
  <2>1. clientQ' \in [Nodes -> Seq(ClientMsg)] /\ Head(clientQ[n]) \in ClientMsg
    BY <1>2 DEF AcceptClient, QueueTypes
  <2> QED
    BY <2>1 DEF ClientMsg
<1> QED
  BY <1>1, <1>2

LEMMA RespondType ==
    ASSUME SocketTypes, NEW c \in Clients, NEW v \in Values \cup {None},
           Respond(c, GetAnswer(v)) \/ Respond(c, Answer("OK", None))
    PROVE  inbox' \in [Clients -> Reply]
BY DEF Respond, GetAnswer, Answer, SocketTypes, Reply

LEMMA VanishTypes ==
    ASSUME SocketTypes, QueueTypes, NEW n \in Nodes, Vanish(n)
    PROVE  SocketTypes' /\ clientQ' \in [Nodes -> Seq(ClientMsg)]
<1>1. Ended \in Reply
  BY DEF Ended, Closed, Reply
<1>2. inbox' \in [Clients -> Reply]
  BY <1>1 DEF Vanish, SocketTypes
<1>3. clientQ' \in [Nodes -> Seq(ClientMsg)]
  BY DEF Vanish, QueueTypes
<1> QED
  BY <1>2, <1>3 DEF Vanish, SocketTypes

LEMMA OpenFdType ==
    ASSUME ServerTypeOK, NEW n \in Nodes, OpenFd(n)
    PROVE  fds' \in [Nodes -> 0..FdLimit]
BY ServerAssumption DEF OpenFd, ServerTypeOK, ServerAssumption

LEMMA StoredType ==
    ASSUME ServerTypeOK, SocketTypes, NEW n \in Nodes, NEW c \in Clients, StoredAt(n, c)
    PROVE  db' \in [Nodes -> [Keys -> Values \cup {None}]]
BY OpTypes DEF StoredAt, ServerTypeOK

-----------------------------------------------------------------------------
(* The servers.  Each lemma is about one group of the actions. *)

ServerInv == QueueTypes /\ SocketTypes /\ ServerTypeOK /\ Counted /\ Forwarding

\* A server that starts, and connects to the others.
LEMMA MeshTypes ==
    ASSUME ServerInv, NEW n \in Nodes,
           Start(n) \/ MeshJoin(n) \/ MeshSkip(n) \/ MeshWait(n) \/ MeshAccept(n)
    PROVE  ServerInv'
<1> USE DEF ServerInv
<1>a. N \in Nat \ {0} /\ n \in Nat /\ n < N /\ at \in [Nodes -> 0..N] /\ need \in [Nodes -> 0..N]
  BY NodesInt DEF ServerTypeOK
<1>1. CASE Start(n)
  <2>1. /\ pc' = [pc EXCEPT ![n] = "connect"] /\ at' = [at EXCEPT ![n] = 0]
        /\ need' = [need EXCEPT ![n] = N - 1]
        /\ UNCHANGED <<peerQ, clientQ, op, open, inbox, cur, db>>
        /\ up' = [up EXCEPT ![n] = TRUE] /\ fds' = [fds EXCEPT ![n] = 0]
        /\ thread' = [thread EXCEPT ![n] = "ready"]
        /\ starts' = [starts EXCEPT ![n] = starts[n] + 1] /\ crashes' = crashes
    BY <1>1 DEF Start, Goto
  <2>2. QueueTypes' /\ SocketTypes'
    BY <2>1 DEF QueueTypes, SocketTypes
  <2>3. ServerTypeOK'
    BY <1>a, <2>1, ServerAssumption DEF ServerTypeOK, ServerAssumption
  <2>4. Counted' /\ Forwarding'
    BY <1>a, <2>1 DEF Counted, Forwarding, ToConnect, ServerTypeOK
  <2> QED
    BY <2>2, <2>3, <2>4
<1>2. CASE MeshJoin(n)
  <2>1. /\ pc[n] = "connect" /\ at[n] < N /\ at[n] # n /\ OpenFd(n) /\ Tell(at[n], Join)
        /\ need' = [need EXCEPT ![n] = need[n] - 1] /\ at' = [at EXCEPT ![n] = at[n] + 1]
        /\ UNCHANGED <<op, up, open, clientQ, inbox, pc, thread, cur, db, starts, crashes>>
    BY <1>2 DEF MeshJoin
  <2>2. at[n] \in Nodes /\ at[n] + 1 \in 0..N
    BY <1>a, <2>1 DEF Nodes
  <2>3. ToConnect(n) =< need[n] /\ 1 =< ToConnect(n)
    BY <1>a, <2>1 DEF Counted, ToConnect
  <2>4. QueueTypes' /\ SocketTypes'
    BY <2>1, <2>2, EntryTypes, TellType DEF QueueTypes, SocketTypes
  <2>5. need[n] - 1 \in 0..N
    BY <1>a, <2>3 DEF ToConnect
  <2>6. ServerTypeOK'
    BY <1>a, <2>1, <2>2, <2>5, OpenFdType DEF ServerTypeOK
  <2>7. at'[n] = at[n] + 1 /\ need'[n] = need[n] - 1
        /\ \A m \in Nodes \ {n} : at'[m] = at[m] /\ need'[m] = need[m]
    BY <1>a, <2>1
  <2>8. ToConnect(n)' =< need'[n]
    BY <1>a, <2>1, <2>3, <2>7 DEF ToConnect
  <2>9. Counted' /\ Forwarding'
    BY <2>1, <2>7, <2>8 DEF Counted, Forwarding, ToConnect
  <2> QED
    BY <2>4, <2>6, <2>9
<1>3. CASE MeshSkip(n)
  <2>1. /\ pc[n] = "connect" /\ at[n] < N /\ at' = [at EXCEPT ![n] = at[n] + 1]
        /\ fds' = fds \/ OpenFd(n)
        /\ UNCHANGED <<op, up, open, peerQ, clientQ, inbox, pc, thread, need, cur, db, starts, crashes>>
    BY <1>3 DEF MeshSkip, Skip, ConnectFails, netVars
  <2>2. QueueTypes' /\ SocketTypes'
    BY <2>1 DEF QueueTypes, SocketTypes
  <2>3. ServerTypeOK'
    BY <1>a, <2>1, OpenFdType DEF ServerTypeOK
  <2>4. at'[n] = at[n] + 1 /\ \A m \in Nodes \ {n} : at'[m] = at[m]
    BY <1>a, <2>1
  <2>5. ToConnect(n)' =< need'[n]
    BY <1>a, <2>1, <2>4 DEF ToConnect, Counted
  <2>6. Counted' /\ Forwarding'
    BY <2>1, <2>4, <2>5 DEF Counted, Forwarding, ToConnect
  <2> QED
    BY <2>2, <2>3, <2>6
<1>4. CASE MeshWait(n)
  <2>1. /\ pc' = [pc EXCEPT ![n] = IF need[n] = 0 THEN "serve" ELSE "accept"]
        /\ UNCHANGED <<op, up, open, peerQ, clientQ, inbox, thread, at, need, cur, db, fds, starts, crashes>>
    BY <1>4 DEF MeshWait, Goto, netVars
  <2>2. QueueTypes' /\ SocketTypes' /\ ServerTypeOK'
    BY <2>1 DEF QueueTypes, SocketTypes, ServerTypeOK
  <2>3. Counted' /\ Forwarding'
    BY <1>a, <2>1 DEF Counted, Forwarding, ToConnect, ServerTypeOK
  <2> QED
    BY <2>2, <2>3
<1>5. CASE MeshAccept(n)
  <2>1. /\ pc[n] = "accept" /\ OpenFd(n)
        /\ AcceptPeer(n, "JOIN") \/ AcceptPeer(n, "APPEND")
        /\ need' = [need EXCEPT ![n] = need[n] - 1]
        /\ pc' = [pc EXCEPT ![n] = IF need[n] = 1 THEN "serve" ELSE "accept"]
        /\ UNCHANGED <<op, up, open, clientQ, inbox, thread, at, cur, db, starts, crashes>>
    BY <1>5 DEF MeshAccept, Goto
  <2>2. 1 =< need[n] /\ need[n] - 1 \in 0..N
    BY <1>a, <2>1 DEF Counted
  <2>3. QueueTypes' /\ SocketTypes'
    BY <2>1, AcceptTypes DEF QueueTypes, SocketTypes
  <2>4. ServerTypeOK'
    BY <1>a, <2>1, <2>2, OpenFdType DEF ServerTypeOK
  <2>5. need'[n] = need[n] - 1 /\ \A m \in Nodes \ {n} : need'[m] = need[m] /\ pc'[m] = pc[m]
    BY <1>a, <2>1 DEF ServerTypeOK
  <2>6. pc'[n] = IF need[n] = 1 THEN "serve" ELSE "accept"
    BY <2>1 DEF ServerTypeOK
  <2>7. Counted' /\ Forwarding'
    BY <1>a, <2>1, <2>2, <2>5, <2>6 DEF Counted, Forwarding, ToConnect
  <2> QED
    BY <2>3, <2>4, <2>7
<1> QED
  BY <1>1, <1>2, <1>3, <1>4, <1>5

\* The client port, and the leader.
LEMMA LeaderTypes ==
    ASSUME ServerInv, NEW n \in Nodes, OpenClientPort(n) \/ (n = Leader /\ LeaderStep)
    PROVE  ServerInv'
<1> USE DEF ServerInv
<1>a. N \in Nat \ {0} /\ Leader \in Nodes /\ at \in [Nodes -> 0..N] /\ need \in [Nodes -> 0..N]
      /\ at[Leader] \in 0..N
  BY NodesInt DEF ServerTypeOK
<1>1. CASE OpenClientPort(n)
  <2>1. QueueTypes' /\ SocketTypes' /\ ServerTypeOK'
    BY <1>1 DEF OpenClientPort, serverVars, QueueTypes, SocketTypes, ServerTypeOK
  <2>2. Counted' /\ Forwarding'
    BY <1>1 DEF OpenClientPort, serverVars, Counted, Forwarding, ToConnect
  <2> QED
    BY <2>1, <2>2
<1>2. CASE LeaderGet
  <2>1. /\ OpenFd(Leader) /\ Get(Leader)
        /\ AcceptClient(Leader, "GET") \/ AcceptClient(Leader, "DIRECT_GET")
        /\ UNCHANGED <<op, up, open, peerQ, pc, thread, at, need, cur, db, starts, crashes>>
    BY <1>2 DEF LeaderGet
  <2> DEFINE c == Head(clientQ[Leader]).from
  <2>2. c \in Clients /\ clientQ' \in [Nodes -> Seq(ClientMsg)]
    BY <1>a, <2>1, AcceptTypes
  <2>3. inbox' \in [Clients -> Reply]
    <3>1. db[Leader][op[c].key] \in Values \cup {None}
      BY <1>a, <2>2, OpTypes DEF ServerTypeOK
    <3> QED
      BY <2>1, <2>2, <3>1, RespondType DEF Get
  <2>4. QueueTypes' /\ SocketTypes'
    BY <2>1, <2>2, <2>3 DEF QueueTypes, SocketTypes
  <2>5. ServerTypeOK'
    BY <1>a, <2>1, OpenFdType DEF ServerTypeOK
  <2>6. Counted' /\ Forwarding'
    BY <2>1 DEF Counted, Forwarding, ToConnect
  <2> QED
    BY <2>4, <2>5, <2>6
<1>3. CASE LeaderBegin
  <2> DEFINE c == Head(clientQ[Leader]).from
  <2>1. /\ OpenFd(Leader) /\ AcceptClient(Leader, "PUT")
        /\ cur' = [cur EXCEPT ![Leader] = c] /\ at' = [at EXCEPT ![Leader] = 0]
        /\ pc' = [pc EXCEPT ![Leader] = "send"]
        /\ UNCHANGED <<op, up, open, peerQ, inbox, thread, need, db, starts, crashes>>
    BY <1>3 DEF LeaderBegin, Goto
  <2>2. c \in Clients /\ clientQ' \in [Nodes -> Seq(ClientMsg)]
    BY <1>a, <2>1, AcceptTypes
  <2> HIDE DEF c
  <2>3. QueueTypes' /\ SocketTypes'
    BY <2>1, <2>2 DEF QueueTypes, SocketTypes
  <2>4. ServerTypeOK'
    <3>1. fds' \in [Nodes -> 0..FdLimit]
      BY <1>a, <2>1, OpenFdType
    <3>2. 0 \in 0..N
      BY <1>a
    <3> QED
      BY <1>a, <2>1, <2>2, <3>1, <3>2 DEF ServerTypeOK
  <2>5. Counted' /\ Forwarding'
    BY <1>a, <2>1, <2>2 DEF Counted, Forwarding, ToConnect, ServerTypeOK
  <2> QED
    BY <2>3, <2>4, <2>5
<1>4. CASE LeaderSend
  <2>1. /\ pc[Leader] = "send" /\ at[Leader] < N /\ OpenFd(Leader)
        /\ Tell(at[Leader], AppendEntry(cur[Leader])) /\ at' = [at EXCEPT ![Leader] = at[Leader] + 1]
        /\ UNCHANGED <<op, up, open, clientQ, inbox, pc, thread, need, cur, db, starts, crashes>>
    BY <1>4 DEF LeaderSend
  <2>2. at[Leader] \in Nodes /\ at[Leader] + 1 \in 0..N /\ cur[Leader] \in Clients
    <3>1. cur[Leader] \in Clients
      BY <1>a, <2>1 DEF Forwarding
    <3>2. N \in Nat /\ at[Leader] \in 0..N /\ at[Leader] < N
      BY <1>a, <2>1
    <3> QED
      BY <3>1, <3>2 DEF Nodes
  <2>3. QueueTypes' /\ SocketTypes'
    BY <2>1, <2>2, EntryTypes, TellType DEF QueueTypes, SocketTypes
  <2>4. ServerTypeOK'
    BY <1>a, <2>1, <2>2, OpenFdType DEF ServerTypeOK
  <2>5. Counted' /\ Forwarding'
    BY <1>a, <2>1 DEF Counted, Forwarding, ToConnect
  <2> QED
    BY <2>3, <2>4, <2>5
<1>5. CASE LeaderSkip
  <2>1. /\ pc[Leader] = "send" /\ at[Leader] < N /\ at' = [at EXCEPT ![Leader] = at[Leader] + 1]
        /\ fds' = fds \/ OpenFd(Leader)
        /\ UNCHANGED <<op, up, open, peerQ, clientQ, inbox, pc, thread, need, cur, db, starts, crashes>>
    BY <1>5 DEF LeaderSkip, Skip, ConnectFails, netVars
  <2>2. QueueTypes' /\ SocketTypes'
    BY <2>1 DEF QueueTypes, SocketTypes
  <2>3. ServerTypeOK'
    BY <1>a, <2>1, OpenFdType DEF ServerTypeOK
  <2>4. Counted' /\ Forwarding'
    BY <1>a, <2>1 DEF Counted, Forwarding, ToConnect
  <2> QED
    BY <2>2, <2>3, <2>4
<1>6. CASE LeaderCommit
  <2>1. /\ pc[Leader] = "send" /\ StoredAt(Leader, cur[Leader])
        /\ Respond(cur[Leader], Answer("OK", None))
        /\ cur' = [cur EXCEPT ![Leader] = Nobody] /\ pc' = [pc EXCEPT ![Leader] = "serve"]
        /\ UNCHANGED <<op, up, open, peerQ, clientQ, thread, at, need, fds, starts, crashes>>
    BY <1>6 DEF LeaderCommit, Goto
  <2>2. cur[Leader] \in Clients
    BY <1>a, <2>1 DEF Forwarding
  <2>3. inbox' \in [Clients -> Reply]
    BY <2>1, <2>2, RespondType
  <2>4. QueueTypes' /\ SocketTypes'
    BY <2>1, <2>3 DEF QueueTypes, SocketTypes
  <2>5. ServerTypeOK'
    BY <1>a, <2>1, <2>2, StoredType DEF ServerTypeOK
  <2>6. Counted' /\ Forwarding'
    BY <1>a, <2>1 DEF Counted, Forwarding, ToConnect, ServerTypeOK
  <2> QED
    BY <2>4, <2>5, <2>6
<1> QED
  BY <1>1, <1>2, <1>3, <1>4, <1>5, <1>6 DEF LeaderStep

\* The two threads of a follower.
LEMMA FollowerTypes ==
    ASSUME ServerInv, NEW n \in Nodes,
           FollowerApply(n) \/ FollowerIgnore(n) \/ ThreadGet(n) \/ ThreadDiscard(n)
    PROVE  ServerInv'
<1> USE DEF ServerInv
<1>1. CASE FollowerApply(n)
  <2>1. /\ OpenFd(n) /\ AcceptPeer(n, "APPEND") /\ StoredAt(n, Head(peerQ[n]).put)
        /\ UNCHANGED <<op, up, open, clientQ, inbox, pc, thread, at, need, cur, starts, crashes>>
    BY <1>1 DEF FollowerApply
  <2>2. peerQ' \in [Nodes -> Seq(Entry)] /\ Head(peerQ[n]).put \in Clients
    BY <2>1, AcceptTypes DEF Entry
  <2>3. QueueTypes' /\ SocketTypes'
    BY <2>1, <2>2 DEF QueueTypes, SocketTypes
  <2>4. ServerTypeOK'
    BY <2>1, <2>2, OpenFdType, StoredType DEF ServerTypeOK
  <2>5. Counted' /\ Forwarding'
    BY <2>1 DEF Counted, Forwarding, ToConnect
  <2> QED
    BY <2>3, <2>4, <2>5
<1>2. CASE FollowerIgnore(n)
  <2>1. /\ OpenFd(n) /\ AcceptPeer(n, "JOIN")
        /\ UNCHANGED <<op, up, open, clientQ, inbox, pc, thread, at, need, cur, db, starts, crashes>>
    BY <1>2 DEF FollowerIgnore
  <2>2. QueueTypes' /\ SocketTypes'
    BY <2>1, AcceptTypes DEF QueueTypes, SocketTypes
  <2>3. ServerTypeOK'
    BY <2>1, OpenFdType DEF ServerTypeOK
  <2>4. Counted' /\ Forwarding'
    BY <2>1 DEF Counted, Forwarding, ToConnect
  <2> QED
    BY <2>2, <2>3, <2>4
<1>3. CASE ThreadGet(n)
  <2>1. /\ OpenFd(n) /\ Get(n) /\ AcceptClient(n, "DIRECT_GET")
        /\ UNCHANGED <<op, up, open, peerQ, pc, thread, at, need, cur, db, starts, crashes>>
    BY <1>3 DEF ThreadGet
  <2> DEFINE c == Head(clientQ[n]).from
  <2>2. c \in Clients /\ clientQ' \in [Nodes -> Seq(ClientMsg)]
    BY <2>1, AcceptTypes
  <2>3. inbox' \in [Clients -> Reply]
    <3>1. db[n][op[c].key] \in Values \cup {None}
      BY <2>2, OpTypes DEF ServerTypeOK
    <3> QED
      BY <2>1, <2>2, <3>1, RespondType DEF Get
  <2>4. QueueTypes' /\ SocketTypes'
    BY <2>1, <2>2, <2>3 DEF QueueTypes, SocketTypes
  <2>5. ServerTypeOK'
    BY <2>1, OpenFdType DEF ServerTypeOK
  <2>6. Counted' /\ Forwarding'
    BY <2>1 DEF Counted, Forwarding, ToConnect
  <2> QED
    BY <2>4, <2>5, <2>6
<1>4. CASE ThreadDiscard(n)
  <2>1. /\ OpenFd(n)
        /\ AcceptClient(n, "GET") \/ AcceptClient(n, "PUT")
        /\ UNCHANGED <<op, up, open, peerQ, inbox, pc, thread, at, need, cur, db, starts, crashes>>
    BY <1>4 DEF ThreadDiscard
  <2>2. QueueTypes' /\ SocketTypes'
    BY <2>1, AcceptTypes DEF QueueTypes, SocketTypes
  <2>3. ServerTypeOK'
    BY <2>1, OpenFdType DEF ServerTypeOK
  <2>4. Counted' /\ Forwarding'
    BY <2>1 DEF Counted, Forwarding, ToConnect
  <2> QED
    BY <2>2, <2>3, <2>4
<1> QED
  BY <1>1, <1>2, <1>3, <1>4

\* The end of a server, and of its descriptors.
LEMMA DeathTypes ==
    ASSUME ServerInv, NEW n \in Nodes, Dies(n), crashes' \in Nat,
           peerQ' \in [Nodes -> Seq(Entry)], db' \in [Nodes -> [Keys -> Values \cup {None}]]
    PROVE  ServerInv'
<1> USE DEF ServerInv
<1>1. /\ Vanish(n) /\ pc' = [pc EXCEPT ![n] = "off"] /\ cur' = [cur EXCEPT ![n] = Nobody]
      /\ UNCHANGED <<thread, at, need, fds, starts>>
  BY DEF Dies, Goto
<1>2. QueueTypes' /\ SocketTypes'
  BY <1>1, VanishTypes DEF QueueTypes
<1>3. ServerTypeOK'
  BY <1>1 DEF ServerTypeOK
<1>4. Counted' /\ Forwarding'
  BY <1>1 DEF Counted, Forwarding, ToConnect, ServerTypeOK
<1> QED
  BY <1>2, <1>3, <1>4

LEMMA FailureTypes ==
    ASSUME ServerInv, NEW n \in Nodes,
           OutOfDescriptors(n) \/ Aborts(n) \/ Crash(n) \/ CrashInSend(n)
    PROVE  ServerInv'
<1> USE DEF ServerInv
<1>a. <<>> \in Seq(Entry) /\ crashes \in Nat /\ crashes + 1 \in Nat
  BY DEF ServerTypeOK
<1>b. [peerQ EXCEPT ![n] = <<>>] \in [Nodes -> Seq(Entry)]
  BY <1>a DEF QueueTypes
<1>1. CASE OutOfDescriptors(n)
  <2>1. /\ \/ pc' = [pc EXCEPT ![n] = "hung"] /\ UNCHANGED thread
           \/ thread' = [thread EXCEPT ![n] = "hung"] /\ UNCHANGED pc
        /\ UNCHANGED <<op, up, open, peerQ, clientQ, inbox, at, need, cur, db, fds, starts, crashes>>
    BY <1>1 DEF OutOfDescriptors, Goto, netVars
  <2>2. QueueTypes' /\ SocketTypes'
    BY <2>1 DEF QueueTypes, SocketTypes
  <2>3. ServerTypeOK'
    BY <2>1 DEF ServerTypeOK
  <2>4. Counted' /\ Forwarding'
    BY <2>1 DEF Counted, Forwarding, ToConnect, ServerTypeOK
  <2> QED
    BY <2>2, <2>3, <2>4
<1>2. CASE Aborts(n)
  <2>1. Dies(n) /\ peerQ' = [peerQ EXCEPT ![n] = <<>>] /\ UNCHANGED <<db, crashes>>
    BY <1>2 DEF Aborts
  <2> QED
    BY <1>a, <1>b, <2>1, DeathTypes DEF ServerTypeOK
<1>3. CASE Crash(n)
  <2>1. /\ Dies(n) /\ peerQ' = [peerQ EXCEPT ![n] = <<>>] /\ crashes' = crashes + 1
        /\ UNCHANGED db \/ (pc[n] = "send" /\ StoredAt(n, cur[n]))
    BY <1>3 DEF Crash
  <2>2. db' \in [Nodes -> [Keys -> Values \cup {None}]]
    BY <2>1, StoredType DEF ServerTypeOK, Forwarding
  <2> QED
    BY <1>a, <1>b, <2>1, <2>2, DeathTypes
<1>4. CASE CrashInSend(n)
  <2>1. /\ Dies(n) /\ crashes' = crashes + 1 /\ UNCHANGED db /\ at[n] < N /\ at[n] # n
        /\ peerQ' = [peerQ EXCEPT ![n] = <<>>, ![at[n]] = Append(@, PeerEof)]
    BY <1>4 DEF CrashInSend
  <2>2. at[n] \in Nodes
    BY <2>1, NodesInt DEF ServerTypeOK, Nodes
  <2>3. peerQ' \in [Nodes -> Seq(Entry)]
    <3>1. peerQ[at[n]] \in Seq(Entry)
      BY <2>2 DEF QueueTypes
    <3>2. Append(peerQ[at[n]], PeerEof) \in Seq(Entry)
      BY <3>1, EntryTypes
    <3>3. peerQ' = [[peerQ EXCEPT ![n] = <<>>] EXCEPT ![at[n]] = Append(peerQ[at[n]], PeerEof)]
      BY <2>1, <2>2 DEF QueueTypes
    <3> QED
      BY <1>b, <3>2, <3>3
  <2> QED
    BY <1>a, <2>1, <2>3, DeathTypes DEF ServerTypeOK
<1> QED
  BY <1>1, <1>2, <1>3, <1>4

LEMMA ServersTypes == ServerInv /\ ServerNext => ServerInv'
BY MeshTypes, LeaderTypes, FollowerTypes, FailureTypes
   DEF ServerNext, MainStep, ThreadStep, Fails

-----------------------------------------------------------------------------
(* The clients and the history. *)

LEMMA CallType ==
    ASSUME SocketTypes, QueueTypes, NEW c \in Clients, NEW t \in {"PUT", "GET", "DIRECT_GET", "EOF"},
           Call(c, t)
    PROVE  clientQ' \in [Nodes -> Seq(ClientMsg)]
<1>1. op[c].node \in Nodes /\ [type |-> t, from |-> c] \in ClientMsg
  BY OpTypes DEF ClientMsg
<1> QED
  BY <1>1 DEF Call, QueueTypes

LEMMA ClientsTypes ==
    ServerInv /\ ClientTypeOK /\ ClientNext /\ UNCHANGED serverVars => ServerInv' /\ ClientTypeOK'
<1> SUFFICES ASSUME ServerInv, ClientTypeOK, ClientNext, UNCHANGED serverVars
             PROVE  ServerInv' /\ ClientTypeOK'
  OBVIOUS
<1> USE DEF ServerInv
<1>1. PICK c \in Clients : ClientStep(c) \/ ClientKilled(c)
  BY DEF ClientNext
<1>2. ServerTypeOK' /\ Counted' /\ Forwarding'
  BY DEF serverVars, ServerTypeOK, Counted, Forwarding, ToConnect
<1>3. CASE ClientCalls(c)
  <2>1. /\ Call(c, op[c].type) /\ inbox' = [inbox EXCEPT ![c] = Waiting]
        /\ cpc' = [cpc EXCEPT ![c] = "waiting"] /\ UNCHANGED <<op, up, open, peerQ, code, kills>>
    BY <1>3 DEF ClientCalls
  <2>2. Waiting \in Reply /\ clientQ' \in [Nodes -> Seq(ClientMsg)]
    BY <2>1, OpTypes, CallType DEF Waiting, Closed, Reply
  <2> QED
    BY <1>2, <2>1, <2>2 DEF QueueTypes, SocketTypes, ClientTypeOK
<1>4. CASE ClientKilled(c)
  <2>1. /\ Call(c, "EOF") /\ cpc' = [cpc EXCEPT ![c] = "killed"] /\ kills' = kills + 1
        /\ UNCHANGED <<op, up, open, peerQ, inbox, code>>
    BY <1>4 DEF ClientKilled
  <2>2. clientQ' \in [Nodes -> Seq(ClientMsg)]
    BY <2>1, CallType
  <2> QED
    BY <1>2, <2>1, <2>2 DEF QueueTypes, SocketTypes, ClientTypeOK
<1>5. CASE ClientRefused(c) \/ ClientAborts(c)
  BY <1>2, <1>5 DEF ClientRefused, ClientAborts, netVars, QueueTypes, SocketTypes, ClientTypeOK
<1>6. CASE ClientExits(c)
  BY <1>2, <1>6 DEF ClientExits, netVars, QueueTypes, SocketTypes, ClientTypeOK
<1> QED
  BY <1>1, <1>3, <1>4, <1>5, <1>6 DEF ClientStep

\* The history records what it saw of a step that keeps the types.
LEMMA HistoryStep ==
    ASSUME HistoryTypes, ServerInv, ServerInv', History
    PROVE  HistoryTypes'
<1> USE DEF HistoryTypes, ServerInv
<1>1. log' \in Seq(Clients)
  <2>1. cur'[Leader] \in Clients \cup {Nobody}
    BY NodesInt DEF ServerTypeOK
  <2> QED
    BY <2>1 DEF History
<1>2. applied' \in [Nodes -> Seq(Clients)]
  <2>1. ASSUME NEW n \in Nodes, Applies(n) PROVE Head(peerQ[n]).put \in Clients
    <3>1. peerQ[n] # <<>> /\ Head(peerQ[n]).type = "APPEND" /\ peerQ[n] \in Seq(Entry)
      BY <2>1 DEF Applies, QueueTypes
    <3>2. Head(peerQ[n]) \in Entry
      BY <3>1
    <3> QED
      BY <3>1, <3>2 DEF Entry
  <2> QED
    BY <2>1 DEF History
<1>3. due' \in [Clients -> SUBSET Nodes]
  BY DEF History
<1>4. launched' \subseteq Clients
  BY DEF History
<1> QED
  BY <1>1, <1>2, <1>3, <1>4

LEMMA InitTypes == Init => TypeInv
<1> SUFFICES ASSUME Init PROVE TypeInv
  OBVIOUS
<1>1. QueueTypes /\ SocketTypes
  <2>1. <<>> \in Seq(Entry) /\ <<>> \in Seq(ClientMsg)
    OBVIOUS
  <2>2. Closed \in Reply
    BY DEF Closed, Reply
  <2>3. QueueTypes
    BY <2>1 DEF Init, QueueTypes
  <2>4. up \in [Nodes -> BOOLEAN] /\ open \in [Nodes -> BOOLEAN]
    BY FormedAssumption DEF Init, FormedAssumption
  <2> QED
    BY <2>2, <2>3, <2>4 DEF Init, SocketTypes
<1>2. ASSUME NEW n \in Nodes PROVE (IF Formed THEN FormedFds(n) ELSE 0) \in 0..FdLimit
  BY NodesInt, FormedAssumption, ServerAssumption
     DEF FormedFds, FormedAssumption, ServerAssumption
<1>3. ServerTypeOK
  <2>1. fds \in [Nodes -> 0..FdLimit]
    BY <1>2 DEF Init
  <2>2. /\ at \in [Nodes -> 0..N] /\ need \in [Nodes -> 0..N] /\ starts \in [Nodes -> Nat]
        /\ crashes \in Nat
    BY NodesInt DEF Init
  <2> QED
    BY <2>1, <2>2 DEF Init, ServerTypeOK
<1>4. ClientTypeOK /\ HistoryTypes
  BY DEF Init, ClientTypeOK, HistoryTypes
<1>5. Counted /\ Forwarding
  BY DEF Init, Counted, Forwarding
<1> QED
  BY <1>1, <1>3, <1>4, <1>5 DEF TypeInv

LEMMA NextTypes == TypeInv /\ [Next]_vars => TypeInv'
<1> SUFFICES ASSUME TypeInv, [Next]_vars PROVE TypeInv'
  OBVIOUS
<1>1. CASE UNCHANGED vars
  BY <1>1 DEF vars, netVars, serverVars, clientVars, historyVars, TypeInv, QueueTypes, SocketTypes,
              ServerTypeOK, ClientTypeOK, HistoryTypes, Counted, Forwarding, ToConnect
<1>2. CASE ServerNext /\ UNCHANGED clientVars /\ History
  <2>1. ServerInv'
    BY <1>2, ServersTypes DEF TypeInv, ServerInv
  <2>2. ClientTypeOK'
    BY <1>2 DEF clientVars, TypeInv, ClientTypeOK
  <2> QED
    BY <1>2, <2>1, <2>2, HistoryStep DEF TypeInv, ServerInv
<1>3. CASE ClientNext /\ UNCHANGED serverVars /\ History
  <2>1. ServerInv' /\ ClientTypeOK'
    BY <1>3, ClientsTypes DEF TypeInv, ServerInv
  <2> QED
    BY <1>3, <2>1, HistoryStep DEF TypeInv, ServerInv
<1> QED
  BY <1>1, <1>2, <1>3 DEF Next, Rest

\* Every variable of servers, network, clients and history keeps its type; the
\* counter need_to_connect (server.cpp) does not go below zero.
THEOREM TypeCorrect == Spec => []TypeOK
<1>1. TypeInv => TypeOK
  <2> SUFFICES ASSUME TypeInv PROVE TypeOK
    OBVIOUS
  <2>1. \A n \in Nodes : peerQ[n] \in Seq(PeerMsg)
    BY EntryTypes DEF TypeInv, QueueTypes
  <2>2. peerQ \in [Nodes -> Seq(PeerMsg)]
    BY <2>1 DEF TypeInv, QueueTypes
  <2> QED
    BY <2>2 DEF TypeInv, TypeOK, NetTypeOK, QueueTypes, SocketTypes, HistoryTypes
<1> QED
  BY <1>1, InitTypes, NextTypes, PTL DEF Spec
-----------------------------------------------------------------------------
(* The order of the entries.  A follower's entries are those it has stored,  *)
(* followed by those in its queue; the leader's loop adds the last PUT of    *)
(* its log to each of them once.                                             *)

Followers == Nodes \ {Leader}

Sent(n, c) == In(applied[n], c) \/ Underway(n, c)

NodeInOrder(n) ==
    \A c, d \in Clients :
        /\ Before(applied[n], c, d) => Before(log, c, d)
        /\ In(applied[n], c) /\ Underway(n, d) => Before(log, c, d)
        /\ \A i, j \in DOMAIN peerQ[n] :
              i < j /\ peerQ[n][i] = AppendEntry(c) /\ peerQ[n][j] = AppendEntry(d)
                  => Before(log, c, d)

NodeInv(n) ==
    /\ NodeInOrder(n)
    /\ \A c \in Clients : Sent(n, c) => In(log, c)
    /\ cur[Leader] # Nobody /\ at[Leader] =< n => ~Sent(n, cur[Leader])

\* What the leader forwards is the last entry of its log.
CurLast ==
    cur[Leader] # Nobody => pc[Leader] = "send" /\ log # <<>> /\ log[Len(log)] = cur[Leader]

\* A client asks once, and what still waits for the leader is not in its log.
AskedOnce ==
    /\ \A c \in Clients : In(log, c) => cpc[c] # "start"
    /\ \A i \in DOMAIN clientQ[Leader] :
          cpc[clientQ[Leader][i].from] # "start" /\ ~In(log, clientQ[Leader][i].from)
    /\ \A i, j \in DOMAIN clientQ[Leader] :
          clientQ[Leader][i].from = clientQ[Leader][j].from => i = j

OrderInv == (\A n \in Followers : NodeInv(n)) /\ CurLast /\ AskedOnce

\* In this step the queue of n gets no entry: entries may leave it at the front.
Loses(n) ==
    \E k \in Nat : \A i \in DOMAIN peerQ'[n] : peerQ'[n][i].type = "APPEND" =>
        i + k \in DOMAIN peerQ[n] /\ peerQ[n][i + k] = peerQ'[n][i]

ClientsLeave ==
    \E k \in Nat : \A i \in DOMAIN clientQ'[Leader] :
        i + k \in DOMAIN clientQ[Leader] /\ clientQ[Leader][i + k] = clientQ'[Leader][i]

Quiet(n) == Loses(n) /\ ~Applies(n)

LEMMA QuietSame ==
    ASSUME TypeInv, NEW n \in Nodes, peerQ'[n] = peerQ[n]
    PROVE  Quiet(n)
<1>1. peerQ[n] \in Seq(Entry)
  BY DEF TypeInv, QueueTypes
<1>2. \A i \in DOMAIN peerQ[n] : i + 0 = i
  BY <1>1
<1>3. Loses(n)
  BY <1>2 DEF Loses
<1>4. ~(Len(peerQ'[n]) < Len(peerQ[n]))
  BY <1>1
<1> QED
  BY <1>3, <1>4 DEF Quiet, Applies

LEMMA QuietAppend ==
    ASSUME TypeInv, NEW n \in Nodes, NEW m \in Entry, m.type # "APPEND",
           peerQ'[n] = Append(peerQ[n], m)
    PROVE  Quiet(n)
<1>1. peerQ[n] \in Seq(Entry)
  BY DEF TypeInv, QueueTypes
<1>2. /\ Len(peerQ'[n]) = Len(peerQ[n]) + 1 /\ DOMAIN peerQ'[n] = 1..(Len(peerQ[n]) + 1)
      /\ DOMAIN peerQ[n] = 1..Len(peerQ[n]) /\ Len(peerQ[n]) \in Nat
      /\ peerQ'[n][Len(peerQ[n]) + 1] = m
      /\ \A i \in 1..Len(peerQ[n]) : peerQ'[n][i] = peerQ[n][i]
  BY <1>1
<1>3. \A i \in DOMAIN peerQ'[n] : peerQ'[n][i].type = "APPEND" =>
         i + 0 \in DOMAIN peerQ[n] /\ peerQ[n][i + 0] = peerQ'[n][i]
  BY <1>2
<1>4. Loses(n)
  BY <1>3 DEF Loses
<1>5. ~(Len(peerQ'[n]) < Len(peerQ[n]))
  BY <1>2
<1> QED
  BY <1>4, <1>5 DEF Quiet, Applies

LEMMA LosesTail ==
    ASSUME TypeInv, NEW n \in Nodes, peerQ[n] # <<>>, peerQ'[n] = Tail(peerQ[n])
    PROVE  Loses(n)
<1>1. peerQ[n] \in Seq(Entry)
  BY DEF TypeInv, QueueTypes
<1>2. \A i \in DOMAIN peerQ'[n] : i + 1 \in DOMAIN peerQ[n] /\ peerQ[n][i + 1] = peerQ'[n][i]
  BY <1>1
<1> QED
  BY <1>2 DEF Loses

LEMMA QuietEmptied ==
    ASSUME NEW n \in Nodes, peerQ'[n] = <<>>, pc'[n] = "off"
    PROVE  Quiet(n)
<1>1. DOMAIN peerQ'[n] = {}
  OBVIOUS
<1> QED
  BY <1>1 DEF Quiet, Loses, Applies, Follows

\* A node that gets no entry keeps the order, whatever the leader does: goes on,
\* is done with its PUT, or takes one that is not in its log yet.
LEMMA QuietKeeps ==
    ASSUME TypeInv, TypeInv', NEW n \in Followers, NodeInv(n), Loses(n), applied'[n] = applied[n],
           \A c, d \in Clients : Before(log, c, d) => Before(log', c, d),
           \A c \in Clients : In(log, c) => In(log', c),
           cur'[Leader] \in Clients \cup {Nobody},
           cur'[Leader] # Nobody /\ at'[Leader] =< n =>
               (cur'[Leader] = cur[Leader] /\ at[Leader] =< n) \/ ~In(log, cur'[Leader])
    PROVE  NodeInv(n)'
<1>1. PICK k \in Nat : \A i \in DOMAIN peerQ'[n] : peerQ'[n][i].type = "APPEND" =>
          i + k \in DOMAIN peerQ[n] /\ peerQ[n][i + k] = peerQ'[n][i]
  BY DEF Loses
<1>2. \A c \in Clients : AppendEntry(c).type = "APPEND"
  BY DEF AppendEntry
<1>3. \A c \in Clients : Underway(n, c)' => Underway(n, c)
  BY <1>1, <1>2 DEF Underway
<1>4. \A c \in Clients : Sent(n, c)' => Sent(n, c)
  BY <1>3 DEF Sent
<1>5. ASSUME NEW c \in Clients, NEW d \in Clients, NEW i \in DOMAIN peerQ'[n], NEW j \in DOMAIN peerQ'[n],
             i < j, peerQ'[n][i] = AppendEntry(c), peerQ'[n][j] = AppendEntry(d)
      PROVE  Before(log', c, d)
  <2>1. /\ i + k \in DOMAIN peerQ[n] /\ peerQ[n][i + k] = AppendEntry(c)
        /\ j + k \in DOMAIN peerQ[n] /\ peerQ[n][j + k] = AppendEntry(d)
    BY <1>1, <1>2, <1>5
  <2>2. peerQ[n] \in Seq(Entry) /\ n \in Nodes
    BY DEF TypeInv, QueueTypes, Followers
  <2>3. i \in Int /\ j \in Int
    BY DEF TypeInv, QueueTypes, Followers
  <2>4. i + k < j + k
    BY <1>5, <2>3
  <2>5. Before(log, c, d)
    BY <2>1, <2>4 DEF NodeInv, NodeInOrder
  <2> QED
    BY <2>5
<1>6. NodeInOrder(n)'
  BY <1>3, <1>5 DEF NodeInv, NodeInOrder
<1>7. \A c \in Clients : Sent(n, c)' => In(log', c)
  BY <1>4 DEF NodeInv
<1>8. ASSUME NEW c \in Clients, cur'[Leader] = c, at'[Leader] =< n PROVE ~Sent(n, c)'
  BY <1>4, <1>8, NetAssumption DEF NodeInv, NetAssumption
<1> QED
  BY <1>6, <1>7, <1>8 DEF NodeInv, Sent, Underway

-----------------------------------------------------------------------------
(* What the steps do to the queues of the followers ... *)

LEMMA QuietSteps ==
    ASSUME TypeInv, NEW m \in Nodes,
           \/ Start(m) \/ MeshJoin(m) \/ MeshSkip(m) \/ MeshWait(m) \/ MeshAccept(m)
           \/ OpenClientPort(m)
           \/ LeaderGet \/ LeaderBegin \/ LeaderSkip \/ LeaderCommit
           \/ FollowerIgnore(m) \/ ThreadGet(m) \/ ThreadDiscard(m)
           \/ OutOfDescriptors(m) \/ Aborts(m) \/ Crash(m) \/ CrashInSend(m)
    PROVE  \A n \in Followers : Quiet(n)
<1> SUFFICES ASSUME NEW n \in Followers PROVE Quiet(n)
  OBVIOUS
<1>a. n \in Nodes
  BY DEF Followers
<1>b. peerQ \in [Nodes -> Seq(Entry)] /\ pc \in [Nodes -> {"off", "connect", "accept", "serve", "send", "hung"}]
  BY DEF TypeInv, QueueTypes, ServerTypeOK
<1>1. CASE peerQ' = peerQ
  BY <1>a, <1>1, QuietSame
<1>2. CASE \/ Start(m) \/ MeshSkip(m) \/ MeshWait(m) \/ OpenClientPort(m) \/ LeaderGet \/ LeaderBegin
           \/ LeaderSkip \/ LeaderCommit \/ ThreadGet(m) \/ ThreadDiscard(m) \/ OutOfDescriptors(m)
  BY <1>1, <1>2 DEF Start, MeshSkip, MeshWait, OpenClientPort, LeaderGet, LeaderBegin, LeaderSkip,
     LeaderCommit, ThreadGet, ThreadDiscard, OutOfDescriptors, netVars
<1>3. CASE MeshJoin(m)
  <2>1. peerQ' = [peerQ EXCEPT ![at[m]] = Append(peerQ[at[m]], Join)]
    BY <1>3 DEF MeshJoin, Tell
  <2>2. peerQ'[n] = peerQ[n] \/ peerQ'[n] = Append(peerQ[n], Join)
    BY <1>a, <1>b, <2>1
  <2> QED
    BY <1>a, <2>2, QuietSame, QuietAppend, EntryTypes DEF Join
<1>4. CASE MeshAccept(m)
  <2>1. pc[m] = "accept" /\ peerQ[m] # <<>> /\ peerQ' = [peerQ EXCEPT ![m] = Tail(peerQ[m])]
    BY <1>4 DEF MeshAccept, AcceptPeer
  <2>2. CASE n = m
    BY <1>a, <1>b, <2>1, <2>2, LosesTail DEF Quiet, Applies, Follows, Serving
  <2>3. CASE n # m
    BY <1>a, <1>b, <2>1, <2>3, QuietSame
  <2> QED
    BY <2>2, <2>3
<1>5. CASE FollowerIgnore(m)
  <2>1. peerQ[m] # <<>> /\ Head(peerQ[m]).type = "JOIN" /\ peerQ' = [peerQ EXCEPT ![m] = Tail(peerQ[m])]
    BY <1>5 DEF FollowerIgnore, AcceptPeer
  <2>2. CASE n = m
    BY <1>a, <1>b, <2>1, <2>2, LosesTail DEF Quiet, Applies
  <2>3. CASE n # m
    BY <1>a, <1>b, <2>1, <2>3, QuietSame
  <2> QED
    BY <2>2, <2>3
<1>6. CASE Aborts(m) \/ Crash(m)
  <2>1. pc' = [pc EXCEPT ![m] = "off"] /\ peerQ' = [peerQ EXCEPT ![m] = <<>>]
    BY <1>6 DEF Aborts, Crash, Dies, Goto
  <2>2. CASE n = m
    BY <1>a, <1>b, <2>1, <2>2, QuietEmptied
  <2>3. CASE n # m
    BY <1>a, <1>b, <2>1, <2>3, QuietSame
  <2> QED
    BY <2>2, <2>3
<1>7. CASE CrashInSend(m)
  <2>1. /\ at[m] # m /\ pc' = [pc EXCEPT ![m] = "off"]
        /\ peerQ' = [peerQ EXCEPT ![m] = <<>>, ![at[m]] = Append(@, PeerEof)]
    BY <1>7 DEF CrashInSend, Dies, Goto
  <2>2. CASE n = m
    BY <1>a, <1>b, <2>1, <2>2, QuietEmptied
  <2>3. CASE n # m
    <3>1. peerQ'[n] = peerQ[n] \/ peerQ'[n] = Append(peerQ[n], PeerEof)
      BY <1>a, <1>b, <2>1, <2>3
    <3> QED
      BY <1>a, <3>1, QuietSame, QuietAppend, EntryTypes DEF PeerEof
  <2> QED
    BY <2>2, <2>3
<1> QED
  BY <1>2, <1>3, <1>4, <1>5, <1>6, <1>7

\* ... and to the leader: unless it takes a PUT, it goes on with the one it has,
\* or is done with it, and clients only leave its queue.
Continues ==
    /\ cur'[Leader] \in {Nobody, cur[Leader]}
    /\ cur'[Leader] # Nobody => at[Leader] =< at'[Leader] /\ pc'[Leader] = "send"
    /\ ClientsLeave

LEMMA LeavingClients ==
    ASSUME TypeInv,
           \/ clientQ'[Leader] = clientQ[Leader]
           \/ clientQ[Leader] # <<>> /\ clientQ'[Leader] = Tail(clientQ[Leader])
           \/ clientQ'[Leader] = <<>>
    PROVE  ClientsLeave
<1>1. clientQ[Leader] \in Seq(ClientMsg)
  BY NodesInt DEF TypeInv, QueueTypes
<1>2. CASE clientQ'[Leader] = clientQ[Leader]
  <2>1. \A i \in DOMAIN clientQ'[Leader] :
           i + 0 \in DOMAIN clientQ[Leader] /\ clientQ[Leader][i + 0] = clientQ'[Leader][i]
    BY <1>1, <1>2
  <2> QED
    BY <2>1 DEF ClientsLeave
<1>3. CASE clientQ[Leader] # <<>> /\ clientQ'[Leader] = Tail(clientQ[Leader])
  <2>1. \A i \in DOMAIN clientQ'[Leader] :
           i + 1 \in DOMAIN clientQ[Leader] /\ clientQ[Leader][i + 1] = clientQ'[Leader][i]
    BY <1>1, <1>3
  <2> QED
    BY <2>1 DEF ClientsLeave
<1>4. CASE clientQ'[Leader] = <<>>
  BY <1>4 DEF ClientsLeave
<1> QED
  BY <1>2, <1>3, <1>4

LEMMA ContinueSteps ==
    ASSUME TypeInv, CurLast, NEW m \in Nodes,
           \/ Start(m) \/ MeshJoin(m) \/ MeshSkip(m) \/ MeshWait(m) \/ MeshAccept(m)
           \/ OpenClientPort(m)
           \/ LeaderGet \/ LeaderSend \/ LeaderSkip \/ LeaderCommit
           \/ FollowerApply(m) \/ FollowerIgnore(m) \/ ThreadGet(m) \/ ThreadDiscard(m)
           \/ OutOfDescriptors(m) \/ Aborts(m) \/ Crash(m) \/ CrashInSend(m)
    PROVE  Continues
<1>a. /\ Leader \in Nodes /\ at \in [Nodes -> 0..N] /\ cur \in [Nodes -> Clients \cup {Nobody}]
      /\ pc \in [Nodes -> {"off", "connect", "accept", "serve", "send", "hung"}]
      /\ clientQ \in [Nodes -> Seq(ClientMsg)] /\ N \in Nat /\ at[Leader] \in Nat
  BY NodesInt DEF TypeInv, ServerTypeOK, QueueTypes
<1>b. cur[Leader] # Nobody => pc[Leader] = "send"
  BY DEF CurLast
\* A step that leaves the leader's PUT alone.
<1>1. ASSUME UNCHANGED <<cur, clientQ>>,
             cur[Leader] # Nobody => at[Leader] =< at'[Leader] /\ pc'[Leader] = "send"
      PROVE  Continues
  BY <1>1, LeavingClients DEF Continues
<1>2. CASE Start(m) \/ MeshJoin(m) \/ MeshSkip(m) \/ MeshWait(m) \/ MeshAccept(m)
  <2>1. /\ UNCHANGED <<cur, clientQ>> /\ pc[m] # "send"
        /\ \E x : at' = [at EXCEPT ![m] = x]
        /\ \E x : pc' = [pc EXCEPT ![m] = x]
    <3>1. at = [at EXCEPT ![m] = at[m]] /\ pc = [pc EXCEPT ![m] = pc[m]]
      BY <1>a
    <3>2. CASE Start(m)
      BY <3>2 DEF Start, Goto
    <3>3. CASE MeshJoin(m)
      BY <3>1, <3>3 DEF MeshJoin
    <3>4. CASE MeshSkip(m)
      BY <3>1, <3>4 DEF MeshSkip, Skip, netVars
    <3>5. CASE MeshWait(m)
      BY <3>1, <3>5 DEF MeshWait, Goto, netVars
    <3>6. CASE MeshAccept(m)
      BY <3>1, <3>6 DEF MeshAccept, Goto
    <3> QED
      BY <1>2, <3>2, <3>3, <3>4, <3>5, <3>6
  <2>2. CASE m = Leader
    BY <1>1, <1>b, <2>1, <2>2
  <2>3. CASE m # Leader
    BY <1>1, <1>a, <1>b, <2>1, <2>3
  <2> QED
    BY <2>2, <2>3
<1>3. CASE OpenClientPort(m) \/ FollowerApply(m) \/ FollowerIgnore(m)
  BY <1>1, <1>a, <1>b, <1>3 DEF OpenClientPort, FollowerApply, FollowerIgnore, serverVars
<1>4. CASE LeaderSend \/ LeaderSkip
  <2>1. /\ UNCHANGED <<cur, clientQ, pc>> /\ pc[Leader] = "send"
        /\ at' = [at EXCEPT ![Leader] = at[Leader] + 1]
    BY <1>4 DEF LeaderSend, LeaderSkip, Skip, netVars
  <2> QED
    BY <1>1, <1>a, <2>1
<1>5. CASE LeaderCommit
  <2>1. cur' = [cur EXCEPT ![Leader] = Nobody] /\ clientQ' = clientQ
    BY <1>5 DEF LeaderCommit
  <2> QED
    BY <1>a, <2>1, LeavingClients DEF Continues
<1>6. ASSUME UNCHANGED <<cur, at, pc>>, clientQ[m] # <<>>, clientQ' = [clientQ EXCEPT ![m] = Tail(clientQ[m])]
      PROVE  Continues
  <2>1. ClientsLeave
    BY <1>a, <1>6, LeavingClients
  <2> QED
    BY <1>a, <1>b, <1>6, <2>1 DEF Continues
<1>7. CASE LeaderGet
  <2>1. /\ UNCHANGED <<cur, at, pc>> /\ clientQ[Leader] # <<>>
        /\ clientQ' = [clientQ EXCEPT ![Leader] = Tail(clientQ[Leader])]
    BY <1>7 DEF LeaderGet, AcceptClient
  <2>2. ClientsLeave
    BY <1>a, <2>1, LeavingClients
  <2> QED
    BY <1>a, <1>b, <2>1, <2>2 DEF Continues
<1>8. CASE ThreadGet(m) \/ ThreadDiscard(m)
  BY <1>6, <1>8 DEF ThreadGet, ThreadDiscard, AcceptClient
<1>9. CASE OutOfDescriptors(m)
  <2>1. /\ UNCHANGED <<cur, clientQ, at>>
        /\ pc' = pc \/ (pc[m] # "send" /\ pc' = [pc EXCEPT ![m] = "hung"])
    BY <1>9 DEF OutOfDescriptors, AcceptsPeers, AcceptsClients, Serving, ThreadRuns, Goto, netVars
  <2> QED
    BY <1>1, <1>a, <1>b, <2>1
<1>10. CASE Aborts(m) \/ Crash(m) \/ CrashInSend(m)
  <2>1. /\ pc' = [pc EXCEPT ![m] = "off"] /\ cur' = [cur EXCEPT ![m] = Nobody]
        /\ clientQ' = [clientQ EXCEPT ![m] = <<>>] /\ at' = at
    BY <1>10 DEF Aborts, Crash, CrashInSend, Dies, Vanish, Goto
  <2>2. ClientsLeave
    BY <1>a, <2>1, LeavingClients
  <2>3. cur'[Leader] \in {Nobody, cur[Leader]}
    BY <1>a, <2>1
  <2>4. cur'[Leader] # Nobody => m # Leader /\ cur'[Leader] = cur[Leader]
    BY <1>a, <2>1
  <2> QED
    BY <1>a, <1>b, <2>1, <2>2, <2>3, <2>4 DEF Continues
<1> QED
  BY <1>2, <1>3, <1>4, <1>5, <1>7, <1>8, <1>9, <1>10

\* Then the log stays as it is.
LEMMA ContinueKeeps ==
    ASSUME TypeInv, TypeInv', CurLast, AskedOnce, History, Continues, UNCHANGED cpc
    PROVE  log' = log /\ CurLast' /\ AskedOnce'
<1>1. log' = log
  BY DEF History, Continues
<1>2. CurLast'
  BY <1>1 DEF CurLast, Continues
<1>3. AskedOnce'
  <2>1. PICK k \in Nat : \A i \in DOMAIN clientQ'[Leader] :
           i + k \in DOMAIN clientQ[Leader] /\ clientQ[Leader][i + k] = clientQ'[Leader][i]
    BY DEF Continues, ClientsLeave
  <2>2. \A c \in Clients : In(log, c)' => cpc'[c] # "start"
    BY <1>1 DEF AskedOnce, In
  <2>3. \A i \in DOMAIN clientQ'[Leader] :
           cpc'[clientQ'[Leader][i].from] # "start" /\ ~In(log', clientQ'[Leader][i].from)
    BY <1>1, <2>1 DEF AskedOnce
  <2>4. ASSUME NEW i \in DOMAIN clientQ'[Leader], NEW j \in DOMAIN clientQ'[Leader],
               clientQ'[Leader][i].from = clientQ'[Leader][j].from
        PROVE  i = j
    <3>1. i + k = j + k
      BY <2>1, <2>4 DEF AskedOnce
    <3>2. i \in Int /\ j \in Int
      BY NodesInt DEF TypeInv, QueueTypes
    <3> QED
      BY <3>1, <3>2
  <2> QED
    BY <2>2, <2>3, <2>4 DEF AskedOnce, In
<1> QED
  BY <1>1, <1>2, <1>3

-----------------------------------------------------------------------------
(* The steps keep the order. *)

LEMMA QuietHistory ==
    ASSUME History, NEW n \in Nodes, ~Applies(n)
    PROVE  applied'[n] = applied[n]
BY DEF History

LEMMA ContinueOrder ==
    ASSUME TypeInv, TypeInv', OrderInv, History, UNCHANGED cpc, Continues,
           \A n \in Followers : Quiet(n)
    PROVE  OrderInv'
<1>1. log' = log /\ CurLast' /\ AskedOnce'
  BY ContinueKeeps DEF OrderInv
<1>2. ASSUME NEW n \in Followers PROVE NodeInv(n)'
  <2>1. n \in Nodes /\ Loses(n) /\ NodeInv(n)
    BY DEF Followers, Quiet, OrderInv
  <2>2. applied'[n] = applied[n]
    BY <2>1, QuietHistory DEF Quiet
  <2>3. cur'[Leader] \in Clients \cup {Nobody}
    BY NodesInt DEF TypeInv, ServerTypeOK
  <2>4. cur'[Leader] # Nobody /\ at'[Leader] =< n => cur'[Leader] = cur[Leader] /\ at[Leader] =< n
    <3>1. at[Leader] \in Int /\ at'[Leader] \in Int /\ n \in Int
      BY NodesInt, <2>1 DEF TypeInv, ServerTypeOK
    <3> QED
      BY <3>1 DEF Continues
  <2>5. /\ \A c, d \in Clients : Before(log, c, d) => Before(log', c, d)
        /\ \A c \in Clients : In(log, c) => In(log', c)
    BY <1>1
  <2> QED
    BY <2>1, <2>2, <2>3, <2>4, <2>5, QuietKeeps
<1> QED
  BY <1>1, <1>2 DEF OrderInv, Followers

\* What an entry x at the end of the sequence s changes.
Extended(s, x, t) ==
    /\ \A c, d \in Clients : Before(s, c, d) => Before(t, c, d)
    /\ \A c \in Clients : In(s, c) => In(t, c) /\ Before(t, c, x)
    /\ \A c \in Clients : In(t, c) => In(s, c) \/ c = x
    /\ \A c, d \in Clients : Before(t, c, d) => Before(s, c, d) \/ (In(s, c) /\ d = x)
    /\ In(t, x) /\ t # <<>> /\ t[Len(t)] = x

LEMMA AppendOrder ==
    ASSUME NEW s \in Seq(Clients), NEW x \in Clients
    PROVE  Extended(s, x, Append(s, x))
<1> DEFINE t == Append(s, x)
<1>1. /\ Len(s) \in Nat /\ DOMAIN s = 1..Len(s) /\ DOMAIN t = 1..(Len(s) + 1) /\ Len(t) = Len(s) + 1
      /\ t[Len(s) + 1] = x /\ \A i \in 1..Len(s) : t[i] = s[i]
  OBVIOUS
<1> HIDE DEF t
<1>2. \A c, d \in Clients : Before(s, c, d) => Before(t, c, d)
  BY <1>1 DEF Before
<1>3. In(t, x) /\ t # <<>> /\ t[Len(t)] = x
  BY <1>1 DEF In
<1>4. ASSUME NEW c \in Clients, In(s, c) PROVE In(t, c) /\ Before(t, c, x)
  <2>1. PICK i \in DOMAIN s : s[i] = c
    BY <1>4 DEF In
  <2>2. i \in DOMAIN t /\ Len(s) + 1 \in DOMAIN t /\ i < Len(s) + 1 /\ t[i] = c
    BY <1>1, <2>1
  <2> QED
    BY <1>1, <2>2 DEF In, Before
<1>5. \A c \in Clients : In(t, c) => In(s, c) \/ c = x
  BY <1>1 DEF In
<1>6. ASSUME NEW c \in Clients, NEW d \in Clients, Before(t, c, d)
      PROVE  Before(s, c, d) \/ (In(s, c) /\ d = x)
  <2>1. PICK i, j \in DOMAIN t : i < j /\ t[i] = c /\ t[j] = d
    BY <1>6 DEF Before
  <2>2. i \in DOMAIN s /\ s[i] = c
    BY <1>1, <2>1
  <2>3. CASE j = Len(s) + 1
    BY <1>1, <2>1, <2>2, <2>3 DEF In
  <2>4. CASE j # Len(s) + 1
    <3>1. j \in DOMAIN s /\ s[j] = d
      BY <1>1, <2>1, <2>4
    <3> QED
      BY <2>1, <2>2, <3>1 DEF Before
  <2> QED
    BY <2>3, <2>4
<1> QED
  BY <1>2, <1>3, <1>4, <1>5, <1>6 DEF Extended, t

\* The leader takes a PUT, which joins the log.
LEMMA BeginOrder ==
    ASSUME TypeInv, TypeInv', OrderInv, History, UNCHANGED cpc, LeaderBegin
    PROVE  OrderInv'
<1> DEFINE c == Head(clientQ[Leader]).from
<1>a. Leader \in Nodes /\ clientQ[Leader] \in Seq(ClientMsg) /\ log \in Seq(Clients)
      /\ cur \in [Nodes -> Clients \cup {Nobody}] /\ Nobody \notin Clients
      /\ pc \in [Nodes -> {"off", "connect", "accept", "serve", "send", "hung"}]
  BY NodesInt, NetAssumption DEF TypeInv, QueueTypes, ServerTypeOK, HistoryTypes, NetAssumption
<1>b. clientQ \in [Nodes -> Seq(ClientMsg)]
  BY DEF TypeInv, QueueTypes
<1>1. /\ pc[Leader] = "serve" /\ clientQ[Leader] # <<>>
      /\ clientQ'[Leader] = Tail(clientQ[Leader])
      /\ cur'[Leader] = c /\ pc'[Leader] = "send"
  BY <1>a, <1>b DEF LeaderBegin, AcceptClient, Goto
<1>2. c \in Clients
  <2>1. Head(clientQ[Leader]) \in ClientMsg
    BY <1>a, <1>1
  <2> QED
    BY <2>1 DEF ClientMsg
<1>3. 1 \in DOMAIN clientQ[Leader] /\ c = clientQ[Leader][1].from
  BY <1>a, <1>1
<1>4. ~In(log, c) /\ cpc[c] # "start"
  BY <1>3 DEF OrderInv, AskedOnce
<1>5. cur[Leader] = Nobody
  BY <1>1 DEF OrderInv, CurLast
<1> HIDE DEF c
<1>6. log' = Append(log, c)
  BY <1>a, <1>1, <1>2, <1>5 DEF History
<1>6a. /\ \A d, e \in Clients : Before(log, d, e) => Before(log', d, e)
       /\ \A d \in Clients : In(log, d) => In(log', d)
       /\ \A d \in Clients : In(log', d) => In(log, d) \/ d = c
       /\ log' # <<>> /\ log'[Len(log')] = c
  <2>1. Extended(log, c, log')
    BY <1>a, <1>2, <1>6, AppendOrder
  <2> QED
    BY <2>1 DEF Extended
<1>7. CurLast'
  BY <1>1, <1>6a DEF CurLast
<1>8. \A i \in DOMAIN clientQ'[Leader] :
         /\ i + 1 \in DOMAIN clientQ[Leader] /\ clientQ[Leader][i + 1] = clientQ'[Leader][i]
         /\ i \in Nat /\ i + 1 # 1 /\ clientQ'[Leader][i].from \in Clients
  <2>1. \A i \in DOMAIN Tail(clientQ[Leader]) :
           /\ i + 1 \in DOMAIN clientQ[Leader] /\ clientQ[Leader][i + 1] = Tail(clientQ[Leader])[i]
           /\ i \in Nat /\ i + 1 # 1
    BY <1>a, <1>1
  <2>2. \A i \in DOMAIN clientQ[Leader] : clientQ[Leader][i].from \in Clients
    <3>1. \A i \in DOMAIN clientQ[Leader] : clientQ[Leader][i] \in ClientMsg
      BY <1>a
    <3> QED
      BY <3>1 DEF ClientMsg
  <2> QED
    BY <1>1, <2>1, <2>2
<1>9. AskedOnce'
  <2>1. \A d \in Clients : In(log', d) => cpc'[d] # "start"
    BY <1>2, <1>4, <1>6a DEF OrderInv, AskedOnce
  <2>2. ASSUME NEW i \in DOMAIN clientQ'[Leader]
        PROVE  cpc'[clientQ'[Leader][i].from] # "start" /\ ~In(log', clientQ'[Leader][i].from)
    <3>1. /\ cpc[clientQ'[Leader][i].from] # "start" /\ ~In(log, clientQ'[Leader][i].from)
          /\ clientQ'[Leader][i].from # c
      BY <1>3, <1>8 DEF OrderInv, AskedOnce
    <3>2. clientQ'[Leader][i].from \in Clients
      BY <1>8
    <3> QED
      BY <1>6a, <3>1, <3>2
  <2>3. ASSUME NEW i \in DOMAIN clientQ'[Leader], NEW j \in DOMAIN clientQ'[Leader],
               clientQ'[Leader][i].from = clientQ'[Leader][j].from
        PROVE  i = j
    <3>1. i + 1 = j + 1
      BY <1>8, <2>3 DEF OrderInv, AskedOnce
    <3> QED
      BY <1>8, <3>1
  <2> QED
    BY <2>1, <2>2, <2>3 DEF AskedOnce, In
<1>10. ASSUME NEW n \in Followers PROVE NodeInv(n)'
  <2>1. n \in Nodes /\ NodeInv(n)
    BY DEF Followers, OrderInv
  <2>2. Quiet(n)
    BY <1>a, QuietSteps
  <2>3. Loses(n) /\ applied'[n] = applied[n]
    BY <2>1, <2>2, QuietHistory DEF Quiet
  <2>4. /\ \A d, e \in Clients : Before(log, d, e) => Before(log', d, e)
        /\ \A d \in Clients : In(log, d) => In(log', d)
    BY <1>6a
  <2>5. cur'[Leader] \in Clients \cup {Nobody} /\ ~In(log, cur'[Leader])
    BY <1>1, <1>2, <1>4
  <2> QED
    BY <2>1, <2>3, <2>4, <2>5, QuietKeeps
<1> QED
  BY <1>7, <1>9, <1>10 DEF OrderInv, Followers

\* A follower that a step does not reach while the leader only goes on.
LEMMA OtherFollower ==
    ASSUME TypeInv, TypeInv', OrderInv, History, NEW n \in Followers, peerQ'[n] = peerQ[n],
           log' = log, cur'[Leader] = cur[Leader], at[Leader] =< at'[Leader]
    PROVE  NodeInv(n)'
<1>1. n \in Nodes /\ NodeInv(n)
  BY DEF Followers, OrderInv
<1>2. Loses(n) /\ applied'[n] = applied[n]
  BY <1>1, QuietSame, QuietHistory DEF Quiet
<1>3. at[Leader] \in Int /\ at'[Leader] \in Int /\ n \in Int /\ cur'[Leader] \in Clients \cup {Nobody}
  BY NodesInt, <1>1 DEF TypeInv, ServerTypeOK
<1>4. at'[Leader] =< n => at[Leader] =< n
  BY <1>3
<1>5. /\ \A c, d \in Clients : Before(log, c, d) => Before(log', c, d)
      /\ \A c \in Clients : In(log, c) => In(log', c)
  OBVIOUS
<1> QED
  BY <1>1, <1>2, <1>3, <1>4, <1>5, QuietKeeps

\* The leader sends its PUT, the last of the log, to a follower it sent it to
\* no more than any other.
LEMMA SendOrder ==
    ASSUME TypeInv, TypeInv', OrderInv, History, UNCHANGED cpc, LeaderSend
    PROVE  OrderInv'
<1>n. PICK n : n = at[Leader]
  OBVIOUS
<1>x. PICK x : x = cur[Leader]
  OBVIOUS
<1>1. Leader \in Nodes /\ Continues
  BY NodesInt, ContinueSteps DEF OrderInv
<1>2. log' = log /\ CurLast' /\ AskedOnce'
  BY <1>1, ContinueKeeps DEF OrderInv
<1>3. /\ pc[Leader] = "send" /\ n < N /\ n # Leader /\ at' = [at EXCEPT ![Leader] = n + 1]
      /\ peerQ' = [peerQ EXCEPT ![n] = Append(peerQ[n], AppendEntry(x))] /\ cur' = cur
  BY <1>n, <1>x DEF LeaderSend, Tell
<1>4. /\ at \in [Nodes -> 0..N] /\ peerQ \in [Nodes -> Seq(Entry)] /\ N \in Nat
      /\ Nobody \notin Clients /\ log \in Seq(Clients)
  BY NetAssumption DEF TypeInv, ServerTypeOK, QueueTypes, NetAssumption, HistoryTypes
<1>5. n \in Nat /\ at'[Leader] = n + 1 /\ n \in Followers
  BY <1>n, <1>1, <1>3, <1>4 DEF Nodes, Followers
<1>6. x \in Clients /\ AppendEntry(x) \in Entry
  BY <1>x, <1>1, <1>3, EntryTypes DEF TypeInv, Forwarding
<1>7. log # <<>> /\ log[Len(log)] = x
  BY <1>x, <1>4, <1>6 DEF OrderInv, CurLast
<1>8. In(log, x) /\ \A d \in Clients : In(log, d) /\ d # x => Before(log, d, x)
  <2>1. Len(log) \in DOMAIN log /\ \A i \in DOMAIN log : i # Len(log) => i < Len(log)
    BY <1>4, <1>7
  <2> QED
    BY <1>7, <2>1 DEF In, Before
<1>9. NodeInv(n) /\ ~Sent(n, x)
  <2>1. at[Leader] =< n /\ cur[Leader] # Nobody
    BY <1>n, <1>x, <1>4, <1>5, <1>6
  <2> QED
    BY <1>x, <1>5, <2>1 DEF OrderInv, NodeInv
<1>10. n \in Nodes /\ peerQ[n] \in Seq(Entry) /\ peerQ'[n] = Append(peerQ[n], AppendEntry(x))
  BY <1>3, <1>4, <1>5 DEF Followers
<1>11. /\ Len(peerQ[n]) \in Nat /\ DOMAIN peerQ[n] = 1..Len(peerQ[n])
       /\ DOMAIN peerQ'[n] = 1..(Len(peerQ[n]) + 1) /\ Len(peerQ'[n]) = Len(peerQ[n]) + 1
       /\ peerQ'[n][Len(peerQ[n]) + 1] = AppendEntry(x)
       /\ \A i \in 1..Len(peerQ[n]) : peerQ'[n][i] = peerQ[n][i]
  BY <1>10
<1>12. applied'[n] = applied[n]
  BY <1>10, <1>11, QuietHistory DEF Applies
<1>13. \A c, d : AppendEntry(c) = AppendEntry(d) => c = d
  BY DEF AppendEntry
<1>14. \A c \in Clients : Underway(n, c)' => Underway(n, c) \/ c = x
  BY <1>11, <1>13 DEF Underway
<1>15. NodeInv(n)'
  <2>1. \A c, d \in Clients : Before(applied'[n], c, d) => Before(log', c, d)
    BY <1>2, <1>9, <1>12 DEF NodeInv, NodeInOrder
  <2>2. ASSUME NEW c \in Clients, NEW d \in Clients, In(applied'[n], c), Underway(n, d)'
        PROVE  Before(log', c, d)
    <3>1. In(applied[n], c)
      BY <1>12, <2>2
    <3>2. CASE Underway(n, d)
      BY <1>2, <1>9, <3>1, <3>2 DEF NodeInv, NodeInOrder
    <3>3. CASE d = x
      <4>1. c # x /\ In(log, c)
        BY <1>9, <3>1 DEF NodeInv, Sent
      <4> QED
        BY <1>2, <1>8, <3>3, <4>1
    <3> QED
      BY <1>14, <2>2, <3>2, <3>3
  <2>3. ASSUME NEW c \in Clients, NEW d \in Clients,
               NEW i \in DOMAIN peerQ'[n], NEW j \in DOMAIN peerQ'[n],
               i < j, peerQ'[n][i] = AppendEntry(c), peerQ'[n][j] = AppendEntry(d)
        PROVE  Before(log', c, d)
    <3>1. i \in DOMAIN peerQ[n] /\ peerQ[n][i] = AppendEntry(c)
      BY <1>11, <2>3
    <3>2. CASE j = Len(peerQ[n]) + 1
      <4>1. d = x
        BY <1>11, <1>13, <2>3, <3>2
      <4>2. Sent(n, c)
        BY <3>1 DEF Sent, Underway
      <4>3. c # x /\ In(log, c)
        BY <1>9, <4>2 DEF NodeInv
      <4> QED
        BY <1>2, <1>8, <4>1, <4>3
    <3>3. CASE j # Len(peerQ[n]) + 1
      <4>1. j \in DOMAIN peerQ[n] /\ peerQ[n][j] = AppendEntry(d)
        BY <1>11, <2>3, <3>3
      <4>2. Before(log, c, d)
        BY <1>9, <2>3, <3>1, <4>1 DEF NodeInv, NodeInOrder
      <4> QED
        BY <1>2, <4>2
    <3> QED
      BY <3>2, <3>3
  <2>4. NodeInOrder(n)'
    BY <2>1, <2>2, <2>3 DEF NodeInOrder, Underway
  <2>5. ASSUME NEW c \in Clients, Sent(n, c)' PROVE In(log', c)
    <3>1. In(applied'[n], c) \/ Underway(n, c)'
      BY <2>5 DEF Sent, Underway
    <3> QED
      BY <1>2, <1>8, <1>9, <1>12, <1>14, <3>1 DEF NodeInv, Sent
  <2>6. ~(at'[Leader] =< n)
    BY <1>5
  <2> QED
    BY <2>4, <2>5, <2>6 DEF NodeInv, NodeInOrder, Sent, Underway
<1>16. ASSUME NEW m \in Followers, m # n PROVE NodeInv(m)'
  <2>1. peerQ'[m] = peerQ[m]
    BY <1>3, <1>4, <1>16 DEF Followers
  <2>2. at[Leader] =< at'[Leader] /\ cur'[Leader] = cur[Leader]
    BY <1>n, <1>3, <1>5
  <2> QED
    BY <1>2, <2>1, <2>2, OtherFollower
<1> QED
  BY <1>2, <1>15, <1>16 DEF OrderInv, Followers

\* A follower stores the oldest entry of its queue.
LEMMA ApplyOrder ==
    ASSUME TypeInv, TypeInv', OrderInv, History, UNCHANGED cpc, NEW n \in Nodes, FollowerApply(n)
    PROVE  OrderInv'
<1>1. Continues
  BY ContinueSteps DEF OrderInv
<1>2. log' = log /\ CurLast' /\ AskedOnce'
  BY <1>1, ContinueKeeps DEF OrderInv
<1>3. /\ Serving(n) /\ peerQ[n] # <<>> /\ Head(peerQ[n]).type = "APPEND"
      /\ peerQ' = [peerQ EXCEPT ![n] = Tail(peerQ[n])] /\ UNCHANGED <<pc, at, cur>>
  BY DEF FollowerApply, AcceptPeer
<1>4. /\ peerQ \in [Nodes -> Seq(Entry)] /\ applied \in [Nodes -> Seq(Clients)]
      /\ at \in [Nodes -> 0..N] /\ Leader \in Nodes
  BY NodesInt DEF TypeInv, QueueTypes, HistoryTypes, ServerTypeOK
<1>5. n \in Followers /\ NodeInv(n)
  BY <1>3 DEF Serving, Followers, OrderInv
<1>6. peerQ[n] \in Seq(Entry) /\ peerQ'[n] = Tail(peerQ[n])
  BY <1>3, <1>4
<1>7. PICK c \in Clients : peerQ[n][1] = AppendEntry(c) /\ Head(peerQ[n]).put = c
  <2>1. Head(peerQ[n]) = peerQ[n][1] /\ peerQ[n][1] \in Entry
    BY <1>3, <1>6
  <2>2. peerQ[n][1].put \in Clients /\ peerQ[n][1] = AppendEntry(peerQ[n][1].put)
    BY <1>3, <2>1 DEF Entry, PeerMsg, AppendEntry
  <2> QED
    BY <2>1, <2>2
<1>8. /\ 1 \in DOMAIN peerQ[n] /\ Len(peerQ'[n]) < Len(peerQ[n])
      /\ \A i \in DOMAIN peerQ'[n] :
            /\ i \in Int /\ i + 1 \in DOMAIN peerQ[n] /\ 1 < i + 1
            /\ peerQ[n][i + 1] = peerQ'[n][i]
  <2>1. /\ 1 \in DOMAIN peerQ[n] /\ Len(Tail(peerQ[n])) < Len(peerQ[n])
        /\ \A i \in DOMAIN Tail(peerQ[n]) :
              /\ i \in Int /\ i + 1 \in DOMAIN peerQ[n] /\ 1 < i + 1
              /\ peerQ[n][i + 1] = Tail(peerQ[n])[i]
    BY <1>3, <1>6
  <2> QED
    BY <1>6, <2>1
<1>9. Applies(n)
  BY <1>3, <1>8 DEF Applies, Follows, Serving
<1>10. Extended(applied[n], c, applied'[n])
  <2>1. applied'[n] = Append(applied[n], c)
    BY <1>7, <1>9 DEF History
  <2> QED
    BY <1>4, <2>1, AppendOrder
<1>11. Underway(n, c)
  BY <1>7, <1>8 DEF Underway
<1>12. ASSUME NEW d \in Clients, Underway(n, d)'
       PROVE  Underway(n, d) /\ Before(log, c, d)
  <2>1. PICK i \in DOMAIN peerQ'[n] : peerQ'[n][i] = AppendEntry(d)
    BY <1>12 DEF Underway
  <2>2. i + 1 \in DOMAIN peerQ[n] /\ 1 < i + 1 /\ peerQ[n][i + 1] = AppendEntry(d)
    BY <1>8, <2>1
  <2> QED
    BY <1>5, <1>7, <1>8, <2>2 DEF Underway, NodeInv, NodeInOrder
<1>13. NodeInv(n)'
  <2>1. ASSUME NEW d \in Clients, NEW e \in Clients, Before(applied'[n], d, e)
        PROVE  Before(log', d, e)
    <3>1. Before(applied[n], d, e) \/ (In(applied[n], d) /\ e = c)
      BY <1>10, <2>1 DEF Extended
    <3> QED
      BY <1>2, <1>5, <1>11, <3>1 DEF NodeInv, NodeInOrder
  <2>2. ASSUME NEW d \in Clients, NEW e \in Clients, In(applied'[n], d), Underway(n, e)'
        PROVE  Before(log', d, e)
    <3>1. In(applied[n], d) \/ d = c
      BY <1>10, <2>2 DEF Extended
    <3> QED
      BY <1>2, <1>5, <1>12, <2>2, <3>1 DEF NodeInv, NodeInOrder
  <2>3. ASSUME NEW d \in Clients, NEW e \in Clients,
               NEW i \in DOMAIN peerQ'[n], NEW j \in DOMAIN peerQ'[n],
               i < j, peerQ'[n][i] = AppendEntry(d), peerQ'[n][j] = AppendEntry(e)
        PROVE  Before(log', d, e)
    <3>1. /\ i + 1 \in DOMAIN peerQ[n] /\ peerQ[n][i + 1] = AppendEntry(d)
          /\ j + 1 \in DOMAIN peerQ[n] /\ peerQ[n][j + 1] = AppendEntry(e)
          /\ i + 1 < j + 1
      BY <1>8, <2>3
    <3> QED
      BY <1>2, <1>5, <3>1 DEF NodeInv, NodeInOrder
  <2>4. NodeInOrder(n)'
    BY <2>1, <2>2, <2>3 DEF NodeInOrder, Underway
  <2>5. ASSUME NEW d \in Clients, Sent(n, d)' PROVE Sent(n, d)
    <3>1. In(applied'[n], d) \/ Underway(n, d)'
      BY <2>5 DEF Sent, Underway
    <3>2. In(applied[n], d) \/ d = c \/ Underway(n, d)
      BY <1>10, <1>12, <3>1 DEF Extended
    <3> QED
      BY <1>11, <3>2 DEF Sent
  <2>6. \A d \in Clients : Sent(n, d)' => In(log', d)
    BY <1>2, <1>5, <2>5 DEF NodeInv
  <2>7. \A d \in Clients : cur'[Leader] = d /\ at'[Leader] =< n => ~Sent(n, d)'
    BY <1>3, <1>5, <2>5, NetAssumption DEF NodeInv, NetAssumption
  <2>8. cur'[Leader] \in Clients \cup {Nobody}
    BY <1>4 DEF TypeInv, ServerTypeOK
  <2> QED
    BY <2>4, <2>6, <2>7, <2>8 DEF NodeInv, NodeInOrder, Sent, Underway
<1>14. ASSUME NEW m \in Followers, m # n PROVE NodeInv(m)'
  <2>1. peerQ'[m] = peerQ[m]
    BY <1>3, <1>4, <1>14 DEF Followers
  <2>2. at[Leader] =< at'[Leader] /\ cur'[Leader] = cur[Leader]
    BY <1>3, <1>4
  <2> QED
    BY <1>2, <2>1, <2>2, OtherFollower
<1> QED
  BY <1>2, <1>13, <1>14 DEF OrderInv, Followers

\* A client that connects to the leader is in its log only if it did so before.
LEMMA ClientOrder ==
    ASSUME TypeInv, TypeInv', OrderInv, History, ClientNext, UNCHANGED serverVars
    PROVE  OrderInv'
<1>1. UNCHANGED <<peerQ, cur, at, pc, log>> /\ op' = op
  BY DEF ClientNext, ClientStep, ClientCalls, ClientRefused, ClientKilled, ClientExits,
         ClientAborts, netVars, serverVars, History
<1>2. /\ Leader \in Nodes /\ clientQ \in [Nodes -> Seq(ClientMsg)] /\ at[Leader] =< at[Leader]
      /\ cpc \in [Clients -> {"start", "waiting", "done", "stuck", "aborted", "killed"}]
  BY NodesInt DEF TypeInv, QueueTypes, ClientTypeOK, ServerTypeOK
<1>3. \A n \in Followers : NodeInv(n)'
  BY <1>1, <1>2, OtherFollower
<1>4. CurLast'
  BY <1>1 DEF OrderInv, CurLast
<1>5. PICK c \in Clients : ClientStep(c) \/ ClientKilled(c)
  BY DEF ClientNext
<1>6. \A d \in Clients : cpc[d] # "start" => cpc'[d] # "start"
  BY <1>2, <1>5 DEF ClientStep, ClientCalls, ClientRefused, ClientKilled, ClientExits, ClientAborts
<1>7. \A d \in Clients : In(log, d)' => cpc'[d] # "start"
  BY <1>1, <1>6 DEF OrderInv, AskedOnce, In
<1>8. \A i \in DOMAIN clientQ[Leader] : clientQ[Leader][i].from \in Clients
  <2>1. \A i \in DOMAIN clientQ[Leader] : clientQ[Leader][i] \in ClientMsg
    BY <1>2
  <2> QED
    BY <2>1 DEF ClientMsg
<1>9. ASSUME clientQ'[Leader] = clientQ[Leader] PROVE AskedOnce'
  BY <1>1, <1>6, <1>7, <1>8, <1>9 DEF OrderInv, AskedOnce, In
<1>10. ASSUME clientQ'[Leader] # clientQ[Leader] PROVE AskedOnce'
  <2>1. PICK t : /\ cpc[c] = "start" /\ cpc'[c] # "start"
                 /\ clientQ' = [clientQ EXCEPT ![op[c].node] =
                                  Append(clientQ[op[c].node], [type |-> t, from |-> c])]
    BY <1>2, <1>5, <1>10
       DEF ClientStep, ClientCalls, ClientRefused, ClientKilled, ClientExits, ClientAborts, Call, netVars
  <2>2. clientQ'[Leader] = Append(clientQ[Leader], [type |-> t, from |-> c])
    BY <1>2, <1>10, <2>1
  <2>3. /\ Len(clientQ[Leader]) \in Nat /\ DOMAIN clientQ[Leader] = 1..Len(clientQ[Leader])
        /\ DOMAIN clientQ'[Leader] = 1..(Len(clientQ[Leader]) + 1)
        /\ clientQ'[Leader][Len(clientQ[Leader]) + 1].from = c
        /\ \A i \in 1..Len(clientQ[Leader]) : clientQ'[Leader][i] = clientQ[Leader][i]
    BY <1>2, <2>2
  <2>4. ~In(log, c) /\ \A i \in DOMAIN clientQ[Leader] : clientQ[Leader][i].from # c
    BY <2>1 DEF OrderInv, AskedOnce
  <2>5. \A i \in DOMAIN clientQ'[Leader] :
           cpc'[clientQ'[Leader][i].from] # "start" /\ ~In(log', clientQ'[Leader][i].from)
    <3>1. ASSUME NEW i \in DOMAIN clientQ[Leader]
          PROVE  cpc'[clientQ[Leader][i].from] # "start" /\ ~In(log', clientQ[Leader][i].from)
      BY <1>1, <1>6, <1>8 DEF OrderInv, AskedOnce
    <3> QED
      BY <1>1, <2>1, <2>3, <2>4, <3>1
  <2>6. ASSUME NEW i \in DOMAIN clientQ'[Leader], NEW j \in DOMAIN clientQ'[Leader],
               clientQ'[Leader][i].from = clientQ'[Leader][j].from
        PROVE  i = j
    <3>1. DOMAIN clientQ'[Leader] = DOMAIN clientQ[Leader] \cup {Len(clientQ[Leader]) + 1}
      BY <2>3
    <3>2. \A a \in DOMAIN clientQ[Leader] :
            clientQ'[Leader][a].from = clientQ[Leader][a].from /\ clientQ[Leader][a].from # c
      BY <2>3, <2>4
    <3>3. CASE i \in DOMAIN clientQ[Leader] /\ j \in DOMAIN clientQ[Leader]
      BY <2>6, <3>2, <3>3 DEF OrderInv, AskedOnce
    <3> QED
      BY <2>3, <2>6, <3>1, <3>2, <3>3
  <2> QED
    BY <1>7, <2>5, <2>6 DEF AskedOnce
<1> QED
  BY <1>3, <1>4, <1>9, <1>10 DEF OrderInv, Followers, AskedOnce

-----------------------------------------------------------------------------

LEMMA InitOrder == Init => OrderInv
<1> SUFFICES ASSUME Init PROVE OrderInv
  OBVIOUS
<1>1. log = <<>> /\ DOMAIN log = {} /\ Leader \in Nodes
  BY NodesInt DEF Init
<1>2. cur[Leader] = Nobody /\ clientQ[Leader] = <<>> /\ DOMAIN clientQ[Leader] = {}
  BY <1>1 DEF Init
<1>3. ASSUME NEW n \in Followers
      PROVE  applied[n] = <<>> /\ DOMAIN applied[n] = {} /\ peerQ[n] = <<>> /\ DOMAIN peerQ[n] = {}
  BY DEF Init, Followers
<1>4. \A n \in Followers : NodeInv(n)
  BY <1>2, <1>3 DEF NodeInv, NodeInOrder, Sent, In, Underway, Before
<1>5. CurLast /\ AskedOnce
  BY <1>1, <1>2 DEF CurLast, AskedOnce, In
<1> QED
  BY <1>4, <1>5 DEF OrderInv

LEMMA NextOrder == TypeInv /\ TypeInv' /\ OrderInv /\ [Next]_vars => OrderInv'
<1> SUFFICES ASSUME TypeInv, TypeInv', OrderInv, [Next]_vars PROVE OrderInv'
  OBVIOUS
<1>1. CASE UNCHANGED vars
  BY <1>1 DEF vars, netVars, serverVars, clientVars, historyVars, OrderInv, CurLast, AskedOnce,
              NodeInv, NodeInOrder, Sent, Underway, In, Before
<1>2. CASE ServerNext /\ UNCHANGED clientVars /\ History
  <2>1. UNCHANGED cpc
    BY <1>2 DEF clientVars
  <2>2. PICK m \in Nodes :
           \/ MainStep(m) \/ ThreadStep(m) \/ Fails(m) \/ Start(m) \/ Crash(m) \/ CrashInSend(m)
    BY <1>2 DEF ServerNext
  <2>3. CASE LeaderBegin
    BY <1>2, <2>1, <2>3, BeginOrder
  <2>4. CASE LeaderSend
    BY <1>2, <2>1, <2>4, SendOrder
  <2>5. CASE FollowerApply(m)
    BY <1>2, <2>1, <2>5, ApplyOrder
  <2>6. CASE \/ Start(m) \/ MeshJoin(m) \/ MeshSkip(m) \/ MeshWait(m) \/ MeshAccept(m)
             \/ OpenClientPort(m)
             \/ LeaderGet \/ LeaderSkip \/ LeaderCommit
             \/ FollowerIgnore(m) \/ ThreadGet(m) \/ ThreadDiscard(m)
             \/ OutOfDescriptors(m) \/ Aborts(m) \/ Crash(m) \/ CrashInSend(m)
    <3>1. \A n \in Followers : Quiet(n)
      BY <2>6, QuietSteps
    <3>2. Continues
      BY <2>6, ContinueSteps DEF OrderInv
    <3> QED
      BY <1>2, <2>1, <3>1, <3>2, ContinueOrder
  <2> QED
    BY <2>2, <2>3, <2>4, <2>5, <2>6 DEF MainStep, ThreadStep, Fails, LeaderStep
<1>3. CASE ClientNext /\ UNCHANGED serverVars /\ History
  BY <1>3, ClientOrder
<1> QED
  BY <1>1, <1>2, <1>3 DEF Next, Rest

\* What a follower stored, and what waits for it, is in the order in which the
\* leader took the PUTs (server.cpp, the loop over allPorts), through any
\* number of crashes, restarts, refused connections and exhausted descriptors.
THEOREM InOrderCorrect == Spec => []InOrder
<1>1. OrderInv => InOrder
  BY DEF OrderInv, InOrder, NodeInv, NodeInOrder, Followers
<1> QED
  BY <1>1, InitTypes, NextTypes, InitOrder, NextOrder, PTL DEF Spec
=============================================================================
