----------------------------- MODULE BenchClient -----------------------------
(* The benchmark client of task1: threads that replay a trace against the     *)
(* server, record their PUTs in one local map, and then verify that map: all  *)
(* through one iterator, which is a member of the map.                        *)
EXTENDS BenchNet, FiniteSets, Functions

CONSTANT NoNode   \* end() of the map

ASSUME BenchClientAssumption == NoNode \notin TraceKeys

VARIABLES
  nb_clients,   \* threads, operations of each, and the trace, as -c, -m and -t name them
  nb_messages,
  traces,
  cpc,        \* where a thread is
  place,      \* its iterator through the trace
  sent,       \* the requests it has sent
  local_kv,   \* what the threads have put, from keys to the last writer
  order,      \* its nodes, by key, as the iterator meets them
  it,         \* the iterator: a node, or NoNode
  held,       \* where it goes next, as a thread has read it
  kv,         \* the key that a thread verifies
  outcome     \* of the process: "running", "ok", "error" or "crash"

setupVars == <<nb_clients, nb_messages, traces>>
clientVars == <<setupVars, cpc, place, sent, local_kv, order, it, held, kv, outcome>>

Operation == [type : {"PUT", "GET"}, key : TraceKeys]

ClientTypeOK ==
  /\ nb_clients \in Nat \ {0} /\ nb_messages \in Nat /\ traces \in Seq(Operation) \ {<< >>}
  /\ cpc \in [Peers -> {"absent", "start", "init", "bind", "accept", "send", "ack", "check", "next",
                        "step", "advance", "verify", "verified"}]
  /\ place \in [Peers -> Nat] /\ sent \in [Peers -> 0..nb_messages]
  /\ DOMAIN local_kv \subseteq TraceKeys /\ Range(local_kv) \subseteq Peers
  /\ order \in [1..Cardinality(DOMAIN local_kv) -> TraceKeys]
  /\ it \in TraceKeys \cup {NoNode} /\ held \in [Peers -> TraceKeys \cup {NoNode}]
  /\ kv \in [Peers -> TraceKeys \cup {0}]
  /\ outcome \in {"running", "ok", "error", "crash"}

\* The operations that a thread has before the next one begins.
Step == Len(traces) \div nb_clients

ClientInit(clients, messages, trace) ==
  /\ nb_clients = clients /\ nb_messages = messages /\ traces = trace
  /\ cpc = [c \in Peers |-> IF c < clients THEN "start" ELSE "absent"]
  /\ place = [c \in Peers |-> Step * c + 1]
  /\ sent = [c \in Peers |-> 0]
  /\ local_kv = << >>
  /\ order = << >>
  /\ it = NoNode
  /\ held = [c \in Peers |-> NoNode]
  /\ kv = [c \in Peers |-> 0]
  /\ outcome = "running"

------------------------------------------------------------------------------
At(c, label) == outcome = "running" /\ cpc[c] = label

\* exit() in one thread, or a crash, closes the connections of all.
Exit(how) ==
  /\ outcome' = how
  /\ hung_up' = Peers
  /\ UNCHANGED <<server_alive, accept_queue, requests, replies, back>>
  /\ UNCHANGED <<setupVars, cpc, place, sent, local_kv, order, it, held, kv>>

\* connect() waits while the accept queue is full ...
ConnectToServer(c) ==
  /\ At(c, "start")
  /\ server_alive
  /\ Len(accept_queue) < Slots
  /\ accept_queue' = Append(accept_queue, c)
  /\ cpc' = [cpc EXCEPT ![c] = "init"]
  /\ UNCHANGED <<server_alive, requests, replies, back, hung_up>>
  /\ UNCHANGED <<setupVars, place, sent, local_kv, order, it, held, kv, outcome>>

\* ... or gives up after a while; when the server is gone it fails at once.
ConnectIssue(c) ==
  /\ At(c, "start")
  /\ ~(server_alive /\ Len(accept_queue) < Slots)
  /\ Exit("error")

\* A remainder by nb_clients - 1.
DividesByZero(c) == place[c] = Len(traces) /\ nb_clients = 1

\* Every send fails when the server is gone.
ServerGone(c) ==
  /\ outcome = "running"
  /\ \/ cpc[c] = "send" /\ sent[c] < nb_messages /\ ~DividesByZero(c)
     \/ cpc[c] = "advance" /\ kv[c] # 0
  /\ ~server_alive
  /\ Exit("error")

SendTo(c, type, k, v) ==
  requests' = [requests EXCEPT ![c] = Append(@, [type |-> type, key |-> k, value |-> v])]

\* The request names a port on which nobody listens yet.  Its send may fail,
\* which is not looked at.
SendInit(c) ==
  /\ At(c, "init")
  /\ SendTo(c, "INIT", 0, NoValue)
  /\ cpc' = [cpc EXCEPT ![c] = "bind"]
  /\ UNCHANGED <<server_alive, accept_queue, replies, back, hung_up>>
  /\ UNCHANGED <<setupVars, place, sent, local_kv, order, it, held, kv, outcome>>

\* bind and listen.
ListenForReplies(c) ==
  /\ At(c, "bind")
  /\ back' = [back EXCEPT ![c] = "listening"]
  /\ cpc' = [cpc EXCEPT ![c] = "accept"]
  /\ UNCHANGED <<server_alive, accept_queue, requests, replies, hung_up>>
  /\ UNCHANGED <<setupVars, place, sent, local_kv, order, it, held, kv, outcome>>

\* accept4 returns once the server has connected.
AcceptServer(c) ==
  /\ At(c, "accept")
  /\ back[c] = "connected"
  /\ cpc' = [cpc EXCEPT ![c] = "send"]
  /\ UNCHANGED netVars
  /\ UNCHANGED <<setupVars, place, sent, local_kv, order, it, held, kv, outcome>>

\* A new key may cause a rehash, which orders the nodes anew; they stay valid.
Inserted(k) ==
  IF k \in DOMAIN local_kv THEN {order}
  ELSE LET keys == DOMAIN local_kv \cup {k} IN Bijection(1..Cardinality(keys), keys)

\* get_operation_put records the value first, in the map of all threads.
Recorded(c, op) ==
  IF op.type = "PUT"
  THEN /\ local_kv' = [x \in DOMAIN local_kv \cup {op.key} |->
                         IF x = op.key THEN c ELSE local_kv[x]]
       /\ order' \in Inserted(op.key)
  ELSE UNCHANGED <<local_kv, order>>

\* get_operation moves the iterator: behind the last operation comes the first
\* one of some thread, never the last thread's.
Moved(c) ==
  IF place[c] < Len(traces) THEN {place[c] + 1}
  ELSE {Step * r + 1 : r \in 0..(nb_clients - 2)}

\* get_operation and sent_request, with the next operation of the trace.
SendOperation(c) ==
  /\ At(c, "send")
  /\ server_alive
  /\ sent[c] < nb_messages
  /\ place' \in {[place EXCEPT ![c] = p] : p \in Moved(c)}
  /\ LET op == traces[place[c]]
     IN Recorded(c, op) /\ SendTo(c, op.type, op.key, IF op.type = "PUT" THEN c ELSE NoValue)
  /\ sent' = [sent EXCEPT ![c] = @ + 1]
  /\ cpc' = [cpc EXCEPT ![c] = "ack"]
  /\ UNCHANGED <<server_alive, accept_queue, replies, back, hung_up>>
  /\ UNCHANGED <<setupVars, it, held, kv, outcome>>

CrashOnTrace(c) ==
  /\ At(c, "send")
  /\ sent[c] < nb_messages
  /\ DividesByZero(c)
  /\ Exit("crash")

\* recv_ack: any reply will do.
RecvAck(c) ==
  /\ At(c, "ack")
  /\ replies[c] # << >>
  /\ replies' = [replies EXCEPT ![c] = Tail(@)]
  /\ cpc' = [cpc EXCEPT ![c] = "send"]
  /\ UNCHANGED <<server_alive, accept_queue, requests, back, hung_up>>
  /\ UNCHANGED <<setupVars, place, sent, local_kv, order, it, held, kv, outcome>>

\* recv_ack at the end of the stream.
ReplyLost(c) ==
  /\ outcome = "running"
  /\ cpc[c] \in {"ack", "verify"}
  /\ replies[c] = << >> /\ ~server_alive
  /\ Exit("error")

------------------------------------------------------------------------------
\* The first node, and the one behind a node.
First == IF 1 \in DOMAIN order THEN order[1] ELSE NoNode
Successor(k) ==
  LET places == {i \in DOMAIN order : order[i] = k /\ i + 1 \in DOMAIN order}
  IN IF places = {} THEN NoNode ELSE order[(CHOOSE i \in places : TRUE) + 1]

\* Another thread is adding a node, and may have the nodes of the map unlinked.
Rehashing(c) ==
  \E d \in Peers \ {c} :
    /\ cpc[d] = "send" /\ sent[d] < nb_messages
    /\ LET op == traces[place[d]] IN op.type = "PUT" /\ op.key \notin DOMAIN local_kv

\* What a thread can read where the node n belongs: no lock is held.
ReadAs(c, n) == IF Rehashing(c) THEN DOMAIN local_kv \cup {NoNode} ELSE {n}

\* verify_all: init_it, while other threads may be putting or verifying.
InitIt(c) ==
  /\ At(c, "send")
  /\ sent[c] = nb_messages
  /\ it' \in ReadAs(c, First)
  /\ cpc' = [cpc EXCEPT ![c] = "check"]
  /\ UNCHANGED netVars /\ UNCHANGED <<setupVars, place, sent, local_kv, order, held, kv, outcome>>

\* The thread returns; its connection to the server is closed.
Verified(c) ==
  /\ cpc' = [cpc EXCEPT ![c] = "verified"]
  /\ hung_up' = hung_up \cup {c}
  /\ UNCHANGED <<server_alive, accept_queue, requests, replies, back>>

\* Seeded bug: get_next_key does not compare the iterator with the end.
CheckNothing(c) ==
  /\ At(c, "check")
  /\ cpc' = [cpc EXCEPT ![c] = "next"]
  /\ UNCHANGED netVars
  /\ UNCHANGED <<setupVars, place, sent, local_kv, order, it, held, kv, outcome>>

\* get_next_key compares the iterator with the end ...
CheckIt(c) ==
  /\ At(c, "check")
  /\ \/ it = NoNode /\ Verified(c)
     \/ it # NoNode /\ cpc' = [cpc EXCEPT ![c] = "next"] /\ UNCHANGED netVars
  /\ UNCHANGED <<setupVars, place, sent, local_kv, order, it, held, kv, outcome>>

\* ... reads it once more for the key there ...
ReadKey(c) ==
  /\ At(c, "next")
  /\ it # NoNode
  /\ kv' = [kv EXCEPT ![c] = it]
  /\ cpc' = [cpc EXCEPT ![c] = "step"]
  /\ UNCHANGED netVars /\ UNCHANGED <<setupVars, place, sent, local_kv, order, it, held, outcome>>

\* ... and again for the node behind it, which can be another node by now ...
ReadIt(c) ==
  /\ At(c, "step")
  /\ it # NoNode
  /\ held' \in {[held EXCEPT ![c] = n] : n \in ReadAs(c, Successor(it))}
  /\ cpc' = [cpc EXCEPT ![c] = "advance"]
  /\ UNCHANGED netVars /\ UNCHANGED <<setupVars, place, sent, local_kv, order, it, kv, outcome>>

\* Another thread has moved the iterator to the end since the comparison.
ReadAtEnd(c) ==
  /\ outcome = "running" /\ cpc[c] \in {"next", "step"}
  /\ it = NoNode
  /\ Exit("crash")

\* ... and stores it.  A key of 0 ends the loop over the keys; any other is
\* asked for.
Advance(c) ==
  /\ At(c, "advance")
  /\ server_alive \/ kv[c] = 0
  /\ it' = held[c]
  /\ \/ kv[c] = 0 /\ Verified(c)
     \/ /\ kv[c] # 0
        /\ SendTo(c, "GET", kv[c], NoValue)
        /\ cpc' = [cpc EXCEPT ![c] = "verify"]
        /\ UNCHANGED <<server_alive, accept_queue, replies, back, hung_up>>
  /\ held' = [held EXCEPT ![c] = NoNode]
  /\ UNCHANGED <<setupVars, place, sent, local_kv, order, kv, outcome>>

\* verify compares as many bytes as the reply has: none equal any value.
Matches(v, k) == v \in {NoValue, local_kv[k]}

Verify(c) ==
  /\ At(c, "verify")
  /\ replies[c] # << >>
  /\ Matches(Head(replies[c]), kv[c])
  /\ replies' = [replies EXCEPT ![c] = Tail(@)]
  /\ cpc' = [cpc EXCEPT ![c] = "check"]
  /\ UNCHANGED <<server_alive, accept_queue, requests, back, hung_up>>
  /\ UNCHANGED <<setupVars, place, sent, local_kv, order, it, held, kv, outcome>>

\* All threads have returned.
JoinThreads ==
  /\ outcome = "running"
  /\ \A c \in Peers : cpc[c] \in {"absent", "verified"}
  /\ outcome' = "ok"
  /\ UNCHANGED netVars /\ UNCHANGED <<setupVars, cpc, place, sent, local_kv, order, it, held, kv>>

ClientThread(c) ==
  \/ ConnectToServer(c) \/ ConnectIssue(c) \/ ServerGone(c) \/ SendInit(c)
  \/ ListenForReplies(c) \/ AcceptServer(c) \/ SendOperation(c) \/ CrashOnTrace(c)
  \/ RecvAck(c) \/ ReplyLost(c) \/ InitIt(c) \/ CheckIt(c) \/ ReadKey(c) \/ ReadIt(c)
  \/ ReadAtEnd(c) \/ Advance(c) \/ Verify(c)

=============================================================================
