------------------------------ MODULE ReplNet -------------------------------
(***************************************************************************)
(* The local TCP network of the replicated store (task3).  A server owns   *)
(* two listening sockets, one for the other servers and one for clients;   *)
(* a connection carries one request.  A request is known by the client     *)
(* whose command it is: the key and value an entry copies are those of its *)
(* command line.  connect() and the send behind it are one step, and a     *)
(* sender that dies in between leaves an "EOF" connection.  The accept     *)
(* queues are FIFO; listen(fd, 10) admits eleven connections on Linux.     *)
(***************************************************************************)
EXTENDS Integers, Sequences, FiniteSets

CONSTANTS
    N,        \* number of servers; their ids are 0 .. N - 1
    Leader,   \* the id started with --leader
    Clients,  \* the one-shot client processes
    Ops,      \* the command lines: records of type, node, key and value
    Keys, Values,
    None,     \* "no such key"
    Nobody,   \* no client
    Slots     \* capacity of an accept queue

Nodes == 0..(N - 1)

ASSUME NetAssumption ==
    /\ N \in Nat \ {0} /\ Leader \in Nodes
    /\ Ops \subseteq [type : {"PUT", "GET", "DIRECT_GET"}, node : Nodes,
                      key : Keys, value : Values \cup {None}]
    /\ \A o \in Ops : o.type = "PUT" => o.value \in Values
    /\ None \notin Values /\ Nobody \notin Clients
    /\ Slots \in Nat \ {0}

VARIABLES
    op,       \* the command line of each client
    up,       \* up[n]: n listens on its server port
    open,     \* open[n]: n listens on its client port
    peerQ,    \* connections the server port of n has not accepted
    clientQ,  \* connections the client port of n has not accepted
    inbox     \* what client c's pending secure_recv will return

netVars == <<op, up, open, peerQ, clientQ, inbox>>

\* A join names its sender; an append entry is the PUT of a client.
PeerMsg == [type : {"JOIN", "APPEND", "EOF"}, put : Clients \cup {Nobody}]
Join == [type |-> "JOIN", put |-> Nobody]
AppendEntry(c) == [type |-> "APPEND", put |-> c]
PeerEof == [type |-> "EOF", put |-> Nobody]

ClientMsg == [type : {"PUT", "GET", "DIRECT_GET", "EOF"}, from : Clients]

\* "closed" before the client connected, "open" while nothing was received.
Reply == [kind : {"closed", "open", "eof", "reply"}, status : {"NONE", "OK", "NO_KEY"},
          value : Values \cup {None}]
Closed == [kind |-> "closed", status |-> "NONE", value |-> None]
Waiting == [Closed EXCEPT !.kind = "open"]
Ended == [Closed EXCEPT !.kind = "eof"]
Answer(s, v) == [kind |-> "reply", status |-> s, value |-> v]

\* Seeded bug: The newest connection is accepted first.
TellFirst(n, m) == peerQ' = [peerQ EXCEPT ![n] = <<m>> \o @]

CanReach(n) == up[n] /\ Len(peerQ[n]) < Slots
Tell(n, m) == peerQ' = [peerQ EXCEPT ![n] = Append(@, m)]

\* n accepts the oldest connection on either port.
AcceptPeer(n, t) ==
    /\ peerQ[n] # <<>> /\ Head(peerQ[n]).type = t
    /\ peerQ' = [peerQ EXCEPT ![n] = Tail(@)]
AcceptClient(n, t) ==
    /\ clientQ[n] # <<>> /\ Head(clientQ[n]).type = t
    /\ clientQ' = [clientQ EXCEPT ![n] = Tail(@)]

Respond(c, r) == inbox' = IF inbox[c].kind = "open" THEN [inbox EXCEPT ![c] = r] ELSE inbox

\* A process that dies loses its queues and ends every connection a client
\* still has with it, the unanswered ones it accepted included.
Vanish(n) ==
    /\ up' = [up EXCEPT ![n] = FALSE]
    /\ open' = [open EXCEPT ![n] = FALSE]
    /\ clientQ' = [clientQ EXCEPT ![n] = <<>>]
    /\ inbox' = [c \in Clients |->
                    IF op[c].node = n /\ inbox[c].kind = "open" THEN Ended ELSE inbox[c]]
    /\ UNCHANGED op

NetTypeOK ==
    /\ op \in [Clients -> Ops]
    /\ up \in [Nodes -> BOOLEAN] /\ open \in [Nodes -> BOOLEAN]
    /\ peerQ \in [Nodes -> Seq(PeerMsg)]
    /\ clientQ \in [Nodes -> Seq(ClientMsg)]
    /\ inbox \in [Clients -> Reply]
=============================================================================
