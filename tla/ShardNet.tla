------------------------------ MODULE ShardNet ------------------------------
(***************************************************************************)
(* The local TCP network of the sharded store (task2): one listening       *)
(* socket per long-running process, the accept queue the kernel keeps for  *)
(* it, and the reply each one-shot client waits for.                       *)
(*                                                                         *)
(* A connection carries exactly one request.  connect() and the send that  *)
(* follows it are one step: the acceptor blocks in secure_recv between     *)
(* the two, so the only visible difference is a peer that dies in between, *)
(* which is the "EOF" request.  The accept queue is FIFO and holds Slots   *)
(* connections (listen(fd, 3) admits four on Linux).  connect() fails at   *)
(* once when nobody listens.  On a full queue it waits for room, or fails  *)
(* when the kernel gives up (ETIMEDOUT): either may come first.            *)
(***************************************************************************)
EXTENDS Integers, Sequences, FiniteSets

CONSTANTS
    Master,   \* the master process (its listening port)
    Servers,  \* the shard processes, each named by the port it is given
    Clients,  \* the one-shot client processes
    Keys,     \* the int32 keys the clients use
    Values,   \* the non-empty values the clients write
    Empty,    \* the empty string
    None,     \* "no such key"
    NoPort,   \* port 0
    Slots     \* capacity of an accept queue

ASSUME NetAssumption ==
    /\ Master \notin Servers
    /\ NoPort \notin Servers \cup {Master}
    /\ Clients \cap (Servers \cup {Master}) = {}
    /\ Keys \subseteq Int
    /\ Empty \notin Values
    /\ None \notin Values \cup {Empty}
    /\ Slots \in Nat \ {0}

VARIABLES
    listening,  \* listening[p]: p has bound its port and called listen()
    queue,      \* queue[p]: requests sent on connections p has not accepted
    inbox       \* inbox[c]: what client c's pending secure_recv will return

netVars == <<listening, queue, inbox>>

Procs == Servers \cup {Master}

Payload == Values \cup {Empty}

\* An absent key or value field reads as the protobuf default.
KeyFields == Keys \cup {0}

Msg == [type : {"PUT", "GET", "SERVER", "MASTER_PUT", "REORG", "REORG_PUT", "EOF"},
        key : KeyFields, value : Payload, from : Procs \cup Clients]

MkMsg(t, k, v, f) == [type |-> t, key |-> k, value |-> v, from |-> f]

\* ParseFromString is given a char*: the std::string it builds ends at the
\* first NUL byte of the message.  A key of 0 is such a byte, and the value
\* field, which follows the key, is lost.
Decode(m) == IF m.key = 0 THEN [m EXCEPT !.value = Empty] ELSE m

Reply == [kind : {"none", "eof", "port", "data"}, port : Servers \cup {NoPort},
          status : BOOLEAN, value : Payload]

NoReply == [kind |-> "none", port |-> NoPort, status |-> FALSE, value |-> Empty]
EofReply == [NoReply EXCEPT !.kind = "eof"]
PortReply(p) == [NoReply EXCEPT !.kind = "port", !.port = p]
PutReply(ok) == [NoReply EXCEPT !.kind = "data", !.status = ok]

\* Seeded bug: the reply carries whatever the lookup returned.
GetReplyRaw(v) == [NoReply EXCEPT !.kind = "data", !.status = v # None, !.value = v]

\* The reply to a GET always sets its value, and the status follows it on the
\* wire: the zero length byte of an empty value hides the status.
GetReply(v) ==
    [NoReply EXCEPT !.kind = "data", !.status = v \notin {None, Empty},
                    !.value = IF v = None THEN Empty ELSE v]

CanConnect(p) == p \in Procs /\ listening[p] /\ Len(queue[p]) < Slots

\* connect() to p fails: p is not there, or has no room before the timeout.
Refused(p) == ~CanConnect(p)

Send(p, m) == queue' = [queue EXCEPT ![p] = Append(@, m)]

\* The request on the oldest connection of process p, as p parses it.
Request(p) == Decode(Head(queue[p]))

\* Process p accepts the oldest connection, which carries a request of type t.
Accept(p, t) ==
    /\ queue[p] # <<>>
    /\ Request(p).type = t
    /\ queue' = [queue EXCEPT ![p] = Tail(@)]

Respond(c, r) == inbox' = IF c \in Clients THEN [inbox EXCEPT ![c] = r] ELSE inbox

\* Seeded bug: a dying process does not end its connections.
VanishSilently(p) ==
    /\ listening' = [listening EXCEPT ![p] = FALSE]
    /\ queue' = [queue EXCEPT ![p] = <<>>]
    /\ UNCHANGED inbox

\* The kernel resets every connection of a process that dies; secure_recv
\* turns the reset into {0, nullptr} after its retries.
Vanish(p) ==
    /\ listening' = [listening EXCEPT ![p] = FALSE]
    /\ queue' = [queue EXCEPT ![p] = <<>>]
    /\ inbox' = [c \in Clients |->
                    IF \E i \in DOMAIN queue[p] : queue[p][i].from = c
                    THEN EofReply ELSE inbox[c]]

NetTypeOK ==
    /\ listening \in [Procs -> BOOLEAN]
    /\ queue \in [Procs -> Seq(Msg)]
    /\ inbox \in [Clients -> Reply]
=============================================================================
