------------------------------ MODULE BenchNet ------------------------------
(* The connections of the benchmark (task1).  Every client thread has two:    *)
(* one that it opens to the server, for its requests, and one that the server *)
(* opens back to a port of the thread, for the replies.                       *)
EXTENDS Naturals, Sequences

CONSTANTS
  Peers,      \* the client threads, all of one process, by id
  Threads,    \* the threads of the server's pool
  TraceKeys,  \* key_hash of the trace; may contain 0
  Nobody,
  NoValue,    \* the empty string
  Slots       \* connections that listen(fd, 3) lets wait

ASSUME BenchNetAssumption ==
  /\ Peers \subseteq Nat
  /\ Nobody \notin Peers
  /\ NoValue \notin Peers
  /\ Slots \in Nat \ {0}

VARIABLES
  server_alive,
  accept_queue,   \* connections the server has not accepted
  requests,       \* requests of a thread that the server has not read
  replies,        \* replies that the thread has not read
  back,           \* the thread's port: "closed", "listening", or "connected" to
  hung_up         \* the threads whose connection to the server is closed

netVars == <<server_alive, accept_queue, requests, replies, back, hung_up>>

\* A value is named by the thread that wrote it.
KvValues == Peers \cup {NoValue}

PeerRequest == [type : {"INIT", "PUT", "GET"}, key : TraceKeys \cup {0}, value : KvValues]

NetTypeOK ==
  /\ server_alive \in BOOLEAN
  /\ accept_queue \in Seq(Peers)
  /\ requests \in [Peers -> Seq(PeerRequest)]
  /\ replies \in [Peers -> Seq(KvValues)]
  /\ back \in [Peers -> {"closed", "listening", "connected"}]
  /\ hung_up \subseteq Peers

NetInit ==
  /\ server_alive = TRUE
  /\ accept_queue = << >>
  /\ requests = [c \in Peers |-> << >>]
  /\ replies = [c \in Peers |-> << >>]
  /\ back = [c \in Peers |-> "closed"]
  /\ hung_up = {}

=============================================================================
