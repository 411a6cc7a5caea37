------------------------------- MODULE Counter -------------------------------
(* The counter server and its clients (task0): one server thread that serves  *)
(* a connection until the TERMINATION it answers, and clients that send       *)
(* num_messages requests, ADD and SUB in turn, and wait for the COUNTER.      *)
EXTENDS Integers, Sequences, FiniteSets, Functions

CONSTANTS
  Users,          \* the client processes
  Workload,       \* what each was started with: [num_messages, add, sub]
  NoUser,
  Backlog,        \* connections that the kernel keeps for accept
  Half,           \* the counter has the values -Half .. Half - 1 (2^63)
  MaxKilled       \* bound of the model: clients that are killed

ASSUME CounterAssumption ==
  /\ NoUser \notin Users
  /\ Workload \in [Users -> [num_messages : Nat, add : Int, sub : Int]]
  /\ Half \in Nat \ {0} /\ Backlog \in Nat \ {0} /\ MaxKilled \in Nat

VARIABLES
  listens,        \* the server has called listen
  waiting,        \* connections not yet accepted
  serving,        \* the client of new_sockfd
  number,         \* the global counter
  upc,            \* where a client is
  outbox,         \* requests it has sent and the server has not read
  requests_made,  \* how many it has sent
  answer,         \* the COUNTER that the server has sent it, if any
  served          \* history: the clients answered so far, in order

counterVars == <<listens, waiting, serving, number, upc, outbox, requests_made, answer, served>>

\* Seeded bug: SUB is added.
AddAlways(type, n, arg) == IF type \in {"ADD", "SUB"} THEN n + arg ELSE n

Signed(type, n, arg) ==
  CASE type = "ADD" -> n + arg
    [] type = "SUB" -> n - arg
    [] OTHER -> n

\* Arithmetic of int64_t.
Wrap(x) == ((x + Half) % (2 * Half)) - Half

Update(type, n, arg) == Wrap(Signed(type, n, arg))

CounterInit ==
  /\ listens = FALSE
  /\ waiting = << >>
  /\ serving = NoUser
  /\ number = 0
  /\ upc = [u \in Users |-> "start"]
  /\ outbox = [u \in Users |-> << >>]
  /\ requests_made = [u \in Users |-> 0]
  /\ answer = [u \in Users |-> << >>]
  /\ served = << >>

------------------------------------------------------------------------------
Listen ==
  /\ ~listens
  /\ listens' = TRUE
  /\ UNCHANGED <<waiting, serving, number, upc, outbox, requests_made, answer, served>>

Connect(u) ==
  /\ upc[u] = "start"
  /\ listens
  /\ Len(waiting) < Backlog
  /\ waiting' = Append(waiting, u)
  /\ upc' = [upc EXCEPT ![u] = "send"]
  /\ UNCHANGED <<listens, serving, number, outbox, requests_made, answer, served>>

\* connect() fails at once when nobody listens, and after a while when the
\* backlog stays full.  connect_socket returns -1, which main does not look at:
\* every send fails, and recv_msg reads from -1 for ever.
ConnectRefused(u) ==
  /\ upc[u] = "start"
  /\ ~(listens /\ Len(waiting) < Backlog)
  /\ upc' = [upc EXCEPT ![u] = "hung"]
  /\ UNCHANGED <<listens, waiting, serving, number, outbox, requests_made, answer, served>>

\* The i-th request of a client, counted from 0.
Request(u, i) ==
  CASE i = Workload[u].num_messages -> [type |-> "TERMINATION", argument |-> 0]
    [] i < Workload[u].num_messages /\ i % 2 = 0 -> [type |-> "ADD", argument |-> Workload[u].add]
    [] OTHER -> [type |-> "SUB", argument |-> Workload[u].sub]

SendRequest(u) ==
  /\ upc[u] = "send"
  /\ outbox' = [outbox EXCEPT ![u] = Append(@, Request(u, requests_made[u]))]
  /\ requests_made' = [requests_made EXCEPT ![u] = @ + 1]
  /\ upc' = [upc EXCEPT ![u] = IF requests_made[u] = Workload[u].num_messages THEN "recv" ELSE @]
  /\ UNCHANGED <<listens, waiting, serving, number, answer, served>>

RecvCounter(u) ==
  /\ upc[u] = "recv"
  /\ answer[u] # << >>
  /\ upc' = [upc EXCEPT ![u] = "done"]
  /\ UNCHANGED <<listens, waiting, serving, number, outbox, requests_made, answer, served>>

\* What the client has sent stays readable.
KillClient(u) ==
  /\ upc[u] \in {"send", "recv"}
  /\ Cardinality({v \in Users : upc[v] = "killed"}) < MaxKilled
  /\ upc' = [upc EXCEPT ![u] = "killed"]
  /\ UNCHANGED <<listens, waiting, serving, number, outbox, requests_made, answer, served>>

------------------------------------------------------------------------------
\* Seeded bug: the server stops after its first client.
AcceptOnce ==
  /\ listens
  /\ serving = NoUser
  /\ waiting # << >> /\ served = << >>
  /\ serving' = Head(waiting)
  /\ waiting' = Tail(waiting)
  /\ UNCHANGED <<listens, number, upc, outbox, requests_made, answer, served>>

Accept ==
  /\ listens
  /\ serving = NoUser
  /\ waiting # << >>
  /\ serving' = Head(waiting)
  /\ waiting' = Tail(waiting)
  /\ UNCHANGED <<listens, number, upc, outbox, requests_made, answer, served>>

\* recv_msg returned an ADD or a SUB.
ServeUpdate ==
  /\ serving # NoUser
  /\ outbox[serving] # << >>
  /\ LET m == Head(outbox[serving])
     IN m.type # "TERMINATION" /\ number' = Update(m.type, number, m.argument)
  /\ outbox' = [outbox EXCEPT ![serving] = Tail(@)]
  /\ UNCHANGED <<listens, waiting, serving, upc, requests_made, answer, served>>

\* recv_msg at the end of the stream reads an empty message, which is an ADD of
\* 0; it does so for ever, and the server never leaves this connection.
ServeEndOfStream ==
  /\ serving # NoUser
  /\ outbox[serving] = << >> /\ upc[serving] = "killed"
  /\ number' = Update("ADD", number, 0)
  /\ UNCHANGED <<listens, waiting, serving, upc, outbox, requests_made, answer, served>>

\* The answer is sent, and the connection closed.
ServeTermination ==
  /\ serving # NoUser
  /\ outbox[serving] # << >> /\ Head(outbox[serving]).type = "TERMINATION"
  /\ answer' = [answer EXCEPT ![serving] = <<number>>]
  /\ outbox' = [outbox EXCEPT ![serving] = Tail(@)]
  /\ served' = Append(served, serving)
  /\ serving' = NoUser
  /\ UNCHANGED <<listens, waiting, number, upc, requests_made>>

Serve == Accept \/ ServeUpdate \/ ServeEndOfStream \/ ServeTermination

User(u) == Connect(u) \/ SendRequest(u) \/ RecvCounter(u)

CounterNext ==
  \/ Listen \/ Serve
  \/ \E u \in Users : User(u) \/ ConnectRefused(u) \/ KillClient(u)

CounterSpec ==
  /\ CounterInit /\ [][CounterNext]_counterVars
  /\ WF_counterVars(Listen) /\ WF_counterVars(Serve)
  /\ \A u \in Users : WF_counterVars(User(u))

------------------------------------------------------------------------------
\* The sum of a client's requests, which begin with an ADD.
Total(u) ==
  LET w == Workload[u]
  IN ((w.num_messages + 1) \div 2) * w.add - (w.num_messages \div 2) * w.sub

\* The sum of the requests of several clients.
Sum(users) ==
  LET sum[i \in 0..Len(users)] == IF i = 0 THEN 0 ELSE sum[i - 1] + Total(users[i])
  IN sum[Len(users)]

(* Each COUNTER is the sum of the requests of the clients served so far, the  *)
(* one that it answers included, and of no others: a client's requests are    *)
(* never mixed with those of another, and the counter wraps at its width.     *)
AnswersAreSums ==
  \A i \in DOMAIN served : answer[served[i]] = <<Wrap(Sum(SubSeq(served, 1, i)))>>

\* The server reads the end of a stream for ever.
Starved == serving # NoUser /\ upc[serving] = "killed" /\ outbox[serving] = << >>

(* A client gets its COUNTER, unless connect() failed or it was killed, or    *)
(* the server has met a client that died before its TERMINATION.              *)
ClientsAnswered ==
  \A u \in Users : upc[u] # "start" ~> (upc[u] \in {"done", "hung", "killed"} \/ Starved)

=============================================================================
