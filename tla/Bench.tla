-------------------------------- MODULE Bench --------------------------------
(* The benchmark of task1: the server with its pool of threads, and the       *)
(* client with its threads.                                                   *)
EXTENDS PoolServer, BenchClient

CONSTANT Setups   \* bound of the model: the arguments of the two programs

ASSUME SetupAssumption ==
  \A s \in Setups :
    /\ s.pool \subseteq Threads
    /\ s.nb_clients \in Nat \ {0} /\ s.nb_messages \in Nat
    /\ s.traces \in Seq(Operation) \ {<< >>}

benchVars == <<netVars, poolVars, clientVars>>

SetupInit(s) == PoolInit(s.pool) /\ ClientInit(s.nb_clients, s.nb_messages, s.traces)

BenchInit == NetInit /\ \E s \in Setups : SetupInit(s)

Acceptor == AddToList /\ UNCHANGED clientVars
Pool(t) == PoolThread(t) /\ UNCHANGED clientVars
Client(c) == ClientThread(c) /\ UNCHANGED poolVars
Join == JoinThreads /\ UNCHANGED poolVars

BenchNext ==
  \/ Acceptor \/ Join
  \/ \E t \in Threads : Pool(t)
  \/ \E c \in Peers : Client(c)

BenchSpec ==
  /\ BenchInit /\ [][BenchNext]_benchVars
  /\ WF_benchVars(Acceptor) /\ WF_benchVars(Join)
  /\ \A t \in Threads : WF_benchVars(Pool(t))
  /\ \A c \in Peers : WF_benchVars(Client(c))

BenchTypeOK == NetTypeOK /\ PoolTypeOK /\ ClientTypeOK

------------------------------------------------------------------------------
\* The sockets in the list from a node on.
Walk[n \in 0..Len(heap)] ==
  IF n = 0 THEN << >> ELSE <<heap[n].socket>> \o Walk[heap[n].next]

\* Where a connection that was opened can be: not accepted, in the list, or in
\* the hands of a thread.
Waits(c) == {i \in DOMAIN accept_queue : accept_queue[i] = c}
Listed(c) == {i \in DOMAIN Walk[head] : Walk[head][i] = c}
Servers(c) == {t \in Threads : client_fd[t] = c}

Opened(c) == cpc[c] \notin {"absent", "start"}

(* No connection is lost between the acceptor and the threads of the pool,    *)
(* and none is given to two of them: until it is closed, a connection is      *)
(* waiting, or in the list, or served by one thread, and once.                *)
ConnectionInOnePlace ==
  \A c \in Peers :
    LET places == Cardinality(Waits(c)) + Cardinality(Listed(c)) + Cardinality(Servers(c))
    IN /\ places <= 1
       /\ (Opened(c) /\ c \notin hung_up) => places = 1

(* Head and tail are NULL together, the tail is the last node of the list,    *)
(* and its nodes are linked in the order in which they were allocated.        *)
ListShape ==
  /\ head = 0 <=> tail = 0
  /\ tail # 0 => tail = Len(heap) /\ heap[tail].next = 0 /\ head \in 1..tail
  /\ head # 0 => \A n \in head..(tail - 1) : heap[n].next = n + 1

\* The server could not connect back: its thread waits for requests, and the
\* client thread waits in accept4 for the server, or will.
Refused(c) == \E t \in Servers(c) : tpc[t] = "serve" /\ ~send_fd[t]

Operations(c) == {i \in DOMAIN requests[c] : requests[c][i].type # "INIT"}
Outstanding(c) == Cardinality(Operations(c)) + Len(replies[c])

(* A client thread has one request at most on the way, its reply belongs to   *)
(* it, and a refused one has none: it never gets to its workload, and nor     *)
(* does the thread of the pool get to another client.                         *)
OneOutstanding ==
  outcome = "running" =>
    \A c \in Peers :
      /\ Outstanding(c) = IF cpc[c] \in {"ack", "verify"} THEN 1 ELSE 0
      /\ Refused(c) => cpc[c] \in {"bind", "accept"}

Verifying(c) == cpc[c] \in {"check", "next", "step", "advance", "verify", "verified"}

(* The client crashes for two reasons only: it is a single thread that has    *)
(* come to the end of its trace, or two threads move the iterator at a time.  *)
CrashNeedsRace ==
  outcome = "crash" =>
    \/ \E c \in Peers : cpc[c] = "send" /\ DividesByZero(c)
    \/ \E c, d \in Peers : c # d /\ Verifying(c) /\ Verifying(d)

(* Once begun, the benchmark comes to an end, unless a client thread was      *)
(* refused: one such thread keeps the process, and as many as the pool has    *)
(* keep everybody else from being served.                                     *)
BenchEnds == accept_queue # << >> ~> (outcome # "running" \/ \E c \in Peers : Refused(c))

(* A client thread that the server has connected back to finishes its         *)
(* workload and its verification, unless the process ends under it.           *)
ConnectedFinish ==
  \A c \in Peers : back[c] = "connected" ~> (cpc[c] = "verified" \/ outcome # "running")

=============================================================================
