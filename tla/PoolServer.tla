----------------------------- MODULE PoolServer -----------------------------
(* The server of task1: the main thread appends every accepted connection to  *)
(* a linked list, and the threads of a pool, which poll the list, each serve  *)
(* one connection until its end.                                              *)
EXTENDS BenchNet, FiniteSets

CONSTANT PoolSize   \* elements of threadPool (4)

\* -n is not compared with the size of the array.
ASSUME PoolAssumption == IsFiniteSet(Threads) /\ Cardinality(Threads) <= PoolSize

VARIABLES
  heap,         \* the nodes allocated so far: [socket, next], next an index or 0
  head,         \* the pointers of the list, indices of heap; 0 is NULL
  tail,
  tpc,          \* a thread polls, waits for INIT, or serves
  client_fd,    \* whose connection it serves
  send_fd,      \* FALSE when it could not connect back
  checked,      \* the build checks the index of a repeated field
  db            \* RocksDB, from the keys stored to their values

poolVars == <<heap, head, tail, tpc, client_fd, send_fd, checked, db>>

\* With -n, the threads of S are started.
PoolInit(S) ==
  /\ heap = << >>
  /\ head = 0
  /\ tail = 0
  /\ tpc = [t \in Threads |-> IF t \in S THEN "poll" ELSE "absent"]
  /\ client_fd = [t \in Threads |-> Nobody]
  /\ send_fd = [t \in Threads |-> FALSE]
  /\ checked \in BOOLEAN
  /\ db = << >>

PoolTypeOK ==
  /\ heap \in Seq([socket : Peers, next : Nat])
  /\ head \in 0..Len(heap) /\ tail \in 0..Len(heap)
  /\ tpc \in [Threads -> {"absent", "poll", "init", "serve"}]
  /\ client_fd \in [Threads -> Peers \cup {Nobody}]
  /\ send_fd \in [Threads -> BOOLEAN]
  /\ checked \in BOOLEAN

------------------------------------------------------------------------------
\* addToList, under myMutex.
Linked(c) ==
  LET n == Len(heap) + 1
      new == [socket |-> c, next |-> 0]
  IN /\ heap' = IF tail = 0 THEN Append(heap, new)
                ELSE Append([heap EXCEPT ![tail].next = n], new)
     /\ head' = IF tail = 0 THEN n ELSE head
     /\ tail' = n

\* The main thread accepts a connection and appends it.
AddToList ==
  /\ server_alive
  /\ accept_queue # << >>
  /\ Linked(Head(accept_queue))
  /\ accept_queue' = Tail(accept_queue)
  /\ UNCHANGED <<server_alive, requests, replies, back, hung_up>>
  /\ UNCHANGED <<tpc, client_fd, send_fd, checked, db>>

\* Seeded bug: tail still points to a node that has left the list.
TailKept == tail

\* getFromList resets tail when the list becomes empty.
TailAfter == IF heap[head].next = 0 THEN 0 ELSE tail

\* getFromList, under myMutex, found a connection.
GetFromList(t) ==
  /\ server_alive
  /\ tpc[t] = "poll"
  /\ head # 0
  /\ client_fd' = [client_fd EXCEPT ![t] = heap[head].socket]
  /\ head' = heap[head].next
  /\ tail' = TailAfter
  /\ tpc' = [tpc EXCEPT ![t] = "init"]
  /\ UNCHANGED <<heap, send_fd, checked, db>> /\ UNCHANGED netVars

\* The first message names the client's port.  connect_socket fails while the
\* client does not listen yet, and nobody looks at what it returned.
RecvInit(t) ==
  LET c == client_fd[t]
  IN /\ server_alive
     /\ tpc[t] = "init"
     /\ requests[c] # << >>
     /\ requests' = [requests EXCEPT ![c] = Tail(@)]
     /\ send_fd' = [send_fd EXCEPT ![t] = back[c] = "listening"]
     /\ back' = IF back[c] = "listening" THEN [back EXCEPT ![c] = "connected"] ELSE back
     /\ tpc' = [tpc EXCEPT ![t] = "serve"]
     /\ UNCHANGED <<server_alive, accept_queue, replies, hung_up>>
     /\ UNCHANGED <<heap, head, tail, client_fd, checked, db>>

\* msg was cleared and the request is not parsed into it: ops(0) is out of
\* bounds.  A build without the check finds the cleared element of the INIT
\* message there: a PUT of no value for key 0.  The GET branch is dead code.
Requested(m) == [type |-> "PUT", key |-> 0, value |-> NoValue]

Stored(m) ==
  [k \in DOMAIN db \cup {m.key} |-> IF k = m.key THEN m.value ELSE db[k]]

\* Seeded bug: a request is not answered.
NoReply(t) == replies

\* Seeded bug: the GET branch replies as well.
RepliedTwice(t) ==
  IF send_fd[t] THEN [replies EXCEPT ![client_fd[t]] = @ \o <<NoValue, NoValue>>] ELSE replies

\* The reply says success and has no value.
Replied(t) ==
  IF send_fd[t] THEN [replies EXCEPT ![client_fd[t]] = Append(@, NoValue)] ELSE replies

ServeRequest(t) ==
  LET c == client_fd[t]
  IN /\ server_alive
     /\ tpc[t] = "serve"
     /\ requests[c] # << >>
     /\ ~checked
     /\ db' = Stored(Requested(Head(requests[c])))
     /\ requests' = [requests EXCEPT ![c] = Tail(@)]
     /\ replies' = Replied(t)
     /\ UNCHANGED <<server_alive, accept_queue, back, hung_up>>
     /\ UNCHANGED <<heap, head, tail, tpc, client_fd, send_fd, checked>>

\* A build with the check aborts, and with it all threads.
AbortOnRequest(t) ==
  /\ server_alive
  /\ tpc[t] = "serve"
  /\ requests[client_fd[t]] # << >>
  /\ checked
  /\ server_alive' = FALSE
  /\ UNCHANGED <<accept_queue, requests, replies, back, hung_up>>
  /\ UNCHANGED poolVars

\* secure_recv returned 0: the thread closes both connections and polls again.
HangUp(t) ==
  LET c == client_fd[t]
  IN /\ server_alive
     /\ tpc[t] \in {"init", "serve"}
     /\ requests[c] = << >>
     /\ c \in hung_up
     /\ tpc' = [tpc EXCEPT ![t] = "poll"]
     /\ client_fd' = [client_fd EXCEPT ![t] = Nobody]
     /\ send_fd' = [send_fd EXCEPT ![t] = FALSE]
     /\ UNCHANGED <<heap, head, tail, checked, db>> /\ UNCHANGED netVars

PoolThread(t) ==
  GetFromList(t) \/ RecvInit(t) \/ ServeRequest(t) \/ AbortOnRequest(t) \/ HangUp(t)

=============================================================================
