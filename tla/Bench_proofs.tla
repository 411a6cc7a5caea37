---------------------------- MODULE Bench_proofs ----------------------------
(* Proofs about task1, for any number of threads, clients and connections,    *)
(* and any arguments of the two programs: the linked list of the server, the  *)
(* places of a connection, the dialog with a client thread, and the iterators *)
(* of the client.                                                             *)
EXTENDS Bench, Induction_lemmas, SequenceTheorems, TLAPS

\* What the list has besides its shape: the types of its nodes and pointers.
ListTypes ==
  /\ heap \in Seq([socket : Peers, next : Nat])
  /\ head \in Nat /\ tail \in Nat
  /\ accept_queue \in Seq(Peers)

ListInv == ListTypes /\ ListShape

\* addToList appends a node behind the last one, or begins a new list.
LEMMA LinkedKeepsShape ==
  ASSUME ListInv, NEW c \in Peers, Linked(c)
  PROVE  ListShape' /\ heap' \in Seq([socket : Peers, next : Nat]) /\ head' \in Nat /\ tail' \in Nat
<1> DEFINE n == Len(heap) + 1
           new == [socket |-> c, next |-> 0]
<1>1. heap \in Seq([socket : Peers, next : Nat]) /\ head \in Nat /\ tail \in Nat /\ n \in Nat \ {0}
  BY DEF ListInv, ListTypes
<1>2. new \in [socket : Peers, next : Nat]
  OBVIOUS
<1>3. CASE tail = 0
  <2>1. heap' = Append(heap, new) /\ head' = n /\ tail' = n
    BY <1>3 DEF Linked
  <2>2. heap' \in Seq([socket : Peers, next : Nat]) /\ Len(heap') = n /\ heap'[n] = new
    BY <1>1, <1>2, <2>1
  <2>3. heap'[tail'].next = 0 /\ head' \in 1..tail'
    BY <1>1, <2>1, <2>2
  <2>4. head'..(tail' - 1) = {}
    BY <1>1, <2>1
  <2>5. ListShape'
    BY <1>1, <2>1, <2>2, <2>3, <2>4 DEF ListShape
  <2> QED
    BY <1>1, <2>1, <2>2, <2>5
<1>4. CASE tail # 0
  <2> DEFINE old == [heap EXCEPT ![tail].next = n]
  <2>1. /\ tail = Len(heap) /\ heap[tail].next = 0 /\ head \in 1..tail
        /\ \A i \in head..(tail - 1) : heap[i].next = i + 1
    BY <1>1, <1>4 DEF ListInv, ListShape
  <2>2. heap' = Append(old, new) /\ head' = head /\ tail' = n
    BY <1>4 DEF Linked
  <2>3. tail \in 1..Len(heap) /\ heap[tail] \in [socket : Peers, next : Nat]
    <3>1. tail \in 1..Len(heap)
      BY <1>1, <1>4, <2>1
    <3> QED
      BY <1>1, <3>1, ElementOfSeq
  <2>4. /\ old \in Seq([socket : Peers, next : Nat]) /\ Len(old) = Len(heap)
        /\ old[tail].next = n
        /\ \A i \in 1..Len(heap) : i # tail => old[i] = heap[i]
    BY <1>1, <2>3
  <2>5. /\ heap' \in Seq([socket : Peers, next : Nat])
        /\ Len(heap') = n /\ heap'[n] = new
        /\ \A i \in 1..Len(heap) : heap'[i] = old[i]
    BY <1>1, <1>2, <2>2, <2>4
  <2>6. ASSUME NEW i \in head'..(tail' - 1) PROVE heap'[i].next = i + 1
    <3>1. i \in head..tail /\ i \in 1..Len(heap)
      BY <1>1, <2>1, <2>2
    <3>2. heap'[i] = old[i]
      BY <2>5, <3>1
    <3>3. CASE i = tail
      BY <2>1, <2>4, <3>2, <3>3
    <3>4. CASE i # tail
      <4>1. i \in head..(tail - 1)
        BY <1>1, <3>1, <3>4
      <4> QED
        BY <2>1, <2>4, <3>1, <3>2, <3>4, <4>1
    <3> QED
      BY <3>3, <3>4
  <2> QED
    BY <1>1, <1>4, <2>1, <2>2, <2>5, <2>6 DEF ListShape
<1> QED
  BY <1>3, <1>4

\* getFromList moves head to the next node, and resets tail with the last one.
LEMMA TakenKeepsShape ==
  ASSUME ListInv, head # 0, head' = heap[head].next, tail' = TailAfter, heap' = heap
  PROVE  ListShape' /\ head' \in Nat /\ tail' \in Nat
<1>1. heap \in Seq([socket : Peers, next : Nat]) /\ head \in Nat /\ tail \in Nat
  BY DEF ListInv, ListTypes
<1>2. /\ tail # 0 /\ tail = Len(heap) /\ heap[tail].next = 0 /\ head \in 1..tail
      /\ \A i \in head..(tail - 1) : heap[i].next = i + 1
  BY <1>1 DEF ListInv, ListShape
<1>3. CASE head = tail
  <2>1. head' = 0 /\ tail' = 0
    BY <1>2, <1>3 DEF TailAfter
  <2> QED
    BY <2>1 DEF ListShape
<1>4. CASE head # tail
  <2>1. heap[head].next = head + 1
    BY <1>1, <1>2, <1>4
  <2>2. head' = head + 1 /\ tail' = tail
    BY <1>1, <2>1 DEF TailAfter
  <2>3. head' \in 1..tail' /\ head' # 0 /\ tail' # 0 /\ head'..(tail' - 1) \subseteq head..(tail - 1)
    BY <1>1, <1>2, <1>4, <2>2
  <2>4. \A i \in head'..(tail' - 1) : heap'[i].next = i + 1
    BY <1>2, <2>3
  <2>5. tail' = Len(heap') /\ heap'[tail'].next = 0
    BY <1>2, <2>2
  <2>6. ListShape'
    BY <2>3, <2>4, <2>5 DEF ListShape
  <2> QED
    BY <1>1, <2>2, <2>6
<1> QED
  BY <1>3, <1>4

------------------------------------------------------------------------------
\* The acceptor takes a client thread off the queue and appends it.
LEMMA AcceptStep == ListInv /\ Acceptor => ListInv'
<1> SUFFICES ASSUME ListInv, Acceptor PROVE ListInv'
  OBVIOUS
<1> DEFINE c == Head(accept_queue)
<1>1. /\ accept_queue # << >> /\ Linked(c) /\ accept_queue' = Tail(accept_queue)
  BY DEF Acceptor, AddToList
<1>2. c \in Peers /\ accept_queue' \in Seq(Peers)
  BY <1>1 DEF ListInv, ListTypes
<1>3. ListShape' /\ heap' \in Seq([socket : Peers, next : Nat]) /\ head' \in Nat /\ tail' \in Nat
  BY <1>1, <1>2, LinkedKeepsShape
<1> QED
  BY <1>2, <1>3 DEF ListInv, ListTypes

\* A thread of the pool takes a node, or leaves the list alone.
LEMMA PoolStep == \A t \in Threads : ListInv /\ Pool(t) => ListInv'
<1> SUFFICES ASSUME NEW t \in Threads, ListInv, Pool(t) PROVE ListInv'
  OBVIOUS
<1>1. CASE GetFromList(t)
  <2>1. /\ head # 0 /\ head' = heap[head].next /\ tail' = TailAfter
        /\ heap' = heap /\ accept_queue' = accept_queue
    BY <1>1 DEF GetFromList, netVars
  <2>2. ListShape' /\ head' \in Nat /\ tail' \in Nat
    BY <2>1, TakenKeepsShape
  <2> QED
    BY <2>1, <2>2 DEF ListInv, ListTypes
<1>2. ASSUME UNCHANGED <<heap, head, tail, accept_queue>> PROVE ListInv'
  BY <1>2 DEF ListInv, ListTypes, ListShape
<1>3. CASE RecvInit(t) \/ ServeRequest(t)
  BY <1>2, <1>3 DEF RecvInit, ServeRequest
<1>4. CASE AbortOnRequest(t) \/ HangUp(t)
  BY <1>2, <1>4 DEF AbortOnRequest, HangUp, poolVars, netVars
<1> QED
  BY <1>1, <1>3, <1>4 DEF Pool, PoolThread

\* The process of the clients exits or crashes.
Exits(c) ==
  ConnectIssue(c) \/ ServerGone(c) \/ CrashOnTrace(c) \/ ReplyLost(c) \/ ReadAtEnd(c)

\* A client thread enters the accept queue; the list is not its own.
LEMMA ClientsStep == \A c \in Peers : ListInv /\ Client(c) => ListInv'
<1> SUFFICES ASSUME NEW c \in Peers, ListInv, Client(c) PROVE ListInv'
  OBVIOUS
<1>1. UNCHANGED <<heap, head, tail>>
  BY DEF Client, poolVars
<1>2. ASSUME accept_queue' \in Seq(Peers) PROVE ListInv'
  BY <1>1, <1>2 DEF ListInv, ListTypes, ListShape
<1>3. CASE ConnectToServer(c)
  <2>1. accept_queue' = Append(accept_queue, c)
    BY <1>3 DEF ConnectToServer
  <2> QED
    BY <1>2, <2>1 DEF ListInv, ListTypes
<1>4. ASSUME accept_queue' = accept_queue PROVE ListInv'
  BY <1>2, <1>4 DEF ListInv, ListTypes
<1>5. CASE Exits(c)
  BY <1>4, <1>5 DEF Exits, ConnectIssue, ServerGone, CrashOnTrace, ReplyLost, ReadAtEnd, Exit
<1>6. CASE SendInit(c) \/ ListenForReplies(c) \/ SendOperation(c) \/ RecvAck(c) \/ Verify(c)
  BY <1>4, <1>6 DEF SendInit, ListenForReplies, SendOperation, RecvAck, Verify
<1>7. CASE AcceptServer(c) \/ InitIt(c) \/ ReadKey(c) \/ ReadIt(c)
  BY <1>4, <1>7 DEF AcceptServer, InitIt, ReadKey, ReadIt, netVars
<1>8. CASE CheckIt(c) \/ Advance(c)
  BY <1>4, <1>8 DEF CheckIt, Advance, Verified, netVars
<1> QED
  BY <1>3, <1>5, <1>6, <1>7, <1>8 DEF Client, ClientThread, Exits

\* Head, tail and nodes of the list keep their shape whatever the acceptor and
\* the threads of the pool do in turn: myMutex makes each operation one step.
THEOREM ListKeepsShape == BenchSpec => []ListShape
<1>1. BenchInit => ListInv
  <2> SUFFICES ASSUME BenchInit PROVE ListInv
    OBVIOUS
  <2>1. heap = << >> /\ head = 0 /\ tail = 0 /\ accept_queue = << >>
    BY DEF BenchInit, SetupInit, PoolInit, NetInit
  <2> QED
    BY <2>1 DEF ListInv, ListTypes, ListShape
<1>2. ListInv /\ [BenchNext]_benchVars => ListInv'
  <2> SUFFICES ASSUME ListInv, [BenchNext]_benchVars PROVE ListInv'
    OBVIOUS
  <2>1. CASE UNCHANGED benchVars \/ Join
    BY <2>1 DEF benchVars, netVars, poolVars, Join, JoinThreads, ListInv, ListTypes, ListShape
  <2> QED
    BY <2>1, AcceptStep, PoolStep, ClientsStep DEF BenchNext
<1>3. ListInv => ListShape
  BY DEF ListInv
<1> QED
  BY <1>1, <1>2, <1>3, PTL DEF BenchSpec

------------------------------------------------------------------------------
(* The places of a connection.  ConnectionInOnePlace counts them; here they   *)
(* are compared one with another.                                             *)

\* The nodes of the list.
ListNodes == IF head = 0 THEN {} ELSE head..tail

\* A place is held by one connection, and a connection has one place.
OncePlaced ==
  /\ \A i, j \in DOMAIN accept_queue : accept_queue[i] = accept_queue[j] => i = j
  /\ \A m, n \in ListNodes : heap[m].socket = heap[n].socket => m = n
  /\ \A t, u \in Threads : client_fd[t] = client_fd[u] /\ client_fd[t] # Nobody => t = u
  /\ \A i \in DOMAIN accept_queue, n \in ListNodes : accept_queue[i] # heap[n].socket
  /\ \A i \in DOMAIN accept_queue, t \in Threads : accept_queue[i] # client_fd[t]
  /\ \A n \in ListNodes, t \in Threads : heap[n].socket # client_fd[t]

InQueue(c) == \E i \in DOMAIN accept_queue : accept_queue[i] = c
InList(c) == \E n \in ListNodes : heap[n].socket = c
Served(c) == \E t \in Threads : client_fd[t] = c
Placed(c) == InQueue(c) \/ InList(c) \/ Served(c)

\* Only connections that were opened have a place, and lose it when hung up.
PlacesOfOpened ==
  \A c \in Peers : /\ Placed(c) => Opened(c)
                   /\ Opened(c) /\ c \notin hung_up => Placed(c)

Busy == \A t \in Threads : client_fd[t] # Nobody <=> tpc[t] \in {"init", "serve"}

PlaceTypes ==
  /\ client_fd \in [Threads -> Peers \cup {Nobody}]
  /\ DOMAIN tpc = Threads
  /\ DOMAIN cpc = Peers

PlaceInv == ListInv /\ PlaceTypes /\ OncePlaced /\ PlacesOfOpened /\ Busy

\* The nodes of the list are nodes of the heap, and hold sockets of peers.
LEMMA NodesOfHeap ==
  ASSUME ListInv
  PROVE  /\ ListNodes \subseteq 1..Len(heap)
         /\ \A n \in ListNodes : heap[n].socket \in Peers
<1>1. heap \in Seq([socket : Peers, next : Nat]) /\ head \in Nat /\ tail \in Nat
  BY DEF ListInv, ListTypes
<1>2. ListNodes \subseteq 1..Len(heap)
  <2>1. CASE head = 0
    BY <2>1 DEF ListNodes
  <2>2. CASE head # 0
    <3>1. tail = Len(heap) /\ head \in 1..tail
      BY <1>1, <2>2 DEF ListInv, ListShape
    <3> QED
      BY <1>1, <2>2, <3>1 DEF ListNodes
  <2> QED
    BY <2>1, <2>2
<1>3. \A n \in 1..Len(heap) : heap[n] \in [socket : Peers, next : Nat]
  BY <1>1, ElementOfSeq
<1> QED
  BY <1>2, <1>3

\* addToList adds one node, and moves no socket.
LEMMA LinkedAddsNode ==
  ASSUME ListInv, NEW c \in Peers, Linked(c)
  PROVE  \E k : /\ k \notin ListNodes /\ ListNodes' = ListNodes \cup {k}
                /\ heap'[k].socket = c
                /\ \A n \in ListNodes : heap'[n].socket = heap[n].socket
<1> DEFINE k == Len(heap) + 1
           new == [socket |-> c, next |-> 0]
<1>1. heap \in Seq([socket : Peers, next : Nat]) /\ head \in Nat /\ tail \in Nat /\ k \in Nat \ {0}
  BY DEF ListInv, ListTypes
<1>2. ListNodes \subseteq 1..Len(heap)
  BY NodesOfHeap
<1>3. k \notin ListNodes
  BY <1>1, <1>2
<1>4. CASE tail = 0
  <2>1. head = 0
    BY <1>1, <1>4 DEF ListInv, ListShape
  <2>2. heap' = Append(heap, new) /\ head' = k /\ tail' = k
    BY <1>4 DEF Linked
  <2>3. heap'[k] = new
    BY <1>1, <2>2
  <2>4. ListNodes = {} /\ ListNodes' = {k}
    BY <1>1, <2>1, <2>2 DEF ListNodes
  <2> QED
    BY <1>3, <2>3, <2>4
<1>5. CASE tail # 0
  <2> DEFINE old == [heap EXCEPT ![tail].next = k]
  <2>1. tail = Len(heap) /\ head \in 1..tail /\ head # 0
    BY <1>1, <1>5 DEF ListInv, ListShape
  <2>2. heap' = Append(old, new) /\ head' = head /\ tail' = k
    BY <1>5 DEF Linked
  <2>3. tail \in 1..Len(heap) /\ \A n \in 1..Len(heap) : heap[n] \in [socket : Peers, next : Nat]
    <3>1. tail \in 1..Len(heap)
      BY <1>1, <1>5, <2>1
    <3> QED
      BY <1>1, <3>1, ElementOfSeq
  <2>4. /\ old \in Seq([socket : Peers, next : Nat]) /\ Len(old) = Len(heap)
        /\ \A n \in 1..Len(heap) : old[n].socket = heap[n].socket
    BY <1>1, <2>3
  <2>5. heap'[k] = new /\ \A n \in 1..Len(heap) : heap'[n] = old[n]
    BY <1>1, <2>2, <2>4
  <2>6. ListNodes = head..tail /\ ListNodes' = head..k
    BY <2>1, <2>2 DEF ListNodes
  <2>7. ListNodes' = ListNodes \cup {k}
    BY <1>1, <2>1, <2>6
  <2>8. heap'[k].socket = c
    BY <2>5
  <2>9. \A n \in ListNodes : heap'[n].socket = heap[n].socket
    BY <1>2, <2>4, <2>5
  <2> QED
    BY <1>3, <2>7, <2>8, <2>9
<1> QED
  BY <1>4, <1>5

\* getFromList takes one node away.
LEMMA TakenRemovesNode ==
  ASSUME ListInv, head # 0, head' = heap[head].next, tail' = TailAfter, heap' = heap
  PROVE  head \in ListNodes /\ ListNodes' = ListNodes \ {head}
<1>1. heap \in Seq([socket : Peers, next : Nat]) /\ head \in Nat /\ tail \in Nat
  BY DEF ListInv, ListTypes
<1>2. /\ tail # 0 /\ tail = Len(heap) /\ heap[tail].next = 0 /\ head \in 1..tail
      /\ \A i \in head..(tail - 1) : heap[i].next = i + 1
  BY <1>1 DEF ListInv, ListShape
<1>3. ListNodes = head..tail
  BY DEF ListNodes
<1>4. CASE head = tail
  <2>1. head' = 0
    BY <1>2, <1>4
  <2> QED
    BY <1>1, <1>3, <1>4, <2>1 DEF ListNodes
<1>5. CASE head # tail
  <2>1. heap[head].next = head + 1
    BY <1>1, <1>2, <1>5
  <2>2. head' = head + 1 /\ head' # 0 /\ tail' = tail
    BY <1>1, <2>1 DEF TailAfter
  <2>3. ListNodes' = (head + 1)..tail
    BY <2>2 DEF ListNodes
  <2> QED
    BY <1>1, <1>2, <1>3, <2>3
<1> QED
  BY <1>4, <1>5

------------------------------------------------------------------------------
\* The acceptor moves a connection from the queue to the list.
LEMMA AcceptPlaces == PlaceInv /\ Acceptor => PlaceInv'
<1> SUFFICES ASSUME PlaceInv, Acceptor PROVE PlaceInv'
  OBVIOUS
<1>1. PICK c : c = Head(accept_queue)
  OBVIOUS
<1>2. /\ accept_queue # << >> /\ Linked(c) /\ accept_queue' = Tail(accept_queue)
      /\ UNCHANGED <<client_fd, tpc, cpc, hung_up>>
  BY <1>1 DEF Acceptor, AddToList, clientVars
<1>3. ListInv /\ ListInv' /\ accept_queue \in Seq(Peers)
  BY AcceptStep DEF PlaceInv, ListInv, ListTypes
<1>4. c \in Peers /\ 1 \in DOMAIN accept_queue /\ accept_queue[1] = c
  BY <1>1, <1>2, <1>3
<1>5. /\ \A i \in DOMAIN accept_queue' : /\ i + 1 \in DOMAIN accept_queue /\ i \in Nat
                                         /\ accept_queue'[i] = accept_queue[i + 1] /\ i + 1 # 1
      /\ \A i \in DOMAIN accept_queue : i # 1 =>
           i - 1 \in DOMAIN accept_queue' /\ accept_queue'[i - 1] = accept_queue[i]
  BY <1>2, <1>3
<1>6. PICK k : /\ k \notin ListNodes /\ ListNodes' = ListNodes \cup {k}
               /\ heap'[k].socket = c
               /\ \A n \in ListNodes : heap'[n].socket = heap[n].socket
  BY <1>2, <1>3, <1>4, LinkedAddsNode
<1>7. OncePlaced'
  <2>1. \A i \in DOMAIN accept_queue' : accept_queue'[i] # c
    BY <1>4, <1>5 DEF PlaceInv, OncePlaced
  <2>2. \A i, j \in DOMAIN accept_queue' : accept_queue'[i] = accept_queue'[j] => i = j
    <3> SUFFICES ASSUME NEW i \in DOMAIN accept_queue', NEW j \in DOMAIN accept_queue',
                        accept_queue'[i] = accept_queue'[j]
                 PROVE  i = j
      OBVIOUS
    <3>1. i + 1 = j + 1
      BY <1>5 DEF PlaceInv, OncePlaced
    <3> QED
      BY <1>5, <3>1
  <2>3. \A n \in ListNodes : heap[n].socket # c
    BY <1>4 DEF PlaceInv, OncePlaced
  <2>4. \A m, n \in ListNodes' : heap'[m].socket = heap'[n].socket => m = n
    BY <1>6, <2>3 DEF PlaceInv, OncePlaced
  <2>5. \A t, u \in Threads : client_fd'[t] = client_fd'[u] /\ client_fd'[t] # Nobody => t = u
    BY <1>2 DEF PlaceInv, OncePlaced
  <2>6. \A i \in DOMAIN accept_queue', n \in ListNodes' : accept_queue'[i] # heap'[n].socket
    BY <1>5, <1>6, <2>1 DEF PlaceInv, OncePlaced
  <2>7. \A i \in DOMAIN accept_queue', t \in Threads : accept_queue'[i] # client_fd'[t]
    BY <1>2, <1>5 DEF PlaceInv, OncePlaced
  <2>8. \A n \in ListNodes', t \in Threads : heap'[n].socket # client_fd'[t]
    BY <1>2, <1>4, <1>6 DEF PlaceInv, OncePlaced
  <2> QED
    BY <2>2, <2>4, <2>5, <2>6, <2>7, <2>8 DEF OncePlaced
<1>8. ASSUME NEW d PROVE Placed(d)' <=> Placed(d)
  <2>1. InQueue(d) => InQueue(d)' \/ InList(d)'
    BY <1>4, <1>5, <1>6 DEF InQueue, InList
  <2>2. InList(d) => InList(d)'
    BY <1>6 DEF InList
  <2>3. InQueue(d)' => InQueue(d)
    BY <1>5 DEF InQueue
  <2>4. InList(d)' => InList(d) \/ InQueue(d)
    BY <1>4, <1>6 DEF InQueue, InList
  <2>5. Served(d)' <=> Served(d)
    BY <1>2 DEF Served
  <2> QED
    BY <2>1, <2>2, <2>3, <2>4, <2>5 DEF Placed
<1>9. PlacesOfOpened'
  BY <1>2, <1>8 DEF PlaceInv, PlacesOfOpened, Opened
<1> QED
  BY <1>2, <1>3, <1>7, <1>9 DEF PlaceInv, PlaceTypes, Busy

\* A thread takes the first connection of the list into its hands.
LEMMA TakePlaces == \A t \in Threads : PlaceInv /\ Pool(t) /\ GetFromList(t) => PlaceInv'
<1> SUFFICES ASSUME NEW t \in Threads, PlaceInv, Pool(t), GetFromList(t) PROVE PlaceInv'
  OBVIOUS
<1>1. PICK c : c = heap[head].socket
  OBVIOUS
<1>2. /\ head # 0 /\ head' = heap[head].next /\ tail' = TailAfter /\ heap' = heap
      /\ accept_queue' = accept_queue /\ hung_up' = hung_up /\ cpc' = cpc
      /\ client_fd' = [client_fd EXCEPT ![t] = c]
      /\ tpc[t] = "poll" /\ tpc' = [tpc EXCEPT ![t] = "init"]
  BY <1>1 DEF Pool, GetFromList, netVars, clientVars
<1>3. ListInv /\ ListInv'
  BY PoolStep DEF PlaceInv
<1>4. PICK h : h = head
  OBVIOUS
<1>5. h \in ListNodes /\ ListNodes' = ListNodes \ {h} /\ heap[h].socket = c
  BY <1>1, <1>2, <1>3, <1>4, TakenRemovesNode
<1>6. c \in Peers /\ c # Nobody
  BY <1>3, <1>5, NodesOfHeap, BenchNetAssumption
<1>7. client_fd[t] = Nobody
  BY <1>2 DEF PlaceInv, Busy
<1>8. /\ client_fd'[t] = c /\ \A u \in Threads : u # t => client_fd'[u] = client_fd[u]
      /\ tpc'[t] = "init" /\ \A u \in Threads : u # t => tpc'[u] = tpc[u]
  BY <1>2 DEF PlaceInv, PlaceTypes
<1>9. OncePlaced'
  <2>1. \A u \in Threads : client_fd[u] # c
    BY <1>5 DEF PlaceInv, OncePlaced
  <2>2. \A i \in DOMAIN accept_queue : accept_queue[i] # c
    BY <1>5 DEF PlaceInv, OncePlaced
  <2>3. \A n \in ListNodes' : heap[n].socket # c
    BY <1>5 DEF PlaceInv, OncePlaced
  <2>4. \A u, v \in Threads : client_fd'[u] = client_fd'[v] /\ client_fd'[u] # Nobody => u = v
    BY <1>8, <2>1 DEF PlaceInv, OncePlaced
  <2>5. \A i \in DOMAIN accept_queue', u \in Threads : accept_queue'[i] # client_fd'[u]
    BY <1>2, <1>8, <2>2 DEF PlaceInv, OncePlaced
  <2>6. \A n \in ListNodes', u \in Threads : heap'[n].socket # client_fd'[u]
    BY <1>2, <1>5, <1>8, <2>3 DEF PlaceInv, OncePlaced
  <2> QED
    BY <1>2, <1>5, <2>4, <2>5, <2>6 DEF PlaceInv, OncePlaced
<1>10. ASSUME NEW d \in Peers PROVE Placed(d)' <=> Placed(d)
  <2>1. d # Nobody
    BY BenchNetAssumption
  <2>2. InQueue(d)' <=> InQueue(d)
    BY <1>2 DEF InQueue
  <2>3. CASE d = c
    <3>1. InList(d)
      BY <1>5, <2>3 DEF InList
    <3>2. Served(d)'
      BY <1>8, <2>3 DEF Served
    <3> QED
      BY <3>1, <3>2 DEF Placed
  <2>4. CASE d # c
    <3>1. InList(d)' <=> InList(d)
      BY <1>2, <1>5, <2>4 DEF InList
    <3>2. Served(d)' <=> Served(d)
      BY <1>7, <1>8, <2>1, <2>4 DEF Served
    <3> QED
      BY <2>2, <3>1, <3>2 DEF Placed
  <2> QED
    BY <2>3, <2>4
<1>11. PlacesOfOpened'
  BY <1>2, <1>10 DEF PlaceInv, PlacesOfOpened, Opened
<1>12. Busy'
  BY <1>6, <1>8 DEF PlaceInv, Busy
<1>13. PlaceTypes'
  BY <1>2, <1>6 DEF PlaceInv, PlaceTypes
<1> QED
  BY <1>3, <1>9, <1>11, <1>12, <1>13 DEF PlaceInv

\* A thread lets go of a connection that was hung up.
LEMMA HangUpPlaces == \A t \in Threads : PlaceInv /\ Pool(t) /\ HangUp(t) => PlaceInv'
<1> SUFFICES ASSUME NEW t \in Threads, PlaceInv, Pool(t), HangUp(t) PROVE PlaceInv'
  OBVIOUS
<1>1. PICK c : c = client_fd[t]
  OBVIOUS
<1>2. /\ c \in hung_up /\ UNCHANGED <<heap, head, tail, accept_queue, hung_up, cpc>>
      /\ client_fd' = [client_fd EXCEPT ![t] = Nobody]
      /\ tpc' = [tpc EXCEPT ![t] = "poll"]
  BY <1>1 DEF Pool, HangUp, netVars, clientVars
<1>3. ListInv'
  BY PoolStep DEF PlaceInv
<1>4. /\ client_fd'[t] = Nobody /\ \A u \in Threads : u # t => client_fd'[u] = client_fd[u]
      /\ tpc'[t] = "poll" /\ \A u \in Threads : u # t => tpc'[u] = tpc[u]
  BY <1>2 DEF PlaceInv, PlaceTypes
<1>5. ListNodes' = ListNodes /\ heap' = heap
  BY <1>2 DEF ListNodes
<1>6. OncePlaced'
  <2>1. \A n \in ListNodes : heap[n].socket # Nobody
    BY NodesOfHeap, BenchNetAssumption DEF PlaceInv
  <2>2. \A i \in DOMAIN accept_queue : accept_queue[i] # Nobody
    BY BenchNetAssumption DEF PlaceInv, ListInv, ListTypes
  <2> QED
    BY <1>2, <1>4, <1>5, <2>1, <2>2 DEF PlaceInv, OncePlaced
<1>7. ASSUME NEW d \in Peers
      PROVE  (Placed(d)' => Placed(d)) /\ (Placed(d) /\ d # c => Placed(d)')
  <2>1. d # Nobody
    BY BenchNetAssumption
  <2>2. (InQueue(d)' <=> InQueue(d)) /\ (InList(d)' <=> InList(d))
    BY <1>2, <1>5 DEF InQueue, InList
  <2>3. (Served(d)' => Served(d)) /\ (Served(d) /\ d # c => Served(d)')
    BY <1>1, <1>4, <2>1 DEF Served
  <2> QED
    BY <2>2, <2>3 DEF Placed
<1>8. PlacesOfOpened'
  BY <1>2, <1>7 DEF PlaceInv, PlacesOfOpened, Opened
<1>9. Busy' /\ PlaceTypes'
  BY <1>2, <1>4 DEF PlaceInv, Busy, PlaceTypes
<1> QED
  BY <1>3, <1>6, <1>8, <1>9 DEF PlaceInv

\* Every other step leaves the places alone.
LEMMA PlacesKept ==
  ASSUME PlaceInv, UNCHANGED <<heap, head, tail, accept_queue, client_fd>>,
         Peers \cap hung_up \subseteq hung_up', DOMAIN cpc' = Peers, DOMAIN tpc' = Threads,
         \A c \in Peers : Opened(c)' <=> Opened(c),
         \A t \in Threads : tpc'[t] \in {"init", "serve"} <=> tpc[t] \in {"init", "serve"}
  PROVE  PlaceInv'
<1>1. ListInv'
  BY DEF PlaceInv, ListInv, ListTypes, ListShape
<1>2. ListNodes' = ListNodes
  BY DEF ListNodes
<1>3. OncePlaced'
  BY <1>2 DEF PlaceInv, OncePlaced
<1>4. ASSUME NEW d PROVE Placed(d)' <=> Placed(d)
  BY <1>2 DEF Placed, InQueue, InList, Served
<1>5. PlacesOfOpened'
  BY <1>4 DEF PlaceInv, PlacesOfOpened
<1> QED
  BY <1>1, <1>3, <1>5 DEF PlaceInv, PlaceTypes, Busy

\* A client thread enters the queue when it has no place yet.
LEMMA ConnectPlaces == \A c \in Peers : PlaceInv /\ Client(c) /\ ConnectToServer(c) => PlaceInv'
<1> SUFFICES ASSUME NEW c \in Peers, PlaceInv, Client(c), ConnectToServer(c) PROVE PlaceInv'
  OBVIOUS
<1>1. /\ cpc[c] = "start" /\ accept_queue' = Append(accept_queue, c)
      /\ cpc' = [cpc EXCEPT ![c] = "init"]
      /\ UNCHANGED <<heap, head, tail, client_fd, tpc, hung_up>>
  BY DEF Client, ConnectToServer, At, poolVars
<1>2. ListInv' /\ accept_queue \in Seq(Peers)
  BY ClientsStep DEF PlaceInv, ListInv, ListTypes
<1>3. PICK k : k = Len(accept_queue) + 1
  OBVIOUS
<1>4. /\ k \notin DOMAIN accept_queue /\ DOMAIN accept_queue' = DOMAIN accept_queue \cup {k}
      /\ accept_queue'[k] = c /\ \A i \in DOMAIN accept_queue : accept_queue'[i] = accept_queue[i]
  BY <1>1, <1>2, <1>3
<1>5. ~Placed(c)
  BY <1>1 DEF PlaceInv, PlacesOfOpened, Opened
<1>6. ListNodes' = ListNodes
  BY <1>1 DEF ListNodes
<1>7. OncePlaced'
  <2>1. \A i \in DOMAIN accept_queue : accept_queue[i] # c
    BY <1>5 DEF Placed, InQueue
  <2>2. \A n \in ListNodes : heap[n].socket # c
    BY <1>5 DEF Placed, InList
  <2>3. \A t \in Threads : client_fd[t] # c
    BY <1>5 DEF Placed, Served
  <2>4. \A i, j \in DOMAIN accept_queue' : accept_queue'[i] = accept_queue'[j] => i = j
    BY <1>4, <2>1 DEF PlaceInv, OncePlaced
  <2>5. \A i \in DOMAIN accept_queue', n \in ListNodes' : accept_queue'[i] # heap'[n].socket
    BY <1>1, <1>4, <1>6, <2>2 DEF PlaceInv, OncePlaced
  <2>6. \A i \in DOMAIN accept_queue', t \in Threads : accept_queue'[i] # client_fd'[t]
    BY <1>1, <1>4, <2>3 DEF PlaceInv, OncePlaced
  <2> QED
    BY <1>1, <1>6, <2>4, <2>5, <2>6 DEF PlaceInv, OncePlaced
<1>8. ASSUME NEW d \in Peers PROVE Placed(d)' <=> Placed(d) \/ d = c
  <2>1. InQueue(d)' <=> InQueue(d) \/ d = c
    BY <1>4 DEF InQueue
  <2>2. (InList(d)' <=> InList(d)) /\ (Served(d)' <=> Served(d))
    BY <1>1, <1>6 DEF InList, Served
  <2> QED
    BY <2>1, <2>2 DEF Placed
<1>9. \A d \in Peers : Opened(d)' <=> Opened(d) \/ d = c
  BY <1>1 DEF PlaceInv, PlaceTypes, Opened
<1>10. PlacesOfOpened'
  BY <1>1, <1>8, <1>9 DEF PlaceInv, PlacesOfOpened
<1> QED
  BY <1>1, <1>2, <1>7, <1>10 DEF PlaceInv, PlaceTypes, Busy

\* What the other steps of a client thread leave alone.
LEMMA ClientFrame ==
  ASSUME NEW c \in Peers, Client(c), ~ConnectToServer(c), DOMAIN cpc = Peers
  PROVE  /\ accept_queue' = accept_queue
         /\ Peers \cap hung_up \subseteq hung_up'
         /\ UNCHANGED poolVars
         /\ DOMAIN cpc' = Peers
         /\ \A d \in Peers : Opened(d)' <=> Opened(d)
<1>1. UNCHANGED poolVars
  BY DEF Client
<1>2. CASE Exits(c)
  BY <1>1, <1>2
     DEF Exits, ConnectIssue, ServerGone, CrashOnTrace, ReplyLost, ReadAtEnd, Exit, Opened
<1>3. CASE SendInit(c) \/ ListenForReplies(c) \/ SendOperation(c) \/ RecvAck(c) \/ Verify(c)
  BY <1>1, <1>3 DEF SendInit, ListenForReplies, SendOperation, RecvAck, Verify, At, Opened
<1>4. CASE AcceptServer(c) \/ InitIt(c) \/ ReadKey(c) \/ ReadIt(c)
  BY <1>1, <1>4 DEF AcceptServer, InitIt, ReadKey, ReadIt, netVars, At, Opened
<1>5. CASE CheckIt(c) \/ Advance(c)
  BY <1>1, <1>5 DEF CheckIt, Advance, Verified, netVars, At, Opened
<1> QED
  BY <1>2, <1>3, <1>4, <1>5 DEF Client, ClientThread, Exits

LEMMA PlaceInit == BenchInit => PlaceInv
<1> SUFFICES ASSUME BenchInit PROVE PlaceInv
  OBVIOUS
<1>1. PICK s \in Setups : SetupInit(s)
  BY DEF BenchInit
<1>2. /\ heap = << >> /\ head = 0 /\ tail = 0 /\ accept_queue = << >>
      /\ client_fd = [t \in Threads |-> Nobody]
      /\ tpc = [t \in Threads |-> IF t \in s.pool THEN "poll" ELSE "absent"]
      /\ cpc = [c \in Peers |-> IF c < s.nb_clients THEN "start" ELSE "absent"]
  BY <1>1 DEF BenchInit, SetupInit, PoolInit, ClientInit, NetInit
<1>3. ListInv
  BY <1>2 DEF ListInv, ListTypes, ListShape
<1>4. ListNodes = {} /\ DOMAIN accept_queue = {}
  BY <1>2 DEF ListNodes
<1>5. OncePlaced
  BY <1>2, <1>4 DEF OncePlaced
<1>6. \A c \in Peers : ~Placed(c) /\ ~Opened(c)
  BY <1>2, <1>4, BenchNetAssumption DEF Placed, InQueue, InList, Served, Opened
<1>7. Busy /\ PlaceTypes
  BY <1>2 DEF Busy, PlaceTypes
<1> QED
  BY <1>3, <1>5, <1>6, <1>7 DEF PlaceInv, PlacesOfOpened

LEMMA PlaceStep == PlaceInv /\ [BenchNext]_benchVars => PlaceInv'
<1> SUFFICES ASSUME PlaceInv, [BenchNext]_benchVars PROVE PlaceInv'
  OBVIOUS
<1>1. CASE UNCHANGED benchVars \/ Join
  <2>1. UNCHANGED <<heap, head, tail, accept_queue, client_fd, hung_up, cpc, tpc>>
    BY <1>1 DEF benchVars, netVars, poolVars, clientVars, Join, JoinThreads
  <2> QED
    BY <2>1, PlacesKept DEF PlaceInv, PlaceTypes, Opened
<1>2. CASE Acceptor
  BY <1>2, AcceptPlaces
<1>3. ASSUME NEW t \in Threads, Pool(t) PROVE PlaceInv'
  <2>1. CASE GetFromList(t)
    BY <1>3, <2>1, TakePlaces
  <2>2. CASE HangUp(t)
    BY <1>3, <2>2, HangUpPlaces
  <2>3. CASE RecvInit(t) \/ ServeRequest(t) \/ AbortOnRequest(t)
    <3>1. /\ UNCHANGED <<heap, head, tail, accept_queue, client_fd, hung_up, cpc>>
          /\ tpc' = tpc \/ (tpc[t] = "init" /\ tpc' = [tpc EXCEPT ![t] = "serve"])
      BY <1>3, <2>3 DEF Pool, RecvInit, ServeRequest, AbortOnRequest, poolVars, netVars, clientVars
    <3>2. /\ DOMAIN cpc' = Peers /\ DOMAIN tpc' = Threads
          /\ \A u \in Threads : tpc'[u] \in {"init", "serve"} <=> tpc[u] \in {"init", "serve"}
      BY <3>1 DEF PlaceInv, PlaceTypes
    <3>3. \A c \in Peers : Opened(c)' <=> Opened(c)
      BY <3>1 DEF Opened
    <3> QED
      BY <3>1, <3>2, <3>3, PlacesKept
  <2> QED
    BY <1>3, <2>1, <2>2, <2>3 DEF Pool, PoolThread
<1>4. ASSUME NEW c \in Peers, Client(c) PROVE PlaceInv'
  <2>1. CASE ConnectToServer(c)
    BY <1>4, <2>1, ConnectPlaces
  <2>2. CASE ~ConnectToServer(c)
    <3>1. /\ accept_queue' = accept_queue /\ Peers \cap hung_up \subseteq hung_up'
          /\ DOMAIN cpc' = Peers /\ UNCHANGED <<heap, head, tail, client_fd, tpc>>
          /\ \A d \in Peers : Opened(d)' <=> Opened(d)
      BY <1>4, <2>2, ClientFrame DEF PlaceInv, PlaceTypes, poolVars
    <3> QED
      BY <3>1, PlacesKept DEF PlaceInv, PlaceTypes
  <2> QED
    BY <2>1, <2>2
<1> QED
  BY <1>1, <1>2, <1>3, <1>4 DEF BenchNext

------------------------------------------------------------------------------
(* The list as Walk reads it: the sockets of the nodes from head to tail.     *)

\* A node is linked to the next one allocated, or to none.
Linkage ==
  /\ \A n \in 1..Len(heap) : heap[n].next \in {0, n + 1}
  /\ heap # << >> => heap[Len(heap)].next = 0

LEMMA LinkedKeepsLinkage ==
  ASSUME ListInv, Linkage, NEW c \in Peers, Linked(c)
  PROVE  Linkage'
<1> DEFINE k == Len(heap) + 1
           new == [socket |-> c, next |-> 0]
<1>1. heap \in Seq([socket : Peers, next : Nat]) /\ head \in Nat /\ tail \in Nat /\ k \in Nat \ {0}
  BY DEF ListInv, ListTypes
<1>2. new \in [socket : Peers, next : Nat]
  OBVIOUS
<1>3. CASE tail = 0
  <2>1. heap' = Append(heap, new)
    BY <1>3 DEF Linked
  <2>2. Len(heap') = k /\ heap'[k].next = 0 /\ \A n \in 1..Len(heap) : heap'[n] = heap[n]
    BY <1>1, <1>2, <2>1
  <2>3. ASSUME NEW n \in 1..Len(heap') PROVE heap'[n].next \in {0, n + 1}
    <3>1. n = k \/ n \in 1..Len(heap)
      BY <1>1, <2>2
    <3> QED
      BY <2>2, <3>1 DEF Linkage
  <2> QED
    BY <2>2, <2>3 DEF Linkage
<1>4. CASE tail # 0
  <2> DEFINE old == [heap EXCEPT ![tail].next = k]
  <2>1. tail = Len(heap)
    BY <1>1, <1>4 DEF ListInv, ListShape
  <2>2. heap' = Append(old, new)
    BY <1>4 DEF Linked
  <2>3. tail \in 1..Len(heap) /\ heap[tail] \in [socket : Peers, next : Nat]
    <3>1. tail \in 1..Len(heap)
      BY <1>1, <1>4, <2>1
    <3> QED
      BY <1>1, <3>1, ElementOfSeq
  <2>4. /\ old \in Seq([socket : Peers, next : Nat]) /\ Len(old) = Len(heap)
        /\ old[tail].next = k
        /\ \A n \in 1..Len(heap) : n # tail => old[n] = heap[n]
    BY <1>1, <2>3
  <2>5. Len(heap') = k /\ heap'[k].next = 0 /\ \A n \in 1..Len(heap) : heap'[n] = old[n]
    BY <1>1, <1>2, <2>2, <2>4
  <2>6. \A n \in 1..Len(heap) : heap'[n].next \in {0, n + 1}
    BY <1>1, <2>1, <2>4, <2>5 DEF Linkage
  <2> QED
    BY <1>1, <2>5, <2>6 DEF Linkage
<1> QED
  BY <1>3, <1>4

LEMMA LinkageStep == ListInv /\ Linkage /\ [BenchNext]_benchVars => Linkage'
<1> SUFFICES ASSUME ListInv, Linkage, [BenchNext]_benchVars PROVE Linkage'
  OBVIOUS
<1>1. CASE Acceptor
  <2>1. PICK c : c = Head(accept_queue)
    OBVIOUS
  <2>2. accept_queue # << >> /\ Linked(c)
    BY <1>1, <2>1 DEF Acceptor, AddToList
  <2>3. c \in Peers
    BY <2>1, <2>2 DEF ListInv, ListTypes
  <2> QED
    BY <2>2, <2>3, LinkedKeepsLinkage
<1>2. CASE heap' = heap
  BY <1>2 DEF Linkage
<1>3. CASE UNCHANGED benchVars \/ Join
  BY <1>2, <1>3 DEF benchVars, poolVars, Join
<1>4. ASSUME NEW t \in Threads, Pool(t) PROVE heap' = heap
  BY <1>4 DEF Pool, PoolThread, GetFromList, RecvInit, ServeRequest, AbortOnRequest,
         HangUp, poolVars
<1>5. ASSUME NEW c \in Peers, Client(c) PROVE heap' = heap
  BY <1>5 DEF Client, poolVars
<1> QED
  BY <1>1, <1>2, <1>3, <1>4, <1>5 DEF BenchNext

\* The equation of Walk.
WalkEquation(W) ==
  W = [n \in 0..Len(heap) |->
         IF n = 0 THEN << >> ELSE <<heap[n].socket>> \o W[heap[n].next]]

\* Where the nodes that are linked from n on end.
LEMMA RunEnds ==
  ASSUME ListInv, Linkage, NEW n \in 1..Len(heap)
  PROVE  \E e \in n..Len(heap) : /\ heap[e].next = 0
                                 /\ \A m \in n..(e - 1) : heap[m].next # 0
<1>1. heap \in Seq([socket : Peers, next : Nat]) /\ Len(heap) \in Nat /\ heap # << >>
  BY DEF ListInv, ListTypes
<1> DEFINE T == {m \in n..Len(heap) : heap[m].next = 0}
<1>2. T \in SUBSET Nat /\ T # {}
  BY <1>1 DEF Linkage
<1>3. PICK e \in T : \A m \in T : e <= m
  <2> HIDE DEF T
  <2> QED
    BY <1>2, LeastNatural
<1>4. \A m \in n..(e - 1) : m \notin T /\ m \in n..Len(heap)
  BY <1>1, <1>3
<1> QED
  BY <1>3, <1>4

\* The sockets of the nodes from a to b.
Sockets(a, b) == [i \in 1..(b - a + 1) |-> heap[a + i - 1].socket]

LEMMA SocketsSplit ==
  ASSUME ListInv, NEW b \in 1..Len(heap), NEW a \in 1..b
  PROVE  /\ Sockets(a, b) \in Seq(Peers) /\ Len(Sockets(a, b)) = b - a + 1
         /\ Sockets(b, b) = <<heap[b].socket>>
         /\ a # b => Sockets(a, b) = <<heap[a].socket>> \o Sockets(a + 1, b)
<1>1. heap \in Seq([socket : Peers, next : Nat]) /\ Len(heap) \in Nat
  BY DEF ListInv, ListTypes
<1>2. \A n \in 1..Len(heap) : heap[n].socket \in Peers
  <2>1. \A n \in 1..Len(heap) : heap[n] \in [socket : Peers, next : Nat]
    BY <1>1, ElementOfSeq
  <2> QED
    BY <2>1
<1>3. ASSUME NEW d \in 1..b PROVE Sockets(d, b) \in Seq(Peers) /\ Len(Sockets(d, b)) = b - d + 1
  <2>1. b - d + 1 \in Nat /\ \A i \in 1..(b - d + 1) : d + i - 1 \in 1..Len(heap)
    BY <1>1
  <2>2. \A i \in 1..(b - d + 1) : heap[d + i - 1].socket \in Peers
    BY <1>2, <2>1
  <2> QED
    BY <2>1, <2>2 DEF Sockets
<1>4. Sockets(b, b) = <<heap[b].socket>>
  <2>1. Len(Sockets(b, b)) = 1 /\ Sockets(b, b) \in Seq(Peers)
    <3>1. b \in 1..b /\ b - b + 1 = 1
      BY <1>1
    <3> QED
      BY <1>3, <3>1
  <2>2. Sockets(b, b)[1] = heap[b].socket
    BY <1>1 DEF Sockets
  <2> QED
    BY <2>1, <2>2
<1>5. ASSUME a # b PROVE Sockets(a, b) = <<heap[a].socket>> \o Sockets(a + 1, b)
  <2>1. a + 1 \in 1..b
    BY <1>1, <1>5
  <2>2. PICK R : R = <<heap[a].socket>> \o Sockets(a + 1, b)
    OBVIOUS
  <2>3. heap[a].socket \in Peers
    BY <1>1, <1>2
  <2>4. /\ R \in Seq(Peers) /\ Len(R) = b - a + 1 /\ R[1] = heap[a].socket
        /\ \A i \in 2..(b - a + 1) : R[i] = Sockets(a + 1, b)[i - 1]
    BY <1>1, <1>3, <2>1, <2>2, <2>3
  <2>5. ASSUME NEW i \in 1..(b - a + 1) PROVE R[i] = Sockets(a, b)[i]
    <3>1. Sockets(a, b)[i] = heap[a + i - 1].socket
      BY DEF Sockets
    <3>2. CASE i = 1
      BY <1>1, <2>4, <3>1, <3>2
    <3>3. CASE i # 1
      <4>1. /\ i - 1 \in 1..(b - (a + 1) + 1)
           /\ (a + 1) + (i - 1) - 1 = a + i - 1
           /\ i \in 2..(b - a + 1)
        BY <1>1, <3>3
      <4>2. Sockets(a + 1, b)[i - 1] = heap[(a + 1) + (i - 1) - 1].socket
        BY <4>1 DEF Sockets
      <4> QED
        BY <2>4, <3>1, <4>1, <4>2
    <3> QED
      BY <3>2, <3>3
  <2>6. Sockets(a, b) \in Seq(Peers) /\ Len(Sockets(a, b)) = b - a + 1
    BY <1>3
  <2>7. R = Sockets(a, b)
    BY <2>4, <2>5, <2>6, SeqEqual
  <2> QED
    BY <2>2, <2>7
<1> QED
  BY <1>3, <1>4, <1>5

\* A list has a walk: the recursion of Walk follows finitely many links.
Ends(n, e) == e \in n..Len(heap) /\ heap[e].next = 0 /\ \A m \in n..(e - 1) : heap[m].next # 0
End(n) == CHOOSE e \in n..Len(heap) : Ends(n, e)

LEMMA WalkExists ==
  ASSUME ListInv, Linkage
  PROVE  WalkEquation(Walk)
<1>1. heap \in Seq([socket : Peers, next : Nat]) /\ Len(heap) \in Nat
  BY DEF ListInv, ListTypes
<1> DEFINE W == [n \in 0..Len(heap) |-> IF n = 0 THEN << >> ELSE Sockets(n, End(n))]
<1>2. ASSUME NEW n \in 1..Len(heap) PROVE Ends(n, End(n))
  <2>1. \E e \in n..Len(heap) : Ends(n, e)
    BY RunEnds DEF Ends
  <2> QED
    BY <2>1 DEF End
<1>3. ASSUME NEW n \in 1..Len(heap), NEW d, NEW e, Ends(n, d), Ends(n, e) PROVE d = e
  BY <1>1, <1>3 DEF Ends
<1>4. ASSUME NEW n \in 1..Len(heap)
      PROVE  W[n] = <<heap[n].socket>> \o W[heap[n].next]
  <2>1. /\ W[n] = Sockets(n, End(n))
        /\ W[0] = << >>
        /\ \A m \in 1..Len(heap) : W[m] = Sockets(m, End(m))
    BY <1>1
  <2>2. Ends(n, End(n))
    BY <1>2
  <2> HIDE DEF W
  <2>3. CASE heap[n].next = 0
    <3>1. Ends(n, n)
      BY <1>1, <2>3 DEF Ends
    <3>2. End(n) = n
      BY <1>3, <2>2, <3>1
    <3>3. n \in 1..n
      BY <1>1
    <3>4. Sockets(n, n) = <<heap[n].socket>>
      BY <3>3, SocketsSplit
    <3>5. <<heap[n].socket>> \o << >> = <<heap[n].socket>>
      OBVIOUS
    <3> QED
      BY <2>1, <2>3, <3>2, <3>4, <3>5
  <2>4. CASE heap[n].next # 0
    <3>1. heap[n].next = n + 1 /\ n # Len(heap)
      BY <1>1, <2>4 DEF Linkage
    <3>2. n + 1 \in 1..Len(heap)
      BY <1>1, <3>1
    <3>3. Ends(n + 1, End(n + 1))
      BY <1>2, <3>2
    <3>4. Ends(n, End(n + 1))
      BY <1>1, <2>4, <3>2, <3>3 DEF Ends
    <3>5. End(n) = End(n + 1)
      BY <1>3, <2>2, <3>4
    <3>6. n \in 1..End(n) /\ n # End(n) /\ End(n) \in 1..Len(heap)
      BY <1>1, <2>2, <2>4 DEF Ends
    <3>7. Sockets(n, End(n)) = <<heap[n].socket>> \o Sockets(n + 1, End(n))
      BY <3>6, SocketsSplit
    <3>8. W[n + 1] = Sockets(n + 1, End(n))
      BY <2>1, <3>2, <3>5
    <3> QED
      BY <2>1, <3>1, <3>7, <3>8
  <2> QED
    BY <2>3, <2>4
<1>5. WalkEquation(W)
  <2>1. W = [n \in 0..Len(heap) |-> W[n]] /\ W[0] = << >>
    BY <1>1
  <2> HIDE DEF W
  <2>2. ASSUME NEW n \in 0..Len(heap)
        PROVE  W[n] = IF n = 0 THEN << >> ELSE <<heap[n].socket>> \o W[heap[n].next]
    <3>1. CASE n = 0
      BY <2>1, <3>1
    <3>2. CASE n # 0
      BY <1>4, <3>2
    <3> QED
      BY <3>1, <3>2
  <2> QED
    BY <2>1, <2>2 DEF WalkEquation
<1>6. \E V : WalkEquation(V)
  <2> HIDE DEF W
  <2> QED
    BY <1>5
<1> QED
  BY <1>6 DEF WalkEquation, Walk

\* From head on, it has the sockets of all nodes up to the tail.
LEMMA WalkOfList ==
  ASSUME ListInv, Linkage
  PROVE  Walk[head] = IF head = 0 THEN << >> ELSE Sockets(head, tail)
<1>1. /\ heap \in Seq([socket : Peers, next : Nat])
      /\ Len(heap) \in Nat /\ head \in Nat /\ tail \in Nat
  BY DEF ListInv, ListTypes
<1>2. WalkEquation(Walk)
  BY WalkExists
<1>3. /\ Walk[0] = << >>
      /\ \A n \in 1..Len(heap) : Walk[n] = <<heap[n].socket>> \o Walk[heap[n].next]
  <2>1. PICK W : W = Walk
    OBVIOUS
  <2>2. W = [n \in 0..Len(heap) |->
               IF n = 0 THEN << >> ELSE <<heap[n].socket>> \o W[heap[n].next]]
    BY <1>2, <2>1 DEF WalkEquation
  <2>3. \A n \in 0..Len(heap) :
          W[n] = IF n = 0 THEN << >> ELSE <<heap[n].socket>> \o W[heap[n].next]
    BY <2>2, Zenon
  <2>4. 0 \in 0..Len(heap) /\ \A n \in 1..Len(heap) : n \in 0..Len(heap) /\ n # 0
    BY <1>1
  <2> QED
    BY <2>1, <2>3, <2>4, Zenon
<1>4. CASE head # 0
  <2>1. /\ tail = Len(heap) /\ heap[tail].next = 0 /\ head \in 1..tail
        /\ \A n \in head..(tail - 1) : heap[n].next = n + 1
    BY <1>1, <1>4 DEF ListInv, ListShape
  <2> DEFINE S == {k \in Nat : k <= tail - head => Walk[tail - k] = Sockets(tail - k, tail)}
  <2>2. 0 \in S
    <3>1. tail \in 1..Len(heap) /\ tail \in 1..tail /\ tail - 0 = tail
      BY <1>1, <2>1
    <3>2. Walk[tail] = <<heap[tail].socket>> \o << >>
      BY <1>3, <2>1, <3>1
    <3>3. Sockets(tail, tail) = <<heap[tail].socket>>
      BY <3>1, SocketsSplit
    <3>4. <<heap[tail].socket>> \o << >> = <<heap[tail].socket>>
      OBVIOUS
    <3> QED
      BY <3>1, <3>2, <3>3, <3>4
  <2>3. ASSUME NEW k \in 0..(tail - head - 1), k \in S PROVE k + 1 \in S
    <3>1. PICK n : n = tail - (k + 1)
      OBVIOUS
    <3>2. /\ n \in head..(tail - 1) /\ n + 1 = tail - k /\ k <= tail - head
          /\ n \in 1..Len(heap) /\ n \in 1..tail /\ n # tail
      BY <1>1, <2>1, <3>1
    <3>3. Walk[n + 1] = Sockets(n + 1, tail)
      BY <2>3, <3>2
    <3>4. Walk[n] = <<heap[n].socket>> \o Walk[n + 1]
      BY <1>3, <2>1, <3>2
    <3>5. tail \in 1..Len(heap)
      BY <1>1, <2>1
    <3>6. Sockets(n, tail) = <<heap[n].socket>> \o Sockets(n + 1, tail)
      BY <3>2, <3>5, SocketsSplit
    <3>7. Walk[tail - (k + 1)] = Sockets(tail - (k + 1), tail)
      BY <3>1, <3>3, <3>4, <3>6
    <3> QED
      BY <3>7
  <2>4. tail - head \in Nat
    BY <1>1, <2>1
  <2>5. tail - head \in S
    <3>1. 0..(tail - head) \subseteq S
      <4> HIDE DEF S
      <4> QED
        BY <2>2, <2>3, <2>4, BoundedInduction
    <3> QED
      BY <2>4, <3>1
  <2>6. tail - (tail - head) = head
    BY <1>1
  <2> QED
    BY <1>4, <2>4, <2>5, <2>6
<1> QED
  BY <1>3, <1>4

------------------------------------------------------------------------------
LEMMA CountOfOne ==
  ASSUME NEW S, \A x, y \in S : x = y
  PROVE  Cardinality(S) = IF S = {} THEN 0 ELSE 1
<1>1. CASE S = {}
  BY <1>1, FS_EmptySet
<1>2. CASE S # {}
  <2>1. PICK x \in S : S = {x}
    BY <1>2
  <2> QED
    BY <1>2, <2>1, FS_Singleton
<1> QED
  BY <1>1, <1>2

\* Once places are compared, they can be counted.
LEMMA PlacesCounted == PlaceInv /\ Linkage => ConnectionInOnePlace
<1> SUFFICES ASSUME PlaceInv, Linkage, NEW c \in Peers
             PROVE  LET places == Cardinality(Waits(c)) + Cardinality(Listed(c))
                                    + Cardinality(Servers(c))
                    IN /\ places <= 1
                       /\ (Opened(c) /\ c \notin hung_up) => places = 1
  BY DEF ConnectionInOnePlace
<1>1. /\ heap \in Seq([socket : Peers, next : Nat])
      /\ Len(heap) \in Nat /\ head \in Nat /\ tail \in Nat
      /\ c # Nobody
  BY BenchNetAssumption DEF PlaceInv, ListInv, ListTypes
<1>2. (\A i, j \in Waits(c) : i = j) /\ (Waits(c) # {} <=> InQueue(c))
  BY DEF Waits, InQueue, PlaceInv, OncePlaced
<1>3. (\A t, u \in Servers(c) : t = u) /\ (Servers(c) # {} <=> Served(c))
  BY <1>1 DEF Servers, Served, PlaceInv, OncePlaced
<1>4. (\A i, j \in Listed(c) : i = j) /\ (Listed(c) # {} <=> InList(c))
  <2>1. Walk[head] = IF head = 0 THEN << >> ELSE Sockets(head, tail)
    BY WalkOfList DEF PlaceInv
  <2>2. CASE head = 0
    <3>1. Listed(c) = {}
      BY <2>1, <2>2 DEF Listed
    <3>2. ~InList(c)
      BY <2>2 DEF InList, ListNodes
    <3> QED
      BY <3>1, <3>2
  <2>3. CASE head # 0
    <3>1. tail = Len(heap) /\ head \in 1..tail /\ tail \in 1..Len(heap)
      BY <1>1, <2>3 DEF PlaceInv, ListInv, ListShape
    <3>2. /\ ListNodes = head..tail
          /\ Listed(c) = {i \in 1..(tail - head + 1) : heap[head + i - 1].socket = c}
      BY <2>1, <2>3 DEF ListNodes, Listed, Sockets
    <3>3. \A i, j \in Listed(c) : i = j
      <4> SUFFICES ASSUME NEW i \in Listed(c), NEW j \in Listed(c) PROVE i = j
        OBVIOUS
      <4>1. head + i - 1 \in ListNodes /\ head + j - 1 \in ListNodes
        <5>1. i \in 1..(tail - head + 1) /\ j \in 1..(tail - head + 1)
          BY <3>2
        <5>2. head + i - 1 \in head..tail /\ head + j - 1 \in head..tail
          BY <1>1, <3>1, <5>1
        <5> QED
          BY <3>2, <5>2
      <4>2. head + i - 1 = head + j - 1
        BY <3>2, <4>1 DEF PlaceInv, OncePlaced
      <4> QED
        BY <1>1, <3>2, <4>2
    <3>4. Listed(c) # {} => InList(c)
      BY <1>1, <3>2 DEF InList
    <3>5. ASSUME InList(c) PROVE Listed(c) # {}
      <4>1. PICK n \in head..tail : heap[n].socket = c
        BY <3>2, <3>5 DEF InList
      <4>2. n - head + 1 \in 1..(tail - head + 1) /\ head + (n - head + 1) - 1 = n
        BY <1>1
      <4> QED
        BY <3>2, <4>1, <4>2
    <3> QED
      BY <3>3, <3>4, <3>5
  <2> QED
    BY <2>2, <2>3
<1>5. /\ Cardinality(Waits(c)) = IF InQueue(c) THEN 1 ELSE 0
      /\ Cardinality(Listed(c)) = IF InList(c) THEN 1 ELSE 0
      /\ Cardinality(Servers(c)) = IF Served(c) THEN 1 ELSE 0
  BY <1>2, <1>3, <1>4, CountOfOne
<1>6. /\ ~(InQueue(c) /\ InList(c)) /\ ~(InQueue(c) /\ Served(c)) /\ ~(InList(c) /\ Served(c))
  BY DEF InQueue, InList, Served, PlaceInv, OncePlaced
<1>7. Opened(c) /\ c \notin hung_up => InQueue(c) \/ InList(c) \/ Served(c)
  BY DEF PlaceInv, PlacesOfOpened, Placed
<1> QED
  BY <1>5, <1>6, <1>7

\* Whatever the order of the acceptor, the threads of the pool and the clients,
\* a connection is in the queue, in the list or with one thread, and once.
THEOREM ConnectionsKeepTheirPlace == BenchSpec => []ConnectionInOnePlace
<1>1. BenchInit => PlaceInv /\ Linkage
  <2>1. BenchInit => heap = << >>
    BY DEF BenchInit, SetupInit, PoolInit
  <2> QED
    BY <2>1, PlaceInit DEF Linkage
<1>2. PlaceInv /\ Linkage /\ [BenchNext]_benchVars => (PlaceInv /\ Linkage)'
  BY PlaceStep, LinkageStep DEF PlaceInv
<1> QED
  BY <1>1, <1>2, PlacesCounted, PTL DEF BenchSpec

------------------------------------------------------------------------------
(* The iterators through the trace.                                           *)

\* A thread that was started looks at an operation of the trace.
IteratorInTrace == \A c \in Peers : cpc[c] # "absent" => place[c] \in DOMAIN traces

TraceTypes ==
  /\ nb_clients \in Nat \ {0}
  /\ traces \in Seq(Operation) \ {<< >>}
  /\ DOMAIN place = Peers /\ DOMAIN cpc = Peers

TraceInv == TraceTypes /\ IteratorInTrace

\* Every thread's part of the trace begins within it.
LEMMA PartsBegin ==
  ASSUME NEW L \in Nat \ {0}, NEW n \in Nat \ {0}, NEW c \in Nat, c < n
  PROVE  (L \div n) * c + 1 \in 1..L
<1>1. PICK q \in Nat : q = L \div n /\ n * q <= L
  <2>1. L \div n \in Nat /\ n * (L \div n) <= L
    OBVIOUS
  <2> QED
    BY <2>1
<1>2. CASE q = 0
  BY <1>1, <1>2
<1>3. CASE q # 0
  <2>1. q * c <= q * (n - 1)
    BY <1>1
  <2>2. q * (n - 1) = n * q - q
    BY <1>1
  <2>3. q * c \in Nat /\ q * c <= n * q - q
    BY <1>1, <2>1, <2>2
  <2>4. q * c + 1 \in 1..L
    BY <1>1, <1>3, <2>3
  <2> QED
    BY <1>1, <2>4
<1> QED
  BY <1>2, <1>3

LEMMA TraceStep == TraceInv /\ [BenchNext]_benchVars => TraceInv'
<1> SUFFICES ASSUME TraceInv, [BenchNext]_benchVars PROVE TraceInv'
  OBVIOUS
<1>1. traces \in Seq(Operation) /\ Len(traces) \in Nat \ {0} /\ DOMAIN traces = 1..Len(traces)
  BY DEF TraceInv, TraceTypes
<1>2. ASSUME UNCHANGED <<nb_clients, traces, place>>, DOMAIN cpc' = Peers,
             \A d \in Peers : cpc[d] = "absent" => cpc'[d] = "absent"
      PROVE  TraceInv'
  BY <1>2 DEF TraceInv, TraceTypes, IteratorInTrace
<1>3. CASE UNCHANGED clientVars
  BY <1>2, <1>3 DEF clientVars, setupVars, TraceInv, TraceTypes
<1>4. CASE Acceptor \/ Join \/ \E t \in Threads : Pool(t)
  BY <1>2, <1>4 DEF Acceptor, Pool, Join, JoinThreads, clientVars, setupVars, TraceInv, TraceTypes
<1>5. ASSUME NEW c \in Peers, Client(c) PROVE TraceInv'
  <2>1. CASE SendOperation(c)
    <3>1. /\ cpc[c] = "send" /\ cpc' = [cpc EXCEPT ![c] = "ack"]
          /\ UNCHANGED <<nb_clients, traces>>
          /\ \E p \in Moved(c) : place' = [place EXCEPT ![c] = p]
      BY <2>1 DEF SendOperation, At, setupVars
    <3>2. PICK p \in Moved(c) : place' = [place EXCEPT ![c] = p]
      BY <3>1
    <3>3. place[c] \in 1..Len(traces)
      BY <1>1, <3>1 DEF TraceInv, IteratorInTrace
    <3>4. p \in 1..Len(traces)
      <4>1. CASE place[c] < Len(traces)
        BY <1>1, <3>2, <3>3, <4>1 DEF Moved
      <4>2. CASE ~(place[c] < Len(traces))
        <5>1. PICK r \in 0..(nb_clients - 2) : p = Step * r + 1
          BY <3>2, <4>2 DEF Moved
        <5>2. r \in Nat /\ r < nb_clients /\ nb_clients \in Nat \ {0}
          BY <5>1 DEF TraceInv, TraceTypes
        <5> QED
          BY <1>1, <5>1, <5>2, PartsBegin DEF Step
      <4> QED
        BY <4>1, <4>2
    <3>5. \A d \in Peers : cpc'[d] # "absent" => cpc[d] # "absent"
      BY <3>1 DEF TraceInv, TraceTypes
    <3>6. \A d \in Peers : place'[d] = IF d = c THEN p ELSE place[d]
      BY <3>2 DEF TraceInv, TraceTypes
    <3>7. TraceTypes'
      BY <3>1, <3>2 DEF TraceInv, TraceTypes
    <3>8. IteratorInTrace'
      BY <1>1, <3>1, <3>4, <3>5, <3>6 DEF TraceInv, IteratorInTrace
    <3> QED
      BY <3>7, <3>8 DEF TraceInv
  <2>2. CASE Exits(c)
    BY <1>2, <2>2
       DEF Exits, ConnectIssue, ServerGone, CrashOnTrace, ReplyLost, ReadAtEnd, Exit, setupVars,
           TraceInv, TraceTypes
  <2>3. CASE ConnectToServer(c) \/ SendInit(c) \/ ListenForReplies(c) \/ RecvAck(c) \/ Verify(c)
    BY <1>2, <2>3 DEF ConnectToServer, SendInit, ListenForReplies, RecvAck, Verify, At, setupVars,
         TraceInv, TraceTypes
  <2>4. CASE AcceptServer(c) \/ InitIt(c) \/ ReadKey(c) \/ ReadIt(c)
    BY <1>2, <2>4 DEF AcceptServer, InitIt, ReadKey, ReadIt, At, setupVars, TraceInv, TraceTypes
  <2>5. CASE CheckIt(c) \/ Advance(c)
    BY <1>2, <2>5 DEF CheckIt, Advance, Verified, At, setupVars, TraceInv, TraceTypes
  <2> QED
    BY <1>5, <2>1, <2>2, <2>3, <2>4, <2>5 DEF Client, ClientThread, Exits
<1> QED
  BY <1>3, <1>4, <1>5 DEF BenchNext, benchVars

LEMMA TraceInit == BenchInit => TraceInv
<1> SUFFICES ASSUME BenchInit PROVE TraceInv
  OBVIOUS
<1>1. PICK s \in Setups : SetupInit(s)
  BY DEF BenchInit
<1>2. /\ nb_clients = s.nb_clients /\ traces = s.traces
      /\ cpc = [c \in Peers |-> IF c < s.nb_clients THEN "start" ELSE "absent"]
      /\ place = [c \in Peers |-> Step * c + 1]
  BY <1>1 DEF SetupInit, ClientInit
<1>3. nb_clients \in Nat \ {0} /\ traces \in Seq(Operation) \ {<< >>}
  BY <1>2, SetupAssumption
<1>4. Len(traces) \in Nat \ {0} /\ DOMAIN traces = 1..Len(traces)
  BY <1>3
<1>5. ASSUME NEW c \in Peers, cpc[c] # "absent" PROVE place[c] \in DOMAIN traces
  <2>1. c \in Nat /\ c < nb_clients /\ place[c] = (Len(traces) \div nb_clients) * c + 1
    BY <1>2, <1>5, BenchNetAssumption DEF Step
  <2> QED
    BY <1>3, <1>4, <2>1, PartsBegin
<1> QED
  BY <1>2, <1>3, <1>5 DEF TraceInv, TraceTypes, IteratorInTrace

\* get_operation never reads an operation from behind the end of the trace,
\* wherever the threads' parts begin and however often their iterators wrap.
THEOREM TraceIsNotOverrun == BenchSpec => []IteratorInTrace
<1>1. TraceInv => IteratorInTrace
  BY DEF TraceInv
<1> QED
  BY <1>1, TraceInit, TraceStep, PTL DEF BenchSpec

------------------------------------------------------------------------------
(* The dialog of a client thread and the thread of the pool that serves it.   *)

ServedBy(c, ready) ==
  \E t \in Threads : client_fd[t] = c /\ tpc[t] = "serve" /\ send_fd[t] = ready
Unserved(c) == \A t \in Threads : client_fd[t] = c => tpc[t] # "serve"

Idle(c) == requests[c] = << >> /\ replies[c] = << >>
InitWaits(c) == Unserved(c) /\ \E m : requests[c] = <<m>> /\ m.type = "INIT"
RequestWaits(c) == replies[c] = << >> /\ \E m : requests[c] = <<m>> /\ m.type # "INIT"
ReplyWaits(c) == requests[c] = << >> /\ \E v : replies[c] = <<v>>

\* Where both sides are, as the client thread goes on.
Dialog(c) ==
  \/ /\ cpc[c] \in {"absent", "start", "init"}
     /\ Unserved(c) /\ Idle(c) /\ back[c] = "closed"
  \/ /\ cpc[c] = "bind" /\ back[c] = "closed" /\ replies[c] = << >>
     /\ InitWaits(c) \/ (ServedBy(c, FALSE) /\ requests[c] = << >>)
  \/ /\ cpc[c] = "accept" /\ replies[c] = << >>
     /\ \/ InitWaits(c) /\ back[c] = "listening"
        \/ ServedBy(c, FALSE) /\ requests[c] = << >> /\ back[c] = "listening"
        \/ ServedBy(c, TRUE) /\ requests[c] = << >> /\ back[c] = "connected"
  \/ cpc[c] \in {"send", "check", "next", "step", "advance"} /\ ServedBy(c, TRUE) /\ Idle(c)
  \/ cpc[c] \in {"ack", "verify"} /\ ServedBy(c, TRUE) /\ (RequestWaits(c) \/ ReplyWaits(c))
  \/ cpc[c] = "verified" /\ ~ServedBy(c, FALSE) /\ Idle(c)

DialogTypes ==
  /\ DOMAIN requests = Peers /\ DOMAIN replies = Peers /\ DOMAIN back = Peers
  /\ send_fd \in [Threads -> BOOLEAN]

Dialogs == \A c \in Peers : Dialog(c) /\ (c \in hung_up => cpc[c] = "verified")

DialogInv == PlaceInv /\ DialogTypes /\ (outcome = "running" => Dialogs)

\* A connection is in the hands of one thread.
LEMMA OneServer ==
  ASSUME PlaceInv, NEW c \in Peers, NEW t \in Threads, client_fd[t] = c
  PROVE  /\ \A u \in Threads : client_fd[u] = c => u = t
         /\ Unserved(c) <=> tpc[t] # "serve"
         /\ \A ready : ServedBy(c, ready) <=> tpc[t] = "serve" /\ send_fd[t] = ready
<1>1. c # Nobody
  BY BenchNetAssumption
<1>2. \A u \in Threads : client_fd[u] = c => u = t
  BY <1>1 DEF PlaceInv, OncePlaced
<1> QED
  BY <1>2 DEF Unserved, ServedBy

\* A step that touches neither the peer nor its connections.
LEMMA DialogKept ==
  ASSUME NEW d, Dialog(d), cpc'[d] = cpc[d], requests'[d] = requests[d], replies'[d] = replies[d],
         back'[d] = back[d], Unserved(d)' <=> Unserved(d),
         ServedBy(d, TRUE)' <=> ServedBy(d, TRUE), ServedBy(d, FALSE)' <=> ServedBy(d, FALSE)
  PROVE  Dialog(d)'
<1>1. (Idle(d)' <=> Idle(d)) /\ (InitWaits(d)' <=> InitWaits(d))
  BY DEF Idle, InitWaits
<1>2. (RequestWaits(d)' <=> RequestWaits(d)) /\ (ReplyWaits(d)' <=> ReplyWaits(d))
  BY DEF RequestWaits, ReplyWaits
<1> QED
  BY <1>1, <1>2 DEF Dialog

\* What other threads serve is not this one's.
LEMMA ServersKept ==
  ASSUME NEW d \in Peers,
         \A u \in Threads : \/ client_fd[u] # d /\ client_fd'[u] # d
                            \/ /\ client_fd'[u] = client_fd[u] /\ tpc'[u] = tpc[u]
                               /\ send_fd'[u] = send_fd[u]
                            \/ tpc[u] # "serve" /\ tpc'[u] # "serve"
  PROVE  /\ Unserved(d)' <=> Unserved(d)
         /\ ServedBy(d, TRUE)' <=> ServedBy(d, TRUE)
         /\ ServedBy(d, FALSE)' <=> ServedBy(d, FALSE)
BY DEF Unserved, ServedBy

\* A thread reads INIT, and connects back if the port listens already.
LEMMA RecvInitDialog ==
  \A t \in Threads :
    DialogInv /\ outcome = "running" /\ Pool(t) /\ RecvInit(t) => Dialogs' /\ DialogTypes'
<1> SUFFICES ASSUME NEW t \in Threads, DialogInv, outcome = "running", Pool(t), RecvInit(t)
             PROVE  Dialogs' /\ DialogTypes'
  OBVIOUS
<1>1. PICK c : c = client_fd[t]
  OBVIOUS
<1>2. PICK ready : ready = (back[c] = "listening")
  OBVIOUS
<1>3. /\ tpc[t] = "init" /\ requests[c] # << >>
      /\ requests' = [requests EXCEPT ![c] = Tail(@)]
      /\ send_fd' = [send_fd EXCEPT ![t] = ready]
      /\ back' = IF ready THEN [back EXCEPT ![c] = "connected"] ELSE back
      /\ tpc' = [tpc EXCEPT ![t] = "serve"]
      /\ UNCHANGED <<replies, client_fd, cpc, hung_up>>
  BY <1>1, <1>2 DEF Pool, RecvInit, clientVars
<1>4. c \in Peers
  BY <1>1, <1>3 DEF DialogInv, PlaceInv, PlaceTypes, Busy
<1>5. ready \in BOOLEAN /\ (ready <=> back[c] = "listening")
  BY <1>2
<1>6. DialogTypes'
  BY <1>3, <1>5 DEF DialogInv, DialogTypes
<1>7. /\ tpc'[t] = "serve" /\ send_fd'[t] = ready /\ client_fd'[t] = c
      /\ \A u \in Threads : u # t => tpc'[u] = tpc[u] /\ send_fd'[u] = send_fd[u]
      /\ requests'[c] = Tail(requests[c])
      /\ back'[c] = IF ready THEN "connected" ELSE back[c]
      /\ \A d \in Peers : d # c => requests'[d] = requests[d] /\ back'[d] = back[d]
  BY <1>1, <1>3, <1>4 DEF DialogInv, DialogTypes, PlaceInv, PlaceTypes
<1>8. Dialog(c)'
  <2>1. Unserved(c) /\ ~ServedBy(c, TRUE) /\ ~ServedBy(c, FALSE)
    BY <1>1, <1>3, <1>4, OneServer DEF DialogInv
  <2>2. Dialog(c)
    BY <1>4 DEF DialogInv, Dialogs
  <2>3. /\ InitWaits(c) /\ replies[c] = << >>
        /\ \/ cpc[c] = "bind" /\ back[c] = "closed"
           \/ cpc[c] = "accept" /\ back[c] = "listening"
    BY <1>3, <2>1, <2>2 DEF Dialog, Idle
  <2>4. requests'[c] = << >>
    BY <1>7, <2>3 DEF InitWaits
  <2>5. ServedBy(c, ready)'
    BY <1>7 DEF ServedBy
  <2>6. CASE cpc[c] = "bind"
    BY <1>3, <1>5, <1>7, <2>3, <2>4, <2>5, <2>6 DEF Dialog
  <2>7. CASE cpc[c] = "accept"
    BY <1>3, <1>5, <1>7, <2>3, <2>4, <2>5, <2>7 DEF Dialog
  <2> QED
    BY <2>3, <2>6, <2>7
<1>9. ASSUME NEW d \in Peers, d # c PROVE Dialog(d)'
  <2>1. Dialog(d)
    BY DEF DialogInv, Dialogs
  <2>2. \A u \in Threads : \/ client_fd[u] # d /\ client_fd'[u] # d
                           \/ /\ client_fd'[u] = client_fd[u] /\ tpc'[u] = tpc[u]
                              /\ send_fd'[u] = send_fd[u]
                           \/ tpc[u] # "serve" /\ tpc'[u] # "serve"
    BY <1>1, <1>3, <1>7, <1>9
  <2> QED
    BY <1>3, <1>7, <1>9, <2>1, <2>2, ServersKept, DialogKept
<1>10. \A d \in Peers : d \in hung_up' => cpc'[d] = "verified"
  BY <1>3 DEF DialogInv, Dialogs
<1> QED
  BY <1>6, <1>8, <1>9, <1>10 DEF Dialogs

\* A thread answers a request: it is one of a client that listens.
LEMMA ServeRequestDialog ==
  \A t \in Threads :
    DialogInv /\ outcome = "running" /\ Pool(t) /\ ServeRequest(t) => Dialogs' /\ DialogTypes'
<1> SUFFICES ASSUME NEW t \in Threads, DialogInv, outcome = "running", Pool(t), ServeRequest(t)
             PROVE  Dialogs' /\ DialogTypes'
  OBVIOUS
<1>1. PICK c : c = client_fd[t]
  OBVIOUS
<1>2. /\ tpc[t] = "serve" /\ requests[c] # << >>
      /\ requests' = [requests EXCEPT ![c] = Tail(@)]
      /\ replies' = IF send_fd[t] THEN [replies EXCEPT ![c] = Append(@, NoValue)] ELSE replies
      /\ UNCHANGED <<tpc, send_fd, client_fd, back, cpc, hung_up>>
  BY <1>1 DEF Pool, ServeRequest, Replied, clientVars
<1>3. c \in Peers
  BY <1>1, <1>2 DEF DialogInv, PlaceInv, PlaceTypes, Busy
<1>4. /\ \A d \in Peers : d # c => requests'[d] = requests[d] /\ replies'[d] = replies[d]
      /\ requests'[c] = Tail(requests[c])
      /\ send_fd[t] => replies'[c] = Append(replies[c], NoValue)
      /\ DialogTypes'
  BY <1>2, <1>3 DEF DialogInv, DialogTypes
<1>5. \A d \in Peers : /\ Unserved(d)' <=> Unserved(d)
                       /\ ServedBy(d, TRUE)' <=> ServedBy(d, TRUE)
                       /\ ServedBy(d, FALSE)' <=> ServedBy(d, FALSE)
  BY <1>2 DEF Unserved, ServedBy
<1>6. Dialog(c)'
  <2>1. /\ ~Unserved(c)
        /\ ServedBy(c, TRUE) => send_fd[t] = TRUE
    BY <1>1, <1>2, <1>3, OneServer DEF DialogInv
  <2>2. Dialog(c)
    BY <1>3 DEF DialogInv, Dialogs
  <2>3. cpc[c] \in {"ack", "verify"} /\ ServedBy(c, TRUE) /\ RequestWaits(c)
    BY <1>2, <2>1, <2>2 DEF Dialog, Idle, InitWaits, ReplyWaits
  <2>4. requests'[c] = << >> /\ replies'[c] = <<NoValue>>
    BY <1>4, <2>1, <2>3 DEF RequestWaits
  <2>5. ReplyWaits(c)'
    BY <2>4 DEF ReplyWaits
  <2> QED
    BY <1>2, <1>3, <1>5, <2>3, <2>5 DEF Dialog
<1>7. ASSUME NEW d \in Peers, d # c PROVE Dialog(d)'
  <2>1. Dialog(d)
    BY DEF DialogInv, Dialogs
  <2> QED
    BY <1>2, <1>4, <1>5, <1>7, <2>1, DialogKept
<1>8. \A d \in Peers : d \in hung_up' => cpc'[d] = "verified"
  BY <1>2 DEF DialogInv, Dialogs
<1> QED
  BY <1>4, <1>6, <1>7, <1>8 DEF Dialogs

\* A client thread's step changes its own connections only.
LEMMA ClientTouchesOwn ==
  ASSUME DialogInv, NEW c \in Peers, Client(c)
  PROVE  /\ DialogTypes'
         /\ \A d \in Peers : d # c => /\ cpc'[d] = cpc[d] /\ requests'[d] = requests[d]
                                      /\ replies'[d] = replies[d] /\ back'[d] = back[d]
         /\ outcome' = "running" =>
              hung_up' = hung_up \/ (hung_up' = hung_up \cup {c} /\ cpc'[c] = "verified")
         /\ outcome = "running"
         /\ UNCHANGED poolVars
<1>1. UNCHANGED poolVars
  BY DEF Client
<1>2. DialogTypes /\ DOMAIN cpc = Peers
  BY DEF DialogInv, PlaceInv, PlaceTypes
<1>3. CASE Exits(c)
  BY <1>1, <1>2, <1>3
     DEF Exits, ConnectIssue, ServerGone, CrashOnTrace, ReplyLost, ReadAtEnd, Exit, At,
         DialogTypes, poolVars
<1>4. CASE ConnectToServer(c) \/ SendInit(c) \/ ListenForReplies(c)
  BY <1>1, <1>2, <1>4
     DEF ConnectToServer, SendInit, ListenForReplies, SendTo, At, DialogTypes, poolVars
<1>5. CASE RecvAck(c) \/ Verify(c)
  BY <1>1, <1>2, <1>5 DEF RecvAck, Verify, At, DialogTypes, poolVars
<1>6. CASE SendOperation(c)
  BY <1>1, <1>2, <1>6 DEF SendOperation, SendTo, At, DialogTypes, poolVars
<1>7. CASE AcceptServer(c) \/ InitIt(c) \/ ReadKey(c) \/ ReadIt(c)
  BY <1>1, <1>2, <1>7 DEF AcceptServer, InitIt, ReadKey, ReadIt, At, DialogTypes, poolVars, netVars
<1>8. CASE CheckIt(c)
  BY <1>1, <1>2, <1>8 DEF CheckIt, Verified, At, DialogTypes, poolVars, netVars
<1>9. CASE Advance(c)
  BY <1>1, <1>2, <1>9 DEF Advance, Verified, SendTo, At, DialogTypes, poolVars, netVars
<1> QED
  BY <1>3, <1>4, <1>5, <1>6, <1>7, <1>8, <1>9 DEF Client, ClientThread, Exits

\* ... and takes its dialog one step on.
LEMMA ClientGoesOn ==
  ASSUME DialogInv, TraceInv, NEW c \in Peers, Client(c), outcome' = "running"
  PROVE  Dialog(c)'
<1>1. UNCHANGED poolVars /\ outcome = "running"
  BY ClientTouchesOwn
<1>2. /\ DOMAIN cpc = Peers /\ DOMAIN requests = Peers /\ DOMAIN replies = Peers
      /\ DOMAIN back = Peers
  BY DEF DialogInv, DialogTypes, PlaceInv, PlaceTypes
<1>3. /\ Unserved(c)' <=> Unserved(c)
      /\ ServedBy(c, TRUE)' <=> ServedBy(c, TRUE)
      /\ ServedBy(c, FALSE)' <=> ServedBy(c, FALSE)
  BY <1>1 DEF Unserved, ServedBy, poolVars
<1>4. Dialog(c)
  BY <1>1 DEF DialogInv, Dialogs
<1>5. ServedBy(c, TRUE) => ~ServedBy(c, FALSE)
  <2> SUFFICES ASSUME ServedBy(c, TRUE), ServedBy(c, FALSE) PROVE FALSE
    OBVIOUS
  <2>1. PICK t \in Threads : client_fd[t] = c /\ send_fd[t] = TRUE
    BY DEF ServedBy
  <2> QED
    BY <2>1, OneServer DEF DialogInv
<1>6. CASE Exits(c)
  BY <1>6 DEF Exits, ConnectIssue, ServerGone, CrashOnTrace, ReplyLost, ReadAtEnd, Exit
<1>7. CASE ConnectToServer(c)
  <2>1. cpc[c] = "start" /\ cpc'[c] = "init" /\ UNCHANGED <<requests, replies, back>>
    BY <1>2, <1>7 DEF ConnectToServer, At
  <2> QED
    BY <1>3, <1>4, <2>1 DEF Dialog, Idle
<1>8. CASE SendInit(c)
  <2> DEFINE m == [type |-> "INIT", key |-> 0, value |-> NoValue]
  <2>1. /\ cpc[c] = "init" /\ cpc'[c] = "bind" /\ UNCHANGED <<replies, back>>
        /\ requests'[c] = Append(requests[c], m)
    BY <1>2, <1>8 DEF SendInit, SendTo, At
  <2>2. Unserved(c) /\ Idle(c) /\ back[c] = "closed"
    BY <1>4, <2>1 DEF Dialog
  <2>3. requests'[c] = <<m>> /\ m.type = "INIT"
    BY <2>1, <2>2 DEF Idle
  <2>4. InitWaits(c)'
    <3> HIDE DEF m
    <3> QED
      BY <1>3, <2>2, <2>3 DEF InitWaits
  <2> QED
    BY <2>1, <2>2, <2>4 DEF Dialog, Idle
<1>9. CASE ListenForReplies(c)
  <2>1. /\ cpc[c] = "bind" /\ cpc'[c] = "accept" /\ back'[c] = "listening"
        /\ UNCHANGED <<requests, replies>>
    BY <1>2, <1>9 DEF ListenForReplies, At
  <2> QED
    BY <1>3, <1>4, <2>1 DEF Dialog, InitWaits
<1>10. CASE AcceptServer(c)
  <2>1. /\ cpc[c] = "accept" /\ cpc'[c] = "send" /\ back[c] = "connected"
        /\ UNCHANGED <<requests, replies>>
    BY <1>2, <1>10 DEF AcceptServer, At, netVars
  <2> QED
    BY <1>3, <1>4, <2>1 DEF Dialog, Idle
<1>11. CASE SendOperation(c)
  <2> DEFINE op == traces[place[c]]
             m == [type |-> op.type, key |-> op.key,
                   value |-> IF op.type = "PUT" THEN c ELSE NoValue]
  <2>1. /\ cpc[c] = "send" /\ cpc'[c] = "ack" /\ UNCHANGED <<replies, back>>
        /\ requests'[c] = Append(requests[c], m)
    BY <1>2, <1>11 DEF SendOperation, SendTo, At
  <2>2. ServedBy(c, TRUE) /\ Idle(c)
    BY <1>4, <2>1 DEF Dialog
  <2>3. requests'[c] = <<m>> /\ m.type = op.type
    BY <2>1, <2>2 DEF Idle
  <2>4. op.type # "INIT"
    <3>1. place[c] \in DOMAIN traces /\ traces \in Seq(Operation)
      BY <2>1 DEF TraceInv, TraceTypes, IteratorInTrace
    <3>2. op \in Operation
      BY <3>1, ElementOfSeq
    <3> QED
      BY <3>2 DEF Operation
  <2>5. RequestWaits(c)'
    <3> HIDE DEF m, op
    <3> QED
      BY <2>1, <2>2, <2>3, <2>4 DEF RequestWaits, Idle
  <2> QED
    BY <1>3, <2>1, <2>2, <2>5 DEF Dialog
<1>12. CASE RecvAck(c)
  <2>1. /\ cpc[c] = "ack" /\ cpc'[c] = "send" /\ replies[c] # << >>
        /\ replies'[c] = Tail(replies[c]) /\ UNCHANGED <<requests, back>>
    BY <1>2, <1>12 DEF RecvAck, At
  <2>2. ServedBy(c, TRUE) /\ ReplyWaits(c)
    BY <1>4, <2>1 DEF Dialog, RequestWaits
  <2>3. Idle(c)'
    BY <2>1, <2>2 DEF ReplyWaits, Idle
  <2> QED
    BY <1>3, <2>1, <2>2, <2>3 DEF Dialog
<1>13. CASE Verify(c)
  <2>1. /\ cpc[c] = "verify" /\ cpc'[c] = "check" /\ replies[c] # << >>
        /\ replies'[c] = Tail(replies[c]) /\ UNCHANGED <<requests, back>>
    BY <1>2, <1>13 DEF Verify, At
  <2>2. ServedBy(c, TRUE) /\ ReplyWaits(c)
    BY <1>4, <2>1 DEF Dialog, RequestWaits
  <2>3. Idle(c)'
    BY <2>1, <2>2 DEF ReplyWaits, Idle
  <2> QED
    BY <1>3, <2>1, <2>2, <2>3 DEF Dialog
<1>14. CASE InitIt(c) \/ ReadKey(c) \/ ReadIt(c)
  <2>1. /\ cpc[c] \in {"send", "next", "step"} /\ cpc'[c] \in {"check", "step", "advance"}
        /\ UNCHANGED <<requests, replies, back>>
    BY <1>2, <1>14 DEF InitIt, ReadKey, ReadIt, At, netVars
  <2> QED
    BY <1>3, <1>4, <2>1 DEF Dialog, Idle
<1>15. CASE CheckIt(c)
  <2>1. /\ cpc[c] = "check" /\ cpc'[c] \in {"next", "verified"}
        /\ UNCHANGED <<requests, replies, back>>
    BY <1>2, <1>15 DEF CheckIt, Verified, At, netVars
  <2> QED
    BY <1>3, <1>4, <1>5, <2>1 DEF Dialog, Idle
<1>16. CASE Advance(c)
  <2>1. cpc[c] = "advance"
    BY <1>16 DEF Advance, At
  <2>2. ServedBy(c, TRUE) /\ Idle(c)
    BY <1>4, <2>1 DEF Dialog
  <2>3. CASE kv[c] = 0
    <3>1. cpc'[c] = "verified" /\ UNCHANGED <<requests, replies, back>>
      BY <1>2, <1>16, <2>3 DEF Advance, Verified
    <3> QED
      BY <1>3, <1>5, <2>2, <3>1 DEF Dialog, Idle
  <2>4. CASE kv[c] # 0
    <3> DEFINE m == [type |-> "GET", key |-> kv[c], value |-> NoValue]
    <3>1. /\ cpc'[c] = "verify" /\ UNCHANGED <<replies, back>>
          /\ requests'[c] = Append(requests[c], m)
      BY <1>2, <1>16, <2>4 DEF Advance, SendTo
    <3>2. requests'[c] = <<m>> /\ m.type # "INIT"
      BY <2>2, <3>1 DEF Idle
    <3>3. RequestWaits(c)'
      <4> HIDE DEF m
      <4> QED
        BY <2>2, <3>1, <3>2 DEF RequestWaits, Idle
    <3> QED
      BY <1>3, <2>2, <3>1, <3>3 DEF Dialog
  <2> QED
    BY <2>3, <2>4
<1> QED
  BY <1>6, <1>7, <1>8, <1>9, <1>10, <1>11, <1>12, <1>13, <1>14, <1>15, <1>16
     DEF Client, ClientThread, Exits

LEMMA DialogInit == BenchInit => DialogInv
<1> SUFFICES ASSUME BenchInit PROVE DialogInv
  OBVIOUS
<1>1. PICK s \in Setups : SetupInit(s)
  BY DEF BenchInit
<1>2. /\ requests = [c \in Peers |-> << >>] /\ replies = [c \in Peers |-> << >>]
      /\ back = [c \in Peers |-> "closed"] /\ hung_up = {}
      /\ client_fd = [t \in Threads |-> Nobody] /\ send_fd = [t \in Threads |-> FALSE]
      /\ cpc = [c \in Peers |-> IF c < s.nb_clients THEN "start" ELSE "absent"]
  BY <1>1 DEF BenchInit, SetupInit, PoolInit, ClientInit, NetInit
<1>3. \A c \in Peers : Unserved(c) /\ Idle(c) /\ back[c] = "closed"
  BY <1>2, BenchNetAssumption DEF Unserved, Idle
<1>4. Dialogs /\ DialogTypes
  BY <1>2, <1>3 DEF Dialogs, Dialog, DialogTypes
<1> QED
  BY <1>4, PlaceInit DEF DialogInv

LEMMA DialogStep == DialogInv /\ TraceInv /\ [BenchNext]_benchVars => DialogInv'
<1> SUFFICES ASSUME DialogInv, TraceInv, [BenchNext]_benchVars PROVE DialogInv'
  OBVIOUS
<1>1. PlaceInv'
  BY PlaceStep DEF DialogInv
<1> SUFFICES DialogTypes' /\ (outcome' = "running" => Dialogs')
  BY <1>1 DEF DialogInv
<1>2. ASSUME UNCHANGED <<cpc, requests, replies, back, hung_up, send_fd, outcome>>,
             \A d \in Peers : /\ Unserved(d)' <=> Unserved(d)
                              /\ ServedBy(d, TRUE)' <=> ServedBy(d, TRUE)
                              /\ ServedBy(d, FALSE)' <=> ServedBy(d, FALSE)
      PROVE  DialogTypes' /\ (outcome' = "running" => Dialogs')
  <2>1. DialogTypes'
    BY <1>2 DEF DialogInv, DialogTypes
  <2>2. ASSUME outcome' = "running", NEW d \in Peers
        PROVE  Dialog(d)' /\ (d \in hung_up' => cpc'[d] = "verified")
    <3>1. Dialog(d) /\ (d \in hung_up => cpc[d] = "verified")
      BY <1>2, <2>2 DEF DialogInv, Dialogs
    <3> QED
      BY <1>2, <3>1, DialogKept
  <2> QED
    BY <2>1, <2>2 DEF Dialogs
<1>3. CASE UNCHANGED benchVars \/ Acceptor
  <2>1. /\ UNCHANGED <<cpc, requests, replies, back, hung_up, send_fd, outcome>>
        /\ UNCHANGED <<client_fd, tpc>>
    BY <1>3 DEF benchVars, netVars, poolVars, clientVars, Acceptor, AddToList
  <2> QED
    BY <1>2, <2>1 DEF Unserved, ServedBy
<1>4. CASE Join
  <2>1. outcome' = "ok" /\ UNCHANGED <<requests, replies, back, send_fd>>
    BY <1>4 DEF Join, JoinThreads, poolVars, netVars
  <2> QED
    BY <2>1 DEF DialogInv, DialogTypes
<1>5. ASSUME NEW t \in Threads, Pool(t)
      PROVE  DialogTypes' /\ (outcome' = "running" => Dialogs')
  <2>1. outcome' = outcome
    BY <1>5 DEF Pool, clientVars
  <2>2. CASE RecvInit(t) \/ ServeRequest(t)
    <3>1. outcome = "running" => DialogTypes' /\ Dialogs'
      BY <1>5, <2>2, RecvInitDialog, ServeRequestDialog
    <3>2. DialogTypes'
      BY <2>2 DEF RecvInit, ServeRequest, Replied, DialogInv, DialogTypes
    <3> QED
      BY <2>1, <3>1, <3>2
  <2>3. CASE AbortOnRequest(t)
    <3>1. /\ UNCHANGED <<cpc, requests, replies, back, hung_up, send_fd, outcome>>
          /\ UNCHANGED <<client_fd, tpc>>
      BY <1>5, <2>3 DEF Pool, AbortOnRequest, clientVars, poolVars
    <3> QED
      BY <1>2, <3>1 DEF Unserved, ServedBy
  <2>4. CASE GetFromList(t)
    <3>1. /\ UNCHANGED <<cpc, requests, replies, back, hung_up, send_fd, outcome>>
          /\ tpc[t] = "poll" /\ tpc' = [tpc EXCEPT ![t] = "init"]
          /\ \E c : client_fd' = [client_fd EXCEPT ![t] = c]
      BY <1>5, <2>4 DEF Pool, GetFromList, clientVars, netVars
    <3>2. \A u \in Threads : \/ /\ client_fd'[u] = client_fd[u] /\ tpc'[u] = tpc[u]
                                /\ send_fd'[u] = send_fd[u]
                             \/ tpc[u] # "serve" /\ tpc'[u] # "serve"
      BY <3>1 DEF DialogInv, PlaceInv, PlaceTypes
    <3> QED
      BY <1>2, <3>1, <3>2, ServersKept
  <2>5. CASE HangUp(t)
    <3>1. PICK c : c = client_fd[t]
      OBVIOUS
    <3>2. /\ UNCHANGED <<cpc, requests, replies, back, hung_up, outcome>>
          /\ requests[c] = << >> /\ c \in hung_up /\ tpc[t] \in {"init", "serve"}
          /\ tpc' = [tpc EXCEPT ![t] = "poll"]
          /\ client_fd' = [client_fd EXCEPT ![t] = Nobody]
          /\ send_fd' = [send_fd EXCEPT ![t] = FALSE]
      BY <1>5, <2>5, <3>1 DEF Pool, HangUp, clientVars, netVars
    <3>3. c \in Peers
      BY <3>1, <3>2 DEF DialogInv, PlaceInv, PlaceTypes, Busy
    <3>4. DialogTypes'
      BY <3>2 DEF DialogInv, DialogTypes
    <3>5. /\ client_fd'[t] = Nobody /\ tpc'[t] = "poll"
          /\ \A u \in Threads : u # t => /\ client_fd'[u] = client_fd[u] /\ tpc'[u] = tpc[u]
                                         /\ send_fd'[u] = send_fd[u]
      BY <3>2 DEF DialogInv, DialogTypes, PlaceInv, PlaceTypes
    <3>6. ASSUME outcome = "running", NEW d \in Peers, d # c PROVE Dialog(d)'
      <4>1. Dialog(d)
        BY <3>6 DEF DialogInv, Dialogs
      <4>2. d # Nobody
        BY BenchNetAssumption
      <4>3. \A u \in Threads : \/ client_fd[u] # d /\ client_fd'[u] # d
                               \/ /\ client_fd'[u] = client_fd[u] /\ tpc'[u] = tpc[u]
                                  /\ send_fd'[u] = send_fd[u]
                               \/ tpc[u] # "serve" /\ tpc'[u] # "serve"
        BY <3>1, <3>5, <3>6, <4>2
      <4> QED
        BY <3>2, <4>1, <4>3, ServersKept, DialogKept
    <3>7. ASSUME outcome = "running" PROVE Dialog(c)'
      <4>1. Dialog(c) /\ cpc[c] = "verified"
        BY <3>2, <3>3, <3>7 DEF DialogInv, Dialogs
      <4>2. ~ServedBy(c, FALSE)'
        <5>1. \A u \in Threads : client_fd[u] = c => u = t
          BY <3>1, <3>3, OneServer DEF DialogInv
        <5>2. c # Nobody
          BY <3>3, BenchNetAssumption
        <5> QED
          BY <3>5, <5>1, <5>2 DEF ServedBy
      <4> QED
        BY <3>2, <4>1, <4>2 DEF Dialog, Idle
    <3>8. outcome = "running" => \A d \in Peers : d \in hung_up' => cpc'[d] = "verified"
      BY <3>2 DEF DialogInv, Dialogs
    <3> QED
      BY <2>1, <3>4, <3>6, <3>7, <3>8 DEF Dialogs
  <2> QED
    BY <1>5, <2>2, <2>3, <2>4, <2>5 DEF Pool, PoolThread
<1>6. ASSUME NEW c \in Peers, Client(c)
      PROVE  DialogTypes' /\ (outcome' = "running" => Dialogs')
  <2>1. /\ DialogTypes' /\ UNCHANGED poolVars /\ outcome = "running"
        /\ \A d \in Peers : d # c => /\ cpc'[d] = cpc[d] /\ requests'[d] = requests[d]
                                     /\ replies'[d] = replies[d] /\ back'[d] = back[d]
        /\ outcome' = "running" =>
             hung_up' = hung_up \/ (hung_up' = hung_up \cup {c} /\ cpc'[c] = "verified")
    BY <1>6, ClientTouchesOwn
  <2>2. ASSUME outcome' = "running", NEW d \in Peers, d # c PROVE Dialog(d)'
    <3>1. Dialog(d)
      BY <2>1 DEF DialogInv, Dialogs
    <3>2. /\ Unserved(d)' <=> Unserved(d)
          /\ ServedBy(d, TRUE)' <=> ServedBy(d, TRUE)
          /\ ServedBy(d, FALSE)' <=> ServedBy(d, FALSE)
      BY <2>1 DEF Unserved, ServedBy, poolVars
    <3> QED
      BY <2>1, <2>2, <3>1, <3>2, DialogKept
  <2>3. ASSUME outcome' = "running" PROVE Dialog(c)'
    BY <1>6, <2>3, ClientGoesOn
  <2>4. ASSUME outcome' = "running", NEW d \in Peers, d \in hung_up' PROVE cpc'[d] = "verified"
    <3>1. d \in hung_up => cpc[d] = "verified"
      BY <2>1 DEF DialogInv, Dialogs
    <3>2. CASE d # c
      BY <2>1, <2>4, <3>1, <3>2
    <3>3. CASE d = c /\ d \notin hung_up
      BY <2>1, <2>4, <3>3
    <3>4. CASE d = c /\ d \in hung_up
      <4>1. cpc[c] = "verified"
        BY <3>1, <3>4
      <4> QED
        BY <1>6, <2>4, <4>1 DEF Client, ClientThread, ConnectToServer, ConnectIssue, ServerGone,
           SendInit, ListenForReplies, AcceptServer, SendOperation, CrashOnTrace, RecvAck,
           ReplyLost, InitIt, CheckIt, ReadKey, ReadIt, ReadAtEnd, Advance, Verify, At, Exit
    <3> QED
      BY <3>2, <3>3, <3>4
  <2> QED
    BY <2>1, <2>2, <2>3, <2>4 DEF Dialogs
<1> QED
  BY <1>3, <1>4, <1>5, <1>6 DEF BenchNext

\* What a dialog says of the requests and replies on their way.
LEMMA DialogCounts == DialogInv => OneOutstanding
<1> SUFFICES ASSUME DialogInv, outcome = "running", NEW c \in Peers
             PROVE  /\ Outstanding(c) = IF cpc[c] \in {"ack", "verify"} THEN 1 ELSE 0
                    /\ Refused(c) => cpc[c] \in {"bind", "accept"}
  BY DEF OneOutstanding
<1>1. Dialog(c)
  BY DEF DialogInv, Dialogs
<1>2. ASSUME Idle(c) \/ (InitWaits(c) /\ replies[c] = << >>) PROVE Outstanding(c) = 0
  <2>1. Operations(c) = {}
    BY <1>2 DEF Operations, Idle, InitWaits
  <2> QED
    BY <1>2, <2>1, FS_EmptySet DEF Outstanding, Idle
<1>3. ASSUME RequestWaits(c) PROVE Outstanding(c) = 1
  <2>1. PICK m : requests[c] = <<m>> /\ m.type # "INIT"
    BY <1>3 DEF RequestWaits
  <2>2. Operations(c) = {1}
    BY <2>1 DEF Operations
  <2>3. Cardinality({1}) = 1
    BY FS_Singleton
  <2>4. Len(replies[c]) = 0
    BY <1>3 DEF RequestWaits
  <2> QED
    BY <2>2, <2>3, <2>4 DEF Outstanding
<1>4. ASSUME ReplyWaits(c) PROVE Outstanding(c) = 1
  <2>1. Operations(c) = {} /\ Len(replies[c]) = 1
    BY <1>4 DEF Operations, ReplyWaits
  <2> QED
    BY <2>1, FS_EmptySet DEF Outstanding
<1>5. Outstanding(c) = IF cpc[c] \in {"ack", "verify"} THEN 1 ELSE 0
  BY <1>1, <1>2, <1>3, <1>4 DEF Dialog, Idle
<1>6. ASSUME Refused(c) PROVE cpc[c] \in {"bind", "accept"}
  <2>1. PICK t \in Threads : client_fd[t] = c /\ tpc[t] = "serve" /\ ~send_fd[t]
    BY <1>6 DEF Refused, Servers
  <2>2. send_fd[t] = FALSE
    BY <2>1 DEF DialogInv, DialogTypes
  <2>3. ServedBy(c, FALSE) /\ ~ServedBy(c, TRUE) /\ ~Unserved(c)
    BY <2>1, <2>2, OneServer DEF DialogInv
  <2> QED
    BY <1>1, <2>3 DEF Dialog
<1> QED
  BY <1>5, <1>6

\* Threads of the pool and of the client never talk past each other: a request
\* is answered before the next is sent, and nobody else's answer is taken.
THEOREM RequestsAlternateWithReplies == BenchSpec => []OneOutstanding
<1>1. BenchInit => DialogInv /\ TraceInv
  BY DialogInit, TraceInit
<1>2. DialogInv /\ TraceInv /\ [BenchNext]_benchVars => (DialogInv /\ TraceInv)'
  BY DialogStep, TraceStep
<1> QED
  BY <1>1, <1>2, DialogCounts, PTL DEF BenchSpec

------------------------------------------------------------------------------
(* The iterator that the verifying threads share.                             *)

\* A thread that verifies alone finds the iterator where it compared it.
AloneAtKey ==
  \A c \in Peers :
    cpc[c] \in {"next", "step"} /\ (\A d \in Peers : Verifying(d) => d = c) => it # NoNode

RaceInv ==
  /\ DOMAIN cpc = Peers
  /\ outcome = "running" => AloneAtKey
  /\ CrashNeedsRace

LEMMA RaceStep == RaceInv /\ [BenchNext]_benchVars => RaceInv'
<1> SUFFICES ASSUME RaceInv, [BenchNext]_benchVars PROVE RaceInv'
  OBVIOUS
<1>1. ASSUME UNCHANGED <<cpc, place, traces, nb_clients, it>>,
             outcome' = outcome \/ outcome' \in {"ok", "error"}
      PROVE  RaceInv'
  BY <1>1 DEF RaceInv, AloneAtKey, CrashNeedsRace, Verifying, DividesByZero
<1>2. CASE UNCHANGED clientVars \/ Join
  BY <1>1, <1>2 DEF clientVars, setupVars, Join, JoinThreads
<1>3. CASE Acceptor \/ \E t \in Threads : Pool(t)
  BY <1>2, <1>3 DEF Acceptor, Pool
<1>4. ASSUME NEW c \in Peers, Client(c) PROVE RaceInv'
  <2>1. outcome = "running"
    BY <1>4 DEF Client, ClientThread, ConnectToServer, ConnectIssue, ServerGone, SendInit,
           ListenForReplies, AcceptServer, SendOperation, CrashOnTrace, RecvAck, ReplyLost,
           InitIt, CheckIt, ReadKey, ReadIt, ReadAtEnd, Advance, Verify, At
  <2>2. AloneAtKey
    BY <2>1 DEF RaceInv
  <2>3. ASSUME outcome' = "running", NEW l, l \notin {"next", "step"}, cpc' = [cpc EXCEPT ![c] = l],
               cpc[c] \in {"check", "next", "step", "advance", "verify", "verified"}
                 => l \in {"check", "next", "step", "advance", "verify", "verified"},
               \/ it = NoNode \/ it' # NoNode
               \/ l \in {"check", "next", "step", "advance", "verify", "verified"}
        PROVE  RaceInv'
    <3>1. DOMAIN cpc' = Peers /\ CrashNeedsRace'
      BY <2>3 DEF RaceInv, CrashNeedsRace
    <3>2. cpc'[c] = l /\ \A d \in Peers : d # c => cpc'[d] = cpc[d]
      BY <2>3 DEF RaceInv
    <3>3. \A d \in Peers : Verifying(d) => Verifying(d)'
      BY <2>3, <3>2 DEF Verifying
    <3>4. l \in {"check", "next", "step", "advance", "verify", "verified"} => Verifying(c)'
      BY <3>2 DEF Verifying
    <3>5. AloneAtKey'
      <4> SUFFICES ASSUME NEW e \in Peers, cpc'[e] \in {"next", "step"},
                           \A d \in Peers : Verifying(d)' => d = e
                   PROVE  it' # NoNode
        BY DEF AloneAtKey
      <4>1. e # c /\ cpc[e] \in {"next", "step"}
        BY <2>3, <3>2
      <4>2. it # NoNode
        BY <2>2, <3>3, <4>1 DEF AloneAtKey
      <4>3. ~Verifying(c)'
        BY <4>1
      <4> QED
        BY <2>3, <3>4, <4>2, <4>3
    <3> QED
      BY <3>1, <3>5 DEF RaceInv
  <2>4. CASE ConnectIssue(c) \/ ServerGone(c) \/ ReplyLost(c)
    BY <1>1, <2>4 DEF ConnectIssue, ServerGone, ReplyLost, Exit, setupVars
  <2>5. CASE CrashOnTrace(c)
    BY <2>5 DEF CrashOnTrace, Exit, setupVars, At, RaceInv, CrashNeedsRace, DividesByZero
  <2>6. CASE ReadAtEnd(c)
    <3>1. /\ cpc[c] \in {"next", "step"} /\ it = NoNode /\ outcome' = "crash"
          /\ cpc' = cpc
      BY <2>6 DEF ReadAtEnd, Exit, At
    <3>2. Verifying(c)
      BY <3>1 DEF Verifying
    <3>3. PICK d \in Peers : Verifying(d) /\ d # c
      BY <2>2, <3>1 DEF AloneAtKey
    <3> QED
      BY <3>1, <3>2, <3>3 DEF RaceInv, CrashNeedsRace, Verifying
  <2>7. CASE ConnectToServer(c)
    BY <2>1, <2>3, <2>7 DEF ConnectToServer, At
  <2>8. CASE SendInit(c) \/ ListenForReplies(c)
    BY <2>1, <2>3, <2>8 DEF SendInit, ListenForReplies, At
  <2>9. CASE AcceptServer(c) \/ RecvAck(c)
    BY <2>1, <2>3, <2>9 DEF AcceptServer, RecvAck, At
  <2>10. CASE InitIt(c) \/ Verify(c)
    BY <2>1, <2>3, <2>10 DEF InitIt, Verify, At
  <2>11. CASE ReadIt(c)
    BY <2>1, <2>3, <2>11 DEF ReadIt, At
  <2>12. CASE Advance(c)
    BY <2>1, <2>3, <2>12 DEF Advance, Verified, At
  <2>13. CASE SendOperation(c)
    <3>1. /\ cpc[c] = "send" /\ cpc' = [cpc EXCEPT ![c] = "ack"] /\ outcome' = outcome
          /\ it = NoNode \/ it' # NoNode
      BY <2>13 DEF SendOperation, At
    <3> QED
      BY <2>1, <2>3, <3>1
  <2>14. CASE CheckIt(c)
    <3>1. /\ cpc[c] = "check" /\ UNCHANGED <<it, outcome>>
          /\ \/ it = NoNode /\ cpc' = [cpc EXCEPT ![c] = "verified"]
             \/ it # NoNode /\ cpc' = [cpc EXCEPT ![c] = "next"]
      BY <2>14 DEF CheckIt, Verified, At
    <3>2. CASE it = NoNode
      BY <2>1, <2>3, <3>1, <3>2
    <3>3. CASE it # NoNode
      BY <2>1, <3>1, <3>3 DEF RaceInv, AloneAtKey, CrashNeedsRace
    <3> QED
      BY <3>2, <3>3
  <2>15. CASE ReadKey(c)
    <3>1. /\ it # NoNode /\ cpc[c] = "next" /\ cpc' = [cpc EXCEPT ![c] = "step"]
          /\ UNCHANGED <<it, outcome>>
      BY <2>15 DEF ReadKey, At
    <3> QED
      BY <2>1, <3>1 DEF RaceInv, AloneAtKey, CrashNeedsRace
  <2> QED
    BY <1>4, <2>4, <2>5, <2>6, <2>7, <2>8, <2>9, <2>10, <2>11, <2>12, <2>13, <2>14, <2>15
       DEF Client, ClientThread
<1> QED
  BY <1>2, <1>3, <1>4 DEF BenchNext, benchVars

\* The client crashes at the end of a single thread's trace, or because two
\* threads verify at a time: one that verifies alone is never led past the end.
THEOREM CrashesNeedARace == BenchSpec => []CrashNeedsRace
<1>1. BenchInit => RaceInv
  <2> SUFFICES ASSUME BenchInit PROVE RaceInv
    OBVIOUS
  <2>1. PICK s \in Setups : SetupInit(s)
    BY DEF BenchInit
  <2>2. /\ cpc = [c \in Peers |-> IF c < s.nb_clients THEN "start" ELSE "absent"]
        /\ outcome = "running"
    BY <2>1 DEF SetupInit, ClientInit
  <2>3. \A c \in Peers : cpc[c] \notin {"next", "step"}
    BY <2>2
  <2> QED
    BY <2>2, <2>3 DEF RaceInv, AloneAtKey, CrashNeedsRace
<1>2. RaceInv => CrashNeedsRace
  BY DEF RaceInv
<1> QED
  BY <1>1, <1>2, RaceStep, PTL DEF BenchSpec

=============================================================================
