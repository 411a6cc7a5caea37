-------------------------- MODULE ShardedKV_proofs --------------------------
(***************************************************************************)
(* Proofs about the sharded store, for any servers, clients, keys, values, *)
(* bounds and initial membership, through any crashes and restarts: types, *)
(* where values come from, what REORG deletes, and, while the servers stay *)
(* the same, the refinement of AtomicKV.                                   *)
(***************************************************************************)
EXTENDS ShardedKV, SequenceTheorems, TLAPS

\* Only servers register.
QueuedServersRegister ==
    \A p \in Procs : \A i \in DOMAIN queue[p] :
        queue[p][i].type = "SERVER" => queue[p][i].from \in Servers

\* The keys still to be sent back are keys the master has values for.
ReputKnown == mpc = "reput" => \A k \in reput_left : kv_map[k] # None

\* The inductive invariant behind TypeOK.
TypeInv == TypeOK /\ QueuedServersRegister /\ ReputKnown

-----------------------------------------------------------------------------
(* The network. *)

\* Parsing yields a request of the same type, key and sender, with a value of
\* the right kind.
LEMMA DecodeType ==
    ASSUME NEW m \in Msg
    PROVE  /\ Decode(m) \in Msg
           /\ Decode(m).type = m.type /\ Decode(m).key = m.key /\ Decode(m).from = m.from
BY DEF Decode, Msg, Payload

\* The request a process is about to receive is a request.
LEMMA RequestType ==
    ASSUME NetTypeOK, NEW p \in Procs, queue[p] # <<>>
    PROVE  /\ Request(p) \in Msg
           /\ Request(p).type = queue[p][1].type
           /\ Request(p).key = queue[p][1].key
           /\ Request(p).from = queue[p][1].from
           /\ 1 \in DOMAIN queue[p]
<1>1. queue[p] \in Seq(Msg)
  BY DEF NetTypeOK
<1>2. Head(queue[p]) = queue[p][1] /\ Head(queue[p]) \in Msg /\ 1 \in DOMAIN queue[p]
  BY <1>1
<1> QED
  BY <1>2, DecodeType DEF Request

\* Sending appends one well-formed request and touches no other queue.
LEMMA SendType ==
    ASSUME NetTypeOK, QueuedServersRegister, NEW p \in Procs, NEW m \in Msg, Send(p, m),
           m.type = "SERVER" => m.from \in Servers
    PROVE  queue' \in [Procs -> Seq(Msg)] /\ QueuedServersRegister'
<1>1. queue' \in [Procs -> Seq(Msg)]
  BY DEF Send, NetTypeOK
<1>2. ASSUME NEW q \in Procs, NEW i \in DOMAIN queue'[q], queue'[q][i].type = "SERVER"
      PROVE  queue'[q][i].from \in Servers
  <2>1. CASE q # p
    BY <1>2, <2>1 DEF Send, NetTypeOK, QueuedServersRegister
  <2>2. CASE q = p
    <3>1. queue[p] \in Seq(Msg) /\ queue'[p] = Append(queue[p], m)
      BY DEF Send, NetTypeOK
    <3>2. CASE i = Len(queue[p]) + 1
      BY <1>2, <2>2, <3>1, <3>2
    <3>3. CASE i # Len(queue[p]) + 1
      <4>1. i \in DOMAIN queue[p] /\ queue'[q][i] = queue[p][i]
        BY <1>2, <2>2, <3>1, <3>3
      <4> QED
        BY <1>2, <4>1 DEF QueuedServersRegister
    <3> QED
      BY <3>2, <3>3
  <2> QED
    BY <2>1, <2>2
<1> QED
  BY <1>1, <1>2 DEF QueuedServersRegister

\* Accepting removes the oldest request of one queue.
LEMMA AcceptType ==
    ASSUME NetTypeOK, QueuedServersRegister, NEW p \in Procs, NEW t, Accept(p, t)
    PROVE  queue' \in [Procs -> Seq(Msg)] /\ QueuedServersRegister'
<1>1. queue[p] \in Seq(Msg) /\ queue[p] # <<>> /\ queue'[p] = Tail(queue[p])
  BY DEF Accept, NetTypeOK
<1>2. queue' \in [Procs -> Seq(Msg)]
  BY <1>1 DEF Accept, NetTypeOK
<1>3. ASSUME NEW q \in Procs, NEW i \in DOMAIN queue'[q], queue'[q][i].type = "SERVER"
      PROVE  queue'[q][i].from \in Servers
  <2>1. CASE q # p
    BY <1>3, <2>1 DEF Accept, NetTypeOK, QueuedServersRegister
  <2>2. CASE q = p
    <3>1. i \in 1..Len(Tail(queue[p])) /\ queue'[q][i] = Tail(queue[p])[i]
      <4> DEFINE rest == Tail(queue[p])
      <4>1. rest \in Seq(Msg)
        BY <1>1, HeadTailProperties
      <4>2. queue'[q] = rest
        BY <1>1, <2>2
      <4> HIDE DEF rest
      <4>3. DOMAIN rest = 1..Len(rest)
        BY <4>1
      <4>4. i \in DOMAIN rest /\ queue'[q][i] = rest[i]
        BY <1>3, <4>2
      <4> QED
        BY <4>3, <4>4 DEF rest
    <3>2. i + 1 \in DOMAIN queue[p] /\ queue'[q][i] = queue[p][i + 1]
      <4>1. /\ Len(Tail(queue[p])) = Len(queue[p]) - 1
            /\ \A j \in 1..Len(Tail(queue[p])) : Tail(queue[p])[j] = queue[p][j + 1]
        BY <1>1, HeadTailProperties
      <4> QED
        BY <1>1, <3>1, <4>1
    <3> QED
      BY <1>3, <2>2, <3>2 DEF QueuedServersRegister
  <2> QED
    BY <2>1, <2>2
<1> QED
  BY <1>2, <1>3 DEF QueuedServersRegister

\* Sending puts one request behind those that wait.
LEMMA SendQueue ==
    ASSUME NetTypeOK, NEW p \in Procs, NEW m, Send(p, m)
    PROVE  /\ \A q \in Procs : q # p => queue'[q] = queue[q]
           /\ Len(queue[p]) \in Nat /\ DOMAIN queue[p] = 1..Len(queue[p])
           /\ DOMAIN queue'[p] = 1..(Len(queue[p]) + 1)
           /\ \A i \in 1..Len(queue[p]) : queue'[p][i] = queue[p][i]
           /\ queue'[p][Len(queue[p]) + 1] = m
<1>1. queue[p] \in Seq(Msg) /\ queue'[p] = Append(queue[p], m)
  BY DEF Send, NetTypeOK
<1>2. \A q \in Procs : q # p => queue'[q] = queue[q]
  BY DEF Send, NetTypeOK
<1> QED
  BY <1>1, <1>2

\* Accepting removes the oldest request; the others move up by one.
LEMMA AcceptQueue ==
    ASSUME NetTypeOK, NEW p \in Procs, NEW t, Accept(p, t)
    PROVE  /\ \A q \in Procs : q # p => queue'[q] = queue[q]
           /\ Len(queue[p]) \in Nat /\ DOMAIN queue[p] = 1..Len(queue[p])
           /\ 1 \in DOMAIN queue[p]
           /\ DOMAIN queue'[p] = 1..(Len(queue[p]) - 1)
           /\ \A i \in 1..(Len(queue[p]) - 1) : queue'[p][i] = queue[p][i + 1]
           /\ queue[p] # <<>> /\ queue[p][1].type = t
<1>1. /\ queue[p] \in Seq(Msg) /\ queue[p] # <<>> /\ queue'[p] = Tail(queue[p])
      /\ Request(p).type = t
  BY DEF Accept, NetTypeOK
<1>2. queue[p][1].type = t /\ 1 \in DOMAIN queue[p]
  BY <1>1, RequestType
<1>3. /\ Tail(queue[p]) \in Seq(Msg) /\ Len(Tail(queue[p])) = Len(queue[p]) - 1
      /\ \A i \in 1..Len(Tail(queue[p])) : Tail(queue[p])[i] = queue[p][i + 1]
  BY <1>1, HeadTailProperties
<1>4. DOMAIN queue'[p] = 1..(Len(queue[p]) - 1)
  <2>1. PICK rest : rest = Tail(queue[p])
    OBVIOUS
  <2>2. rest \in Seq(Msg) /\ Len(rest) = Len(queue[p]) - 1 /\ queue'[p] = rest
    BY <1>1, <1>3, <2>1
  <2> QED
    BY <2>2
<1>5. \A q \in Procs : q # p => queue'[q] = queue[q]
  BY DEF Accept, NetTypeOK
<1> QED
  BY <1>1, <1>2, <1>3, <1>4, <1>5

\* The constructors build replies.
LEMMA ReplyTypes ==
    /\ NoReply \in Reply /\ EofReply \in Reply
    /\ \A p \in Servers \cup {NoPort} : PortReply(p) \in Reply
    /\ \A v \in Payload \cup {None} : GetReply(v) \in Reply
    /\ PutReply(TRUE) \in Reply
<1>1. NoReply \in Reply
  BY DEF NoReply, Reply, Payload
<1>2. \A v \in Payload \cup {None} : GetReply(v) \in Reply
  BY DEF GetReply, NoReply, Reply, Payload
<1> QED
  BY <1>1, <1>2 DEF NoReply, EofReply, PortReply, PutReply, Reply, Payload

\* A dying process empties its own queue and ends what waits in it.
LEMMA VanishType ==
    ASSUME NetTypeOK, QueuedServersRegister, NEW p \in Procs, Vanish(p)
    PROVE  NetTypeOK' /\ QueuedServersRegister'
<1>1. queue' \in [Procs -> Seq(Msg)] /\ listening' \in [Procs -> BOOLEAN]
  BY DEF Vanish, NetTypeOK
<1>2. inbox' \in [Clients -> Reply]
  BY ReplyTypes DEF Vanish, NetTypeOK
<1>3. QueuedServersRegister'
  BY DEF Vanish, NetTypeOK, QueuedServersRegister
<1> QED
  BY <1>1, <1>2, <1>3 DEF NetTypeOK
-----------------------------------------------------------------------------
(* The master. *)

LEMMA PortType == ASSUME MasterTypeOK, NEW k PROVE PortOf(k) \in Servers \cup {NoPort}
BY DEF MasterTypeOK, PortOf

\* Keys stay with their shards while no server joins.
LEMMA PortKept == ASSUME UNCHANGED server_port_map, NEW k PROVE PortOf(k)' = PortOf(k)
BY DEF PortOf, num_servers

LEMMA MasterTypes ==
    ASSUME TypeInv, MasterNext
    PROVE  NetTypeOK' /\ MasterTypeOK' /\ QueuedServersRegister' /\ ReputKnown'
<1> USE DEF TypeInv, TypeOK
<1>0. Master \in Procs
  BY DEF Procs
<1>1. ASSUME NEW t, MasterReceives(t)
      PROVE  /\ Request(Master) \in Msg /\ queue' \in [Procs -> Seq(Msg)]
             /\ QueuedServersRegister'
             /\ Request(Master).type = t
             /\ t = "SERVER" => Request(Master).from \in Servers
             /\ fds + 1 \in 0..FdLimit /\ mpc = "accept"
  <2>1. Accept(Master, t) /\ fds < FdLimit /\ mpc = "accept"
    BY <1>1 DEF MasterReceives
  <2>2. queue[Master] # <<>> /\ Request(Master).type = t
    BY <2>1 DEF Accept
  <2>3. queue' \in [Procs -> Seq(Msg)] /\ QueuedServersRegister'
    BY <1>0, <2>1, AcceptType
  <2>4. Request(Master) \in Msg /\ (t = "SERVER" => Request(Master).from \in Servers)
    BY <1>0, <2>2, RequestType DEF QueuedServersRegister
  <2>5. fds + 1 \in 0..FdLimit
    BY <2>1, MasterAssumption DEF MasterTypeOK
  <2> QED
    BY <2>1, <2>2, <2>3, <2>4, <2>5
<1>2. CASE MasterDrop
  BY <1>1, <1>2 DEF MasterDrop, masterVars, NetTypeOK, MasterTypeOK, ReputKnown
<1>3. CASE MasterPut
  <2>1. Request(Master).key \in KeyFields /\ Request(Master).value \in Payload
    BY <1>1, <1>3 DEF MasterPut, Msg
  <2>2. kv_map' \in [KeyFields -> Payload \cup {None}]
    BY <1>3, <2>1 DEF MasterPut, MasterTypeOK
  <2> QED
    BY <1>1, <1>3, <2>2 DEF MasterPut, NetTypeOK, MasterTypeOK, ReputKnown
<1>4. CASE MasterJoin
  <2>1. Request(Master).from \in Servers
    BY <1>1, <1>4 DEF MasterJoin
  <2>2. server_port_map' \in Seq(Servers)
    BY <1>4, <2>1 DEF MasterJoin, MasterTypeOK
  <2> QED
    BY <1>1, <1>4, <2>2 DEF MasterJoin, NetTypeOK, MasterTypeOK, ReputKnown
<1>5. CASE MasterLookup
  <2>1. inbox' \in [Clients -> Reply]
    BY <1>5, PortType, ReplyTypes DEF MasterLookup, Respond, NetTypeOK
  <2> QED
    BY <1>1, <1>5, <2>1 DEF MasterLookup, NetTypeOK, MasterTypeOK, ReputKnown
<1>6. CASE MasterReorg
  <2> DEFINE m == MkMsg("REORG", 0, Empty, Master)
  <2>1. m \in Msg /\ m.type # "SERVER"
    BY <1>0 DEF MkMsg, Msg, KeyFields, Payload
  <2>2. server_port_map[reorg_next] \in Procs /\ Send(server_port_map[reorg_next], m)
    BY <1>6 DEF MasterReorg, CanConnect
  <2>3. queue' \in [Procs -> Seq(Msg)] /\ QueuedServersRegister'
    BY <2>1, <2>2, SendType
  <2>4. fds' \in 0..FdLimit
    BY <1>6, MasterAssumption DEF MasterReorg, MasterTypeOK
  <2> QED
    BY <1>6, <2>3, <2>4 DEF MasterReorg, NetTypeOK, MasterTypeOK, ReputKnown, KnownKeys
<1>7. CASE MasterReorgPut
  <2>1. PICK k \in reput_left :
            /\ CanConnect(PortOf(k))
            /\ Send(PortOf(k), MkMsg("REORG_PUT", k, kv_map[k], Master))
            /\ reput_left' = reput_left \ {k}
    BY <1>7 DEF MasterReorgPut
  <2> DEFINE m == MkMsg("REORG_PUT", k, kv_map[k], Master)
  <2>2. k \in KeyFields /\ kv_map[k] \in Payload
    BY <1>7 DEF MasterReorgPut, ReputKnown, MasterTypeOK
  <2>3. m \in Msg /\ m.type # "SERVER"
    BY <1>0, <2>2 DEF MkMsg, Msg
  <2>4. queue' \in [Procs -> Seq(Msg)] /\ QueuedServersRegister'
    BY <2>1, <2>3, SendType DEF CanConnect
  <2> QED
    BY <1>7, <2>1, <2>4 DEF MasterReorgPut, NetTypeOK, MasterTypeOK, ReputKnown
<1>8. CASE MasterReorgDone
  BY <1>8 DEF MasterReorgDone, netVars, NetTypeOK, MasterTypeOK, ReputKnown, QueuedServersRegister
<1>9. CASE MasterConnectFails \/ MasterDividesByZero
  <2>1. MasterLeaves
    BY <1>9 DEF MasterConnectFails, MasterDividesByZero
  <2>2. NetTypeOK' /\ QueuedServersRegister'
    BY <1>0, <2>1, VanishType DEF MasterLeaves
  <2> QED
    BY <2>1, <2>2 DEF MasterLeaves, MasterTypeOK, ReputKnown
<1>10. CASE MasterOutOfDescriptors
  BY <1>10
  DEF MasterOutOfDescriptors, netVars, NetTypeOK, MasterTypeOK, ReputKnown, QueuedServersRegister
<1> QED
  BY <1>2, <1>3, <1>4, <1>5, <1>6, <1>7, <1>8, <1>9, <1>10 DEF MasterNext
-----------------------------------------------------------------------------
(* The shards. *)

LEMMA LookupType ==
    ASSUME ServerTypeOK, NEW s \in Servers, NEW k
    PROVE  Lookup(s, k) \in Payload \cup {None}
BY DEF ServerTypeOK, Lookup

LEMMA ServerTypes ==
    ASSUME TypeInv, ServerNext, UNCHANGED masterVars
    PROVE  NetTypeOK' /\ ServerTypeOK' /\ QueuedServersRegister'
<1> USE DEF TypeInv, TypeOK
<1>0. PICK s \in Servers :
         \/ ServerStep(s) \/ ServerJoin(s) \/ ServerJoinFails(s)
         \/ ServerCrash(s) \/ ServerCrashInPut(s)
  BY DEF ServerNext
<1>1. s \in Procs /\ Master \in Procs
  BY DEF Procs
<1>2. ASSUME NEW t, ServerReceives(s, t)
      PROVE  /\ Request(s) \in Msg /\ queue' \in [Procs -> Seq(Msg)]
             /\ QueuedServersRegister'
  <2>1. Accept(s, t)
    BY <1>2 DEF ServerReceives
  <2>2. queue[s] # <<>>
    BY <2>1 DEF Accept
  <2> QED
    BY <1>1, <2>1, <2>2, AcceptType, RequestType
<1>3. ASSUME Request(s) \in Msg
      PROVE  /\ Request(s).key \in KeyFields /\ Request(s).value \in Payload
             /\ StoreRequest(s) => db' \in [Servers -> [KeyFields -> Payload \cup {None}]]
  <2>1. Request(s).key \in KeyFields /\ Request(s).value \in Payload
    BY <1>3 DEF Msg
  <2>2. ASSUME StoreRequest(s)
        PROVE  db' \in [Servers -> [KeyFields -> Payload \cup {None}]]
    BY <2>1, <2>2 DEF StoreRequest, ServerTypeOK
  <2> QED
    BY <2>1, <2>2
<1>4. CASE ServerJoin(s)
  <2> DEFINE m == MkMsg("SERVER", 0, Empty, s)
  <2>1. m \in Msg /\ m.from \in Servers
    BY <1>1 DEF MkMsg, Msg, KeyFields, Payload
  <2>2. queue' \in [Procs -> Seq(Msg)] /\ QueuedServersRegister'
    BY <1>1, <1>4, <2>1, SendType DEF ServerJoin
  <2> QED
    BY <1>4, <2>2 DEF ServerJoin, NetTypeOK, ServerTypeOK
<1>5. CASE ServerJoinFails(s)
  BY <1>5 DEF ServerJoinFails, netVars, NetTypeOK, ServerTypeOK, QueuedServersRegister
<1>6. CASE ServerListen(s)
  BY <1>1, <1>6 DEF ServerListen, NetTypeOK, ServerTypeOK, QueuedServersRegister
<1>7. CASE ServerDrop(s)
  BY <1>2, <1>7 DEF ServerDrop, serverVars, NetTypeOK, ServerTypeOK
<1>8. CASE ServerReorg(s)
  BY <1>2, <1>8 DEF ServerReorg, NetTypeOK, ServerTypeOK
<1>9. CASE ServerReorgPut(s)
  BY <1>2, <1>3, <1>9 DEF ServerReorgPut, Remember, NetTypeOK, ServerTypeOK
<1>10. CASE ServerPut(s)
  <2>1. inbox' \in [Clients -> Reply]
    BY <1>10, ReplyTypes DEF ServerPut, Respond, NetTypeOK
  <2> QED
    BY <1>2, <1>3, <1>10, <2>1 DEF ServerPut, NetTypeOK, ServerTypeOK
<1>11. CASE ServerNotify(s)
  <2>1. note[s].key \in KeyFields /\ note[s].value \in Payload
    BY DEF ServerTypeOK, Msg
  <2>2. Report(s) \in Msg /\ Report(s).type # "SERVER"
    BY <1>1, <2>1 DEF Report, MkMsg, Msg
  <2>3. queue' \in [Procs -> Seq(Msg)] /\ QueuedServersRegister'
    BY <1>1, <1>11, <2>2, SendType DEF ServerNotify
  <2> QED
    BY <1>11, <2>1, <2>3 DEF ServerNotify, Remember, NetTypeOK, ServerTypeOK
<1>12. CASE ServerGet(s)
  <2>1. inbox' \in [Clients -> Reply]
    BY <1>12, ReplyTypes, LookupType DEF ServerGet, Respond, NetTypeOK
  <2> QED
    BY <1>2, <1>12, <2>1 DEF ServerGet, serverVars, NetTypeOK, ServerTypeOK
<1>13. CASE ServerNotifyFails(s) \/ ServerCrash(s)
  <2>1. ServerStops(s) /\ crashes' \in Nat
    BY <1>13 DEF ServerNotifyFails, ServerCrash, ServerTypeOK
  <2>2. NetTypeOK' /\ QueuedServersRegister'
    BY <1>1, <2>1, VanishType DEF ServerStops
  <2> QED
    BY <2>1, <2>2 DEF ServerStops, ServerTypeOK
<1>14. CASE ServerCrashInPut(s)
  <2>1. NetTypeOK' /\ QueuedServersRegister'
    BY <1>1, <1>14, VanishType DEF ServerCrashInPut
  <2>2. Request(s) \in Msg
    BY <1>1, <1>14, RequestType DEF ServerCrashInPut
  <2> QED
    BY <1>3, <1>14, <2>1, <2>2 DEF ServerCrashInPut, ServerTypeOK
<1> QED
  BY <1>0, <1>4, <1>5, <1>6, <1>7, <1>8, <1>9, <1>10, <1>11, <1>12, <1>13, <1>14
  DEF ServerStep
-----------------------------------------------------------------------------
(* The clients. *)

LEMMA AsksType ==
    ASSUME ClientTypeOK, NEW c \in Clients
    PROVE  Asks(c) \in Msg /\ Asks(c).type # "SERVER"
<1>1. op[c].type \in {"PUT", "GET"} /\ op[c].key \in KeyFields /\ op[c].value \in Payload
  BY ClientAssumption DEF ClientTypeOK, KeyFields
<1> QED
  BY <1>1 DEF Asks, MkMsg, Msg, Payload

LEMMA ClientTypes ==
    ASSUME TypeInv, ClientNext
    PROVE  NetTypeOK' /\ ClientTypeOK' /\ QueuedServersRegister'
<1> USE DEF TypeInv, TypeOK
<1>0. PICK c \in Clients : ClientStep(c) \/ ClientKilled(c)
  BY DEF ClientNext
<1>1. CASE ClientSend(c)
  <2>1. queue' \in [Procs -> Seq(Msg)] /\ QueuedServersRegister'
    BY <1>1, AsksType, SendType DEF ClientSend, CanConnect
  <2> QED
    BY <1>1, <2>1, ReplyTypes DEF ClientSend, NetTypeOK, ClientTypeOK
<1>2. CASE ClientRefused(c)
  BY <1>2 DEF ClientRefused, Exit, netVars, NetTypeOK, ClientTypeOK, QueuedServersRegister
<1>3. CASE ClientKilled(c)
  <2> DEFINE m == MkMsg("EOF", 0, Empty, c)
  <2>1. m \in Msg /\ m.type # "SERVER"
    BY DEF MkMsg, Msg, KeyFields, Payload
  <2>2. queue' \in [Procs -> Seq(Msg)] /\ QueuedServersRegister'
    BY <1>3, <2>1, SendType DEF ClientKilled, CanConnect
  <2> QED
    BY <1>3, <2>2 DEF ClientKilled, NetTypeOK, ClientTypeOK
<1>4. CASE ClientRouted(c)
  <2>1. inbox[c].port \in Servers \cup {NoPort}
    BY DEF NetTypeOK, Reply
  <2> QED
    BY <1>4, <2>1
    DEF ClientRouted, netVars, NetTypeOK, ClientTypeOK, QueuedServersRegister
<1>5. CASE ClientAnswered(c)
  BY <1>5 DEF ClientAnswered, Exit, netVars, NetTypeOK, ClientTypeOK, QueuedServersRegister
<1>6. CASE ClientCutOff(c)
  BY <1>6 DEF ClientCutOff, Exit, netVars, NetTypeOK, ClientTypeOK, QueuedServersRegister
<1> QED
  BY <1>0, <1>1, <1>2, <1>3, <1>4, <1>5, <1>6 DEF ClientStep
-----------------------------------------------------------------------------
(* The system. *)

LEMMA InitTypes == Init => TypeInv
<1> SUFFICES ASSUME Init PROVE TypeInv
  OBVIOUS
<1>1. NetTypeOK /\ QueuedServersRegister
  BY ReplyTypes DEF Init, NetTypeOK, QueuedServersRegister
<1>2. MasterTypeOK /\ ReputKnown
  <2>1. Len(Formed) \in Nat /\ FormedFds \in 0..FdLimit
    BY FormedAssumption, MasterAssumption DEF FormedFds
  <2> QED
    BY <2>1, FormedAssumption DEF Init, MasterTypeOK, ReputKnown, num_servers
<1>3. ServerTypeOK
  <2>1. NoNote \in Msg
    BY DEF NoNote, MkMsg, Msg, KeyFields, Payload, Procs
  <2> QED
    BY <2>1 DEF Init, ServerTypeOK
<1>4. ClientTypeOK
  BY ClientAssumption DEF Init, ClientTypeOK
<1> QED
  BY <1>1, <1>2, <1>3, <1>4 DEF TypeInv, TypeOK

LEMMA NextTypes == TypeInv /\ [Next]_vars => TypeInv'
<1> SUFFICES ASSUME TypeInv, [Next]_vars PROVE TypeInv'
  OBVIOUS
<1> USE DEF TypeInv, TypeOK
<1>1. CASE MasterNext /\ UNCHANGED <<serverVars, clientVars>>
  BY <1>1, MasterTypes DEF serverVars, clientVars, ServerTypeOK, ClientTypeOK
<1>2. CASE ServerNext /\ UNCHANGED <<masterVars, clientVars>>
  BY <1>2, ServerTypes DEF masterVars, clientVars, MasterTypeOK, ClientTypeOK, ReputKnown
<1>3. CASE ClientNext /\ UNCHANGED <<masterVars, serverVars>>
  BY <1>3, ClientTypes DEF masterVars, serverVars, MasterTypeOK, ServerTypeOK, ReputKnown
<1>4. CASE UNCHANGED vars
  BY <1>4 DEF vars, netVars, masterVars, serverVars, clientVars, NetTypeOK, MasterTypeOK,
              ServerTypeOK, ClientTypeOK, QueuedServersRegister, ReputKnown
<1> QED
  BY <1>1, <1>2, <1>3, <1>4 DEF Next, Rest

\* Every variable keeps its type, whatever joins, crashes or is redistributed.
THEOREM TypeCorrect == Spec => []TypeOK
<1>1. Spec => []TypeInv
  BY InitTypes, NextTypes, PTL DEF Spec
<1>2. TypeInv => TypeOK
  BY DEF TypeInv
<1> QED
  BY <1>1, <1>2, PTL
-----------------------------------------------------------------------------
(* Provenance. *)

\* The requests that tell of a write, told truthfully.
Truthful ==
    {m \in Msg : m.type \in {"PUT", "MASTER_PUT", "REORG_PUT"} =>
                     WrittenFor(m.key, Decode(m).value)}

\* The inductive invariant behind Provenance: the values in the databases and
\* in the master's map are written ones, and so are those on their way, in a
\* request or in the note of a server that has yet to report.
ProvenanceInv ==
    /\ queue \in [Procs -> Seq(Truthful)]
    /\ \A k \in KeyFields :
          /\ kv_map[k] # None => WrittenFor(k, kv_map[k])
          /\ \A s \in Servers : db[s][k] # None => WrittenFor(k, db[s][k])
    /\ \A s \in Servers : spc[s] = "notify" => WrittenFor(note[s].key, note[s].value)

\* What the wire does to the value of a written pair leaves it written.
LEMMA DecodeWritten ==
    ASSUME NEW m \in Msg, WrittenFor(m.key, m.value)
    PROVE  WrittenFor(m.key, Decode(m).value)
BY DEF WrittenFor, Decode, Msg

\* A queue of requests from a set stays one when such a request is sent ...
LEMMA SendIn ==
    ASSUME NEW S, queue \in [Procs -> Seq(S)], NEW p \in Procs, NEW m \in S, Send(p, m)
    PROVE  queue' \in [Procs -> Seq(S)]
BY DEF Send

\* ... and when one is accepted, which is then the parsed request.
LEMMA AcceptIn ==
    ASSUME NEW S, queue \in [Procs -> Seq(S)], NEW p \in Procs, queue[p] # <<>>
    PROVE  /\ \E m \in S : Request(p) = Decode(m)
           /\ \A t : Accept(p, t) => queue' \in [Procs -> Seq(S)]
<1>1. Head(queue[p]) \in S /\ Tail(queue[p]) \in Seq(S)
  BY HeadTailProperties
<1>2. \E m \in S : Request(p) = Decode(m)
  BY <1>1 DEF Request
<1>3. ASSUME NEW t, Accept(p, t) PROVE queue' \in [Procs -> Seq(S)]
  BY <1>1, <1>3 DEF Accept
<1> QED
  BY <1>2, <1>3

LEMMA VanishIn ==
    ASSUME NEW S, queue \in [Procs -> Seq(S)], NEW p \in Procs, Vanish(p)
    PROVE  queue' \in [Procs -> Seq(S)]
BY DEF Vanish

\* A received write is a written one.
LEMMA RequestWritten ==
    ASSUME ProvenanceInv, NEW p \in Procs, queue[p] # <<>>,
           Request(p).type \in {"PUT", "MASTER_PUT", "REORG_PUT"}
    PROVE  WrittenFor(Request(p).key, Request(p).value)
<1>1. PICK m \in Truthful : Request(p) = Decode(m)
  BY AcceptIn DEF ProvenanceInv
<1>2. Decode(m).type = m.type /\ Decode(m).key = m.key
  BY DecodeType DEF Truthful
<1> QED
  BY <1>1, <1>2 DEF Truthful

LEMMA MasterProvenance ==
    ASSUME TypeInv, ProvenanceInv, MasterNext, UNCHANGED <<serverVars, clientVars>>
    PROVE  ProvenanceInv'
<1> USE DEF TypeInv, TypeOK
<1>0. Master \in Procs /\ Truthful' = Truthful
  BY DEF Procs, clientVars, Truthful, WrittenFor, Decode
<1>1. ASSUME NEW t, MasterReceives(t) PROVE queue' \in [Procs -> Seq(Truthful)]
  <2>1. Accept(Master, t) /\ queue[Master] # <<>>
    BY <1>1 DEF MasterReceives, Accept
  <2> QED
    BY <1>0, <2>1, AcceptIn DEF ProvenanceInv
<1>2. ASSUME queue' \in [Procs -> Seq(Truthful)], UNCHANGED kv_map PROVE ProvenanceInv'
  BY <1>0, <1>2 DEF ProvenanceInv, serverVars, clientVars, WrittenFor
<1>3. CASE MasterPut
  <2>1. queue[Master] # <<>> /\ Request(Master).type = "MASTER_PUT"
    BY <1>3 DEF MasterPut, MasterReceives, Accept
  <2>2. WrittenFor(Request(Master).key, Request(Master).value)
    BY <1>0, <2>1, RequestWritten
  <2>3. \A k \in KeyFields : kv_map'[k] # None => WrittenFor(k, kv_map'[k])
    BY <1>3, <2>2 DEF MasterPut, MasterTypeOK, ProvenanceInv
  <2> QED
    BY <1>0, <1>1, <1>3, <2>3 DEF MasterPut, ProvenanceInv, serverVars, clientVars, WrittenFor
<1>4. CASE MasterDrop \/ MasterJoin \/ MasterLookup
  BY <1>1, <1>2, <1>4 DEF MasterDrop, MasterJoin, MasterLookup, masterVars
<1>5. CASE MasterReorg
  <2> DEFINE m == MkMsg("REORG", 0, Empty, Master)
  <2>1. m \in Truthful
    BY <1>0 DEF MkMsg, Truthful, Msg, KeyFields, Payload
  <2>2. server_port_map[reorg_next] \in Procs /\ Send(server_port_map[reorg_next], m)
    BY <1>5 DEF MasterReorg, CanConnect
  <2>3. queue' \in [Procs -> Seq(Truthful)]
    BY <2>1, <2>2, SendIn DEF ProvenanceInv
  <2> QED
    BY <1>2, <1>5, <2>3 DEF MasterReorg
<1>6. CASE MasterReorgPut
  <2>1. PICK k \in reput_left :
            /\ CanConnect(PortOf(k))
            /\ Send(PortOf(k), MkMsg("REORG_PUT", k, kv_map[k], Master))
    BY <1>6 DEF MasterReorgPut
  <2> DEFINE m == MkMsg("REORG_PUT", k, kv_map[k], Master)
  <2>2. k \in KeyFields /\ kv_map[k] \in Payload /\ kv_map[k] # None
    BY <1>6 DEF MasterReorgPut, ReputKnown, MasterTypeOK
  <2>3. m \in Msg /\ m.key = k /\ m.value = kv_map[k]
    BY <1>0, <2>2 DEF MkMsg, Msg
  <2>4. WrittenFor(m.key, Decode(m).value)
    BY <2>2, <2>3, DecodeWritten DEF ProvenanceInv
  <2>5. m \in Truthful
    BY <2>3, <2>4 DEF Truthful
  <2>6. queue' \in [Procs -> Seq(Truthful)]
    BY <2>1, <2>5, SendIn DEF ProvenanceInv, CanConnect
  <2> QED
    BY <1>2, <1>6, <2>6 DEF MasterReorgPut
<1>7. CASE MasterReorgDone \/ MasterOutOfDescriptors
  BY <1>2, <1>7 DEF MasterReorgDone, MasterOutOfDescriptors, netVars, ProvenanceInv
<1>8. CASE MasterConnectFails \/ MasterDividesByZero
  <2>1. Vanish(Master) /\ UNCHANGED kv_map
    BY <1>8 DEF MasterConnectFails, MasterDividesByZero, MasterLeaves
  <2> QED
    BY <1>0, <1>2, <2>1, VanishIn DEF ProvenanceInv
<1> QED
  BY <1>3, <1>4, <1>5, <1>6, <1>7, <1>8 DEF MasterNext

LEMMA ServerProvenance ==
    ASSUME TypeInv, ProvenanceInv, ServerNext, UNCHANGED <<masterVars, clientVars>>
    PROVE  ProvenanceInv'
<1> USE DEF TypeInv, TypeOK
<1>0. PICK s \in Servers :
         \/ ServerStep(s) \/ ServerJoin(s) \/ ServerJoinFails(s)
         \/ ServerCrash(s) \/ ServerCrashInPut(s)
  BY DEF ServerNext
<1>1. s \in Procs /\ Master \in Procs /\ Truthful' = Truthful
  BY DEF Procs, clientVars, Truthful, WrittenFor, Decode
<1>2. \A k, v : WrittenFor(k, v)' = WrittenFor(k, v)
  BY DEF clientVars, WrittenFor
<1>3. ASSUME NEW t, ServerReceives(s, t)
      PROVE  queue[s] # <<>> /\ Request(s).type = t /\ queue' \in [Procs -> Seq(Truthful)]
  <2>1. Accept(s, t) /\ queue[s] # <<>> /\ Request(s).type = t
    BY <1>3 DEF ServerReceives, Accept
  <2> QED
    BY <1>1, <2>1, AcceptIn DEF ProvenanceInv
<1>4. ASSUME queue' \in [Procs -> Seq(Truthful)], UNCHANGED <<db, note>>,
             \A q \in Servers : spc'[q] = "notify" => spc[q] = "notify"
      PROVE  ProvenanceInv'
  BY <1>1, <1>2, <1>4 DEF ProvenanceInv, masterVars
<1>5. ASSUME StoreRequest(s), WrittenFor(Request(s).key, Request(s).value)
      PROVE  \A q \in Servers, k \in KeyFields : db'[q][k] # None => WrittenFor(k, db'[q][k])
  BY <1>5 DEF StoreRequest, ServerTypeOK, ProvenanceInv
<1>6. CASE ServerJoin(s)
  <2> DEFINE m == MkMsg("SERVER", 0, Empty, s)
  <2>1. m \in Truthful
    BY <1>1 DEF MkMsg, Truthful, Msg, KeyFields, Payload
  <2>2. queue' \in [Procs -> Seq(Truthful)]
    BY <1>1, <1>6, <2>1, SendIn DEF ServerJoin, ProvenanceInv
  <2> QED
    BY <1>4, <1>6, <2>2 DEF ServerJoin, ServerTypeOK
<1>7. CASE ServerJoinFails(s) \/ ServerListen(s)
  BY <1>4, <1>7 DEF ServerJoinFails, ServerListen, netVars, ServerTypeOK, ProvenanceInv
<1>8. CASE ServerDrop(s) \/ ServerGet(s)
  BY <1>3, <1>4, <1>8 DEF ServerDrop, ServerGet, serverVars
<1>9. CASE ServerReorg(s)
  <2>1. \A q \in Servers, k \in KeyFields : db'[q][k] # None => db'[q][k] = db[q][k]
    BY <1>9 DEF ServerReorg, ServerTypeOK
  <2> QED
    BY <1>1, <1>2, <1>3, <1>9, <2>1 DEF ServerReorg, ProvenanceInv, masterVars
<1>10. CASE ServerReorgPut(s)
  <2>1. WrittenFor(Request(s).key, Request(s).value)
    BY <1>1, <1>3, <1>10, RequestWritten DEF ServerReorgPut
  <2> QED
    BY <1>1, <1>2, <1>3, <1>5, <1>10, <2>1 DEF ServerReorgPut, ProvenanceInv, masterVars
<1>11. CASE ServerPut(s)
  <2>1. WrittenFor(Request(s).key, Request(s).value)
    BY <1>1, <1>3, <1>11, RequestWritten DEF ServerPut
  <2>2. \A q \in Servers : spc'[q] = "notify" => WrittenFor(note'[q].key, note'[q].value)
    BY <1>11, <2>1 DEF ServerPut, ServerTypeOK, ProvenanceInv
  <2> QED
    BY <1>1, <1>2, <1>3, <1>5, <1>11, <2>1, <2>2 DEF ServerPut, ProvenanceInv, masterVars
<1>12. CASE ServerNotify(s)
  <2>1. WrittenFor(note[s].key, note[s].value) /\ note[s] \in Msg
    BY <1>12 DEF ServerNotify, ProvenanceInv, ServerTypeOK
  <2>2. Report(s) \in Msg /\ Report(s).key = note[s].key /\ Report(s).value = note[s].value
    BY <1>1, <2>1 DEF Report, MkMsg, Msg
  <2>3. WrittenFor(Report(s).key, Decode(Report(s)).value)
    BY <2>1, <2>2, DecodeWritten
  <2>4. queue' \in [Procs -> Seq(Truthful)]
    BY <1>1, <1>12, <2>2, <2>3, SendIn DEF ServerNotify, ProvenanceInv, Truthful
  <2> QED
    BY <1>4, <1>12, <2>4 DEF ServerNotify, ServerTypeOK
<1>13. CASE ServerNotifyFails(s) \/ ServerCrash(s)
  <2>1. ServerStops(s)
    BY <1>13 DEF ServerNotifyFails, ServerCrash
  <2>2. queue' \in [Procs -> Seq(Truthful)]
    BY <1>1, <2>1, VanishIn DEF ServerStops, ProvenanceInv
  <2> QED
    BY <1>4, <2>1, <2>2 DEF ServerStops, ServerTypeOK
<1>14. CASE ServerCrashInPut(s)
  <2>1. WrittenFor(Request(s).key, Request(s).value)
    BY <1>1, <1>14, RequestWritten DEF ServerCrashInPut
  <2>2. queue' \in [Procs -> Seq(Truthful)]
    BY <1>1, <1>14, VanishIn DEF ServerCrashInPut, ProvenanceInv
  <2>3. \A q \in Servers : spc'[q] = "notify" => spc[q] = "notify"
    BY <1>14 DEF ServerCrashInPut, ServerTypeOK
  <2> QED
    BY <1>1, <1>2, <1>5, <1>14, <2>1, <2>2, <2>3
    DEF ServerCrashInPut, ProvenanceInv, masterVars
<1> QED
  BY <1>0, <1>6, <1>7, <1>8, <1>9, <1>10, <1>11, <1>12, <1>13, <1>14 DEF ServerStep

LEMMA ClientProvenance ==
    ASSUME TypeInv, ProvenanceInv, ClientNext, UNCHANGED <<masterVars, serverVars>>
    PROVE  ProvenanceInv'
<1> USE DEF TypeInv, TypeOK
<1>0. PICK c \in Clients : ClientStep(c) \/ ClientKilled(c)
  BY DEF ClientNext
<1>1. UNCHANGED op
  BY <1>0 DEF ClientStep, ClientSend, ClientRefused, ClientRouted, ClientAnswered,
              ClientCutOff, ClientKilled
<1>2. Truthful' = Truthful
  BY <1>1 DEF Truthful, WrittenFor, Decode
<1>3. ASSUME queue' \in [Procs -> Seq(Truthful)] PROVE ProvenanceInv'
  BY <1>1, <1>2, <1>3 DEF ProvenanceInv, masterVars, serverVars, WrittenFor
<1>4. CASE ClientSend(c)
  <2>1. Asks(c) \in Msg
    BY AsksType
  <2>2. Asks(c).type = "PUT" => WrittenFor(Asks(c).key, Decode(Asks(c)).value)
    BY DEF Asks, MkMsg, WrittenFor, Decode
  <2>3. Asks(c).type \in {"PUT", "GET"}
    BY ClientAssumption DEF Asks, MkMsg, ClientTypeOK
  <2>4. Asks(c) \in Truthful
    BY <2>1, <2>2, <2>3 DEF Truthful
  <2> QED
    BY <1>3, <1>4, <2>4, SendIn DEF ClientSend, CanConnect, ProvenanceInv
<1>5. CASE ClientKilled(c)
  <2>1. MkMsg("EOF", 0, Empty, c) \in Truthful
    BY DEF MkMsg, Truthful, Msg, KeyFields, Payload
  <2> QED
    BY <1>3, <1>5, <2>1, SendIn DEF ClientKilled, CanConnect, ProvenanceInv
<1>6. CASE ClientRefused(c) \/ ClientRouted(c) \/ ClientAnswered(c) \/ ClientCutOff(c)
  BY <1>3, <1>6
  DEF ClientRefused, ClientRouted, ClientAnswered, ClientCutOff, netVars, ProvenanceInv
<1> QED
  BY <1>0, <1>4, <1>5, <1>6 DEF ClientStep

\* Through shard, master, redistribution, crash and restart, a key is only
\* ever given a value that some client wrote for that key.
THEOREM ProvenanceCorrect == Spec => []Provenance
<1>1. Init => ProvenanceInv
  BY DEF Init, ProvenanceInv
<1>2. TypeInv /\ ProvenanceInv /\ [Next]_vars => ProvenanceInv'
  <2> SUFFICES ASSUME TypeInv, ProvenanceInv, [Next]_vars PROVE ProvenanceInv'
    OBVIOUS
  <2>1. CASE UNCHANGED vars
    BY <2>1 DEF vars, netVars, masterVars, serverVars, clientVars, ProvenanceInv, WrittenFor,
                Truthful
  <2> QED
    BY <2>1, MasterProvenance, ServerProvenance, ClientProvenance DEF Next, Rest
<1>3. TypeInv /\ ProvenanceInv => Provenance
  <2> SUFFICES ASSUME TypeInv, ProvenanceInv PROVE Provenance
    OBVIOUS
  <2>1. ASSUME NEW p \in Procs, NEW i \in DOMAIN queue[p] PROVE queue[p][i] \in Truthful
    BY <2>1 DEF ProvenanceInv
  <2> QED
    BY <2>1 DEF ProvenanceInv, Provenance, Truthful
<1> QED
  BY <1>1, <1>2, <1>3, InitTypes, NextTypes, PTL DEF Spec
-----------------------------------------------------------------------------
(* The vector of keys. *)

\* KeysCoverDb for one server, strengthened for the time before its first
\* start: the database that start opens is empty.
Covered(s) ==
    /\ starts[s] <= 1 /\ spc[s] # "down" =>
           {k \in KeyFields : db[s][k] # None} =
               keys[s] \cup (IF spc[s] = "notify" THEN {note[s].key} ELSE {})
    /\ starts[s] = 0 => spc[s] = "down" /\ \A k \in KeyFields : db[s][k] = None

LEMMA ServerCovers ==
    ASSUME TypeInv, \A s \in Servers : Covered(s), ServerNext
    PROVE  \A s \in Servers : Covered(s)'
<1> USE DEF TypeInv, TypeOK
<1>0. PICK s \in Servers :
         \/ ServerStep(s) \/ ServerJoin(s) \/ ServerJoinFails(s)
         \/ ServerCrash(s) \/ ServerCrashInPut(s)
  BY DEF ServerNext
<1>1. s \in Procs /\ Covered(s)
  BY DEF Procs
<1>2. ASSUME Covered(s)', UNCHANGED starts,
             \A q \in Servers \ {s} : /\ db'[q] = db[q] /\ keys'[q] = keys[q]
                                      /\ note'[q] = note[q] /\ spc'[q] = spc[q]
      PROVE  \A q \in Servers : Covered(q)'
  BY <1>2 DEF Covered
<1>3. ASSUME queue[s] # <<>>
      PROVE  Request(s).key \in KeyFields /\ Request(s).value # None
  BY <1>1, <1>3, RequestType, NetAssumption DEF Msg, Payload
<1>4. ASSUME NEW t, ServerReceives(s, t) PROVE queue[s] # <<>> /\ spc[s] = "loop"
  BY <1>4 DEF ServerReceives, Accept
<1>5. ASSUME StoreRequest(s), queue[s] # <<>>
      PROVE  /\ \A q \in Servers \ {s} : db'[q] = db[q]
             /\ {k \in KeyFields : db'[s][k] # None} =
                    {k \in KeyFields : db[s][k] # None} \cup {Request(s).key}
  BY <1>3, <1>5 DEF StoreRequest, ServerTypeOK
<1>6. CASE ServerJoin(s)
  <2>1. /\ spc[s] = "down" /\ spc'[s] = "joined" /\ keys'[s] = {}
        /\ starts'[s] = starts[s] + 1 /\ db' = db
    BY <1>6 DEF ServerJoin, ServerTypeOK
  <2>2. starts[s] \in Nat
    BY DEF ServerTypeOK
  <2>3. Covered(s)'
    BY <1>1, <2>1, <2>2 DEF Covered
  <2>4. \A q \in Servers \ {s} : /\ starts'[q] = starts[q] /\ spc'[q] = spc[q]
                                 /\ keys'[q] = keys[q] /\ note'[q] = note[q]
    BY <1>6 DEF ServerJoin, ServerTypeOK
  <2> QED
    BY <2>1, <2>3, <2>4 DEF Covered
<1>7. CASE ServerJoinFails(s)
  <2>1. spc[s] = "down" /\ starts' = [starts EXCEPT ![s] = @ + 1] /\ starts[s] \in Nat
    BY <1>7 DEF ServerJoinFails, ServerTypeOK
  <2> QED
    BY <1>7, <2>1 DEF ServerJoinFails, ServerTypeOK, Covered
<1>8. CASE ServerListen(s)
  BY <1>1, <1>2, <1>8 DEF ServerListen, ServerTypeOK, Covered
<1>9. CASE ServerDrop(s) \/ ServerGet(s)
  BY <1>9 DEF ServerDrop, ServerGet, serverVars, Covered
<1>10. CASE ServerReorg(s)
  <2>1. spc[s] = "loop" /\ UNCHANGED <<spc, note, starts>>
    BY <1>4, <1>10 DEF ServerReorg
  <2>2. /\ \A k \in KeyFields : db'[s][k] = IF k \in keys[s] THEN None ELSE db[s][k]
        /\ keys'[s] = {}
        /\ \A q \in Servers \ {s} : db'[q] = db[q] /\ keys'[q] = keys[q]
    BY <1>10 DEF ServerReorg, ServerTypeOK
  <2>3. Covered(s)'
    BY <1>1, <2>1, <2>2 DEF Covered
  <2> QED
    BY <1>2, <2>1, <2>2, <2>3
<1>11. CASE ServerReorgPut(s)
  <2>1. spc[s] = "loop" /\ queue[s] # <<>> /\ StoreRequest(s) /\ UNCHANGED <<spc, note, starts>>
    BY <1>4, <1>11 DEF ServerReorgPut
  <2>2. /\ keys'[s] = keys[s] \cup {Request(s).key}
        /\ \A q \in Servers \ {s} : keys'[q] = keys[q]
    BY <1>11 DEF ServerReorgPut, Remember, ServerTypeOK
  <2>3. Covered(s)'
    BY <1>1, <1>5, <2>1, <2>2 DEF Covered
  <2> QED
    BY <1>2, <1>5, <2>1, <2>2, <2>3
<1>12. CASE ServerPut(s)
  <2>1. spc[s] = "loop" /\ queue[s] # <<>> /\ StoreRequest(s) /\ UNCHANGED <<keys, starts>>
    BY <1>4, <1>12 DEF ServerPut
  <2>2. /\ spc'[s] = "notify" /\ note'[s] = Request(s)
        /\ \A q \in Servers \ {s} : spc'[q] = spc[q] /\ note'[q] = note[q]
    BY <1>12 DEF ServerPut, ServerTypeOK
  <2>3. Covered(s)'
    BY <1>1, <1>5, <2>1, <2>2 DEF Covered
  <2> QED
    BY <1>2, <1>5, <2>1, <2>2, <2>3
<1>13. CASE ServerNotify(s)
  <2>1. /\ spc[s] = "notify" /\ spc'[s] = "loop" /\ keys'[s] = keys[s] \cup {note[s].key}
        /\ \A q \in Servers \ {s} : spc'[q] = spc[q] /\ keys'[q] = keys[q]
        /\ UNCHANGED <<db, note, starts>>
    BY <1>13 DEF ServerNotify, Remember, ServerTypeOK
  <2>2. Covered(s)'
    BY <1>1, <2>1 DEF Covered
  <2> QED
    BY <1>2, <2>1, <2>2
<1>14. CASE ServerNotifyFails(s) \/ ServerCrash(s)
  <2>1. ServerStops(s) /\ spc[s] # "down"
    BY <1>14 DEF ServerNotifyFails, ServerCrash
  <2>2. /\ spc'[s] = "down" /\ UNCHANGED <<db, keys, note, starts>>
        /\ \A q \in Servers \ {s} : spc'[q] = spc[q]
    BY <2>1 DEF ServerStops, ServerTypeOK
  <2>3. Covered(s)'
    BY <1>1, <2>1, <2>2 DEF Covered
  <2> QED
    BY <1>2, <2>2, <2>3
<1>15. CASE ServerCrashInPut(s)
  <2>1. /\ spc[s] = "loop" /\ spc'[s] = "down" /\ UNCHANGED <<keys, note, starts>>
        /\ \A q \in Servers \ {s} : spc'[q] = spc[q]
        /\ StoreRequest(s) /\ queue[s] # <<>>
    BY <1>15 DEF ServerCrashInPut, ServerTypeOK
  <2>2. Covered(s)'
    BY <1>1, <2>1 DEF Covered
  <2> QED
    BY <1>2, <1>5, <2>1, <2>2
<1> QED
  BY <1>0, <1>6, <1>7, <1>8, <1>9, <1>10, <1>11, <1>12, <1>13, <1>14, <1>15 DEF ServerStep

\* The vector of keys of a server that was never restarted names exactly what
\* its database holds, but for a PUT it is about to report.
THEOREM KeysCoverDbCorrect == Spec => []KeysCoverDb
<1> DEFINE Inv == \A s \in Servers : Covered(s)
<1>1. Init => Inv
  BY DEF Init, Covered
<1>2. TypeInv /\ Inv /\ [Next]_vars => Inv'
  <2> SUFFICES ASSUME TypeInv, Inv, [Next]_vars PROVE Inv'
    OBVIOUS
  <2>1. CASE UNCHANGED serverVars
    BY <2>1 DEF serverVars, Covered
  <2>2. CASE ServerNext
    BY <2>2, ServerCovers
  <2>3. ServerNext \/ UNCHANGED serverVars
    BY DEF Next, Rest, vars
  <2> QED
    BY <2>1, <2>2, <2>3
<1>3. Inv => KeysCoverDb
  BY DEF Covered, KeysCoverDb
<1> HIDE DEF Inv
<1> QED
  BY <1>1, <1>2, <1>3, InitTypes, NextTypes, PTL DEF Spec
-----------------------------------------------------------------------------
(* One atomic map. *)

\* The servers are those that formed the cluster, and none comes back.
FixedMembership == MaxStarts <= 1 /\ \A s \in Servers : IsFormed(s)

\* Keys that the wire and the cast to char keep, and values a GET can report.
PlainOps ==
    \A o \in Ops : o.key \in (-128..127) \ {0} /\ (o.type = "PUT" => o.value # Empty)

\* What the refinement mapping makes of databases and clients.
Store == [k \in Keys |-> IF PortOf(k) = NoPort THEN None ELSE db[PortOf(k)][k]]

Phases ==
    [c \in Clients |->
        CASE code[c] = 1 \/ inbox[c].kind = "eof" -> "failed"
          [] inbox[c].kind = "data" -> "answered"
          [] OTHER -> "asked"]

Told == [c \in Clients |-> [found |-> inbox[c].status, value |-> inbox[c].value]]

\* A client that connects next has had no answer, and goes to its key's shard.
Ready(c) ==
    /\ cpc[c] # "done" => code[c] = -1
    /\ cpc[c] \in {"start", "route"} => inbox[c].kind \in {"none", "port"}
    /\ cpc[c] = "route" => route[c] = PortOf(op[c].key)
    /\ cpc[c] = "lookup" /\ inbox[c].kind = "port" => inbox[c].port = PortOf(op[c].key)
    /\ inbox[c].kind # "data" => inbox[c].status = FALSE /\ inbox[c].value = Empty

\* Client c, whose request m is in the queue of process p, has no answer yet.
Pending(c, p, m) ==
    /\ code[c] = -1 /\ inbox[c].kind \in {"none", "port"}
    /\ m.type = "EOF" => cpc[c] = "killed"
    /\ m.type # "EOF" =>
          /\ inbox[c].kind = "none" /\ m.key = op[c].key
          /\ p = Master => m.type = "GET" /\ cpc[c] = "lookup"
          /\ p # Master =>
                /\ cpc[c] = "request" /\ m.type = op[c].type /\ PortOf(op[c].key) = p
                /\ op[c].type = "PUT" => m.value = op[c].value

\* A request in the queue of process p is a client's or a shard's report.
Meets(p, m) ==
    IF m.from \in Clients THEN Pending(m.from, p, m) ELSE p = Master /\ m.type = "MASTER_PUT"

\* A client has one request on the way.
OneEach ==
    \A p, q \in Procs : \A i \in DOMAIN queue[p], j \in DOMAIN queue[q] :
        queue[p][i].from = queue[q][j].from /\ queue[p][i].from \in Clients => p = q /\ i = j

\* The inductive invariant behind ImplementsAtomicKV.
AtomicInv ==
    /\ mpc \notin {"reorg", "reput"}
    /\ \A s \in Servers : starts[s] >= 1
    /\ \A c \in Clients : Ready(c)
    /\ \A p \in Procs : \A i \in DOMAIN queue[p] : Meets(p, queue[p][i])
    /\ OneEach

SameClient(c) == cpc'[c] = cpc[c] /\ code'[c] = code[c] /\ inbox'[c] = inbox[c]

LEMMA MeetsKept ==
    ASSUME NEW p, NEW m, Meets(p, m), op' = op, UNCHANGED server_port_map,
           m.from \in Clients => SameClient(m.from)
    PROVE  Meets(p, m)'
BY PortKept DEF Meets, Pending, SameClient

LEMMA ReadyKept ==
    ASSUME NEW c, Ready(c), op' = op, UNCHANGED server_port_map, SameClient(c),
           route'[c] = route[c]
    PROVE  Ready(c)'
BY PortKept DEF Ready, SameClient

\* A client that is to connect, or has its answer, has no request on the way.
LEMMA NothingPending ==
    ASSUME AtomicInv, NEW c \in Clients, NEW p \in Procs, NEW i \in DOMAIN queue[p],
           queue[p][i].from = c
    PROVE  /\ cpc[c] \in {"lookup", "request", "killed"}
           /\ cpc[c] \in {"lookup", "request"} => inbox[c].kind = "none"
BY DEF AtomicInv, Meets, Pending

LEMMA AtomicSent ==
    ASSUME NetTypeOK, AtomicInv, NEW p \in Procs, NEW m, Send(p, m), Meets(p, m)',
           m.from \in Clients => cpc[m.from] \in {"start", "route"},
           op' = op, UNCHANGED <<server_port_map, mpc>>, \A s \in Servers : starts'[s] >= 1,
           \A c \in Clients \ {m.from} : SameClient(c), \A c \in Clients : Ready(c)'
    PROVE  AtomicInv'
<1>1. /\ \A q \in Procs : q # p => queue'[q] = queue[q]
      /\ Len(queue[p]) \in Nat /\ DOMAIN queue[p] = 1..Len(queue[p])
      /\ DOMAIN queue'[p] = 1..(Len(queue[p]) + 1)
      /\ \A i \in 1..Len(queue[p]) : queue'[p][i] = queue[p][i]
      /\ queue'[p][Len(queue[p]) + 1] = m
  BY SendQueue
<1>2. \A q \in Procs : \A i \in DOMAIN queue'[q] :
          \/ i \in DOMAIN queue[q] /\ queue'[q][i] = queue[q][i]
          \/ q = p /\ i = Len(queue[p]) + 1 /\ queue'[q][i] = m
  BY <1>1
<1>3. \A q \in Procs : \A i \in DOMAIN queue[q] :
          queue[q][i].from \in Clients => queue[q][i].from # m.from
  BY NothingPending
<1>4. ASSUME NEW q \in Procs, NEW i \in DOMAIN queue'[q], NEW n, n = queue'[q][i]
      PROVE  Meets(q, n)'
  <2>1. CASE i \in DOMAIN queue[q] /\ queue'[q][i] = queue[q][i]
    <3>1. Meets(q, n) /\ (n.from \in Clients => n.from # m.from)
      BY <1>3, <1>4, <2>1 DEF AtomicInv
    <3> QED
      BY <3>1, MeetsKept
  <2>2. CASE q = p /\ queue'[q][i] = m
    BY <1>4, <2>2
  <2> QED
    BY <1>2, <2>1, <2>2
<1>5. OneEach'
  <2>1. SUFFICES ASSUME NEW q \in Procs, NEW r \in Procs, NEW i \in DOMAIN queue'[q],
                        NEW j \in DOMAIN queue'[r],
                        queue'[q][i].from = queue'[r][j].from, queue'[q][i].from \in Clients
                 PROVE  q = r /\ i = j
    BY DEF OneEach
  <2>2. OneEach
    BY DEF AtomicInv
  <2>3. CASE i \in DOMAIN queue[q] /\ queue'[q][i] = queue[q][i]
    <3>1. j \in DOMAIN queue[r] /\ queue'[r][j] = queue[r][j]
      BY <1>2, <1>3, <2>1, <2>3
    <3> QED
      BY <2>1, <2>2, <2>3, <3>1 DEF OneEach
  <2>4. CASE q = p /\ i = Len(queue[p]) + 1 /\ queue'[q][i] = m
    BY <1>2, <1>3, <2>1, <2>4
  <2> QED
    BY <1>2, <2>3, <2>4
<1> QED
  BY <1>4, <1>5 DEF AtomicInv

LEMMA AtomicAccepted ==
    ASSUME NetTypeOK, AtomicInv, NEW p \in Procs, NEW t, Accept(p, t),
           op' = op, UNCHANGED <<server_port_map, mpc, starts, cpc, code, route>>,
           NEW b, b = queue[p][1].from, \A c \in Clients \ {b} : inbox'[c] = inbox[c],
           b \in Clients => Ready(b)'
    PROVE  AtomicInv'
<1>1. /\ \A q \in Procs : q # p => queue'[q] = queue[q]
      /\ Len(queue[p]) \in Nat /\ DOMAIN queue[p] = 1..Len(queue[p]) /\ 1 \in DOMAIN queue[p]
      /\ DOMAIN queue'[p] = 1..(Len(queue[p]) - 1)
      /\ \A i \in 1..(Len(queue[p]) - 1) : queue'[p][i] = queue[p][i + 1]
  BY AcceptQueue
<1>3. \A c \in Clients : c # b => SameClient(c)
  BY DEF SameClient
<1>4. \A q \in Procs : \A i \in DOMAIN queue'[q] :
          /\ q = p => i + 1 \in DOMAIN queue[q] /\ queue'[q][i] = queue[q][i + 1] /\ i + 1 # 1
          /\ q # p => i \in DOMAIN queue[q] /\ queue'[q][i] = queue[q][i]
  <2>1. ASSUME NEW i \in DOMAIN queue'[p]
        PROVE  i + 1 \in DOMAIN queue[p] /\ queue'[p][i] = queue[p][i + 1] /\ i + 1 # 1
    BY <1>1
  <2>2. ASSUME NEW q \in Procs \ {p}, NEW i \in DOMAIN queue'[q]
        PROVE  i \in DOMAIN queue[q] /\ queue'[q][i] = queue[q][i]
    BY <1>1
  <2> QED
    BY <2>1, <2>2
<1>5. OneEach
  BY DEF AtomicInv
<1>6. ASSUME NEW q \in Procs, NEW i \in DOMAIN queue'[q], NEW n, n = queue'[q][i]
      PROVE  Meets(q, n)'
  <2>1. PICK j \in DOMAIN queue[q] : queue'[q][i] = queue[q][j] /\ ~(q = p /\ j = 1)
    BY <1>4
  <2>2. n.from \in Clients => n.from # b
    BY <1>1, <1>5, <1>6, <2>1 DEF OneEach
  <2>3. Meets(q, n)
    BY <1>6, <2>1 DEF AtomicInv
  <2> QED
    BY <1>3, <2>2, <2>3, MeetsKept
<1>7. OneEach'
  <2>1. SUFFICES ASSUME NEW q \in Procs, NEW r \in Procs, NEW i \in DOMAIN queue'[q],
                        NEW j \in DOMAIN queue'[r],
                        queue'[q][i].from = queue'[r][j].from, queue'[q][i].from \in Clients
                 PROVE  q = r /\ i = j
    BY DEF OneEach
  <2>2. PICK m \in DOMAIN queue[q] : queue'[q][i] = queue[q][m] /\ m = IF q = p THEN i + 1 ELSE i
    BY <1>4
  <2>3. PICK n \in DOMAIN queue[r] : queue'[r][j] = queue[r][n] /\ n = IF r = p THEN j + 1 ELSE j
    BY <1>4
  <2>4. q = r /\ m = n
    BY <1>5, <2>1, <2>2, <2>3 DEF OneEach
  <2>5. q = p => i \in Nat /\ j \in Nat
    BY <1>1, <2>4
  <2> QED
    BY <2>2, <2>3, <2>4, <2>5
<1>8. \A c \in Clients : Ready(c)'
  <2>1. SUFFICES ASSUME NEW c \in Clients, c # b PROVE Ready(c)'
    OBVIOUS
  <2>2. Ready(c) /\ SameClient(c)
    BY <1>3, <2>1 DEF AtomicInv
  <2> QED
    BY <2>2, ReadyKept
<1> QED
  BY <1>6, <1>7, <1>8 DEF AtomicInv

\* A process dies: its clients had no answer, and the other queues hold none of
\* theirs.
LEMMA AtomicVanishes ==
    ASSUME NetTypeOK, AtomicInv, NEW p \in Procs, Vanish(p), op' = op,
           UNCHANGED <<server_port_map, starts, cpc, code, route>>,
           mpc' \notin {"reorg", "reput"}
    PROVE  AtomicInv'
<1>1. /\ \A q \in Procs : q # p => queue'[q] = queue[q]
      /\ queue'[p] = <<>>
      /\ \A c \in Clients :
            \/ inbox'[c] = inbox[c]
            \/ inbox'[c] = EofReply /\ \E i \in DOMAIN queue[p] : queue[p][i].from = c
  BY DEF Vanish, NetTypeOK
<1>2. OneEach
  BY DEF AtomicInv
<1>3. ASSUME NEW q \in Procs, NEW i \in DOMAIN queue'[q]
      PROVE  q # p /\ queue'[q][i] = queue[q][i] /\ i \in DOMAIN queue[q]
  BY <1>1, <1>3
<1>4. ASSUME NEW q \in Procs, NEW i \in DOMAIN queue'[q], NEW n, n = queue'[q][i]
      PROVE  Meets(q, n)'
  <2>1. q # p /\ queue'[q][i] = queue[q][i] /\ i \in DOMAIN queue[q]
    BY <1>3, <1>4
  <2>2. n.from \in Clients => inbox'[n.from] = inbox[n.from]
    BY <1>1, <1>2, <1>4, <2>1 DEF OneEach
  <2>3. Meets(q, n)
    BY <1>4, <2>1 DEF AtomicInv
  <2> QED
    BY <2>2, <2>3, MeetsKept DEF SameClient
<1>5. OneEach'
  BY <1>2, <1>3 DEF OneEach
<1>6. ASSUME NEW c \in Clients PROVE Ready(c)'
  <2>1. Ready(c)
    BY DEF AtomicInv
  <2>2. CASE inbox'[c] = inbox[c]
    BY <2>1, <2>2, ReadyKept DEF SameClient
  <2>3. CASE inbox'[c] = EofReply /\ \E i \in DOMAIN queue[p] : queue[p][i].from = c
    <3>1. cpc[c] \in {"lookup", "request", "killed"}
      BY <2>3, NothingPending
    <3> QED
      BY <2>1, <2>3, <3>1 DEF Ready, EofReply, NoReply
  <2> QED
    BY <1>1, <2>2, <2>3
<1> QED
  BY <1>4, <1>5, <1>6 DEF AtomicInv

\* A step of the store is one of the map, or is not seen there.
Simulated == [Atomic!Next]_(Atomic!vars)

SeenSame(c) ==
    /\ code'[c] = 1 <=> code[c] = 1
    /\ \/ inbox'[c] = inbox[c]
       \/ /\ {inbox'[c].kind, inbox[c].kind} \subseteq {"none", "port"}
          /\ inbox'[c].status = inbox[c].status /\ inbox'[c].value = inbox[c].value

LEMMA StoreSame ==
    ASSUME UNCHANGED <<db, server_port_map>>
    PROVE  Store' = Store
BY PortKept DEF Store

LEMMA PhasesExtensional ==
    Phases = [c \in Clients |-> Phases[c]] /\ Phases' = [c \in Clients |-> Phases'[c]]
BY DEF Phases

LEMMA SilentStep ==
    ASSUME op' = op, UNCHANGED <<db, server_port_map>>, \A c \in Clients : SeenSame(c)
    PROVE  Simulated
<1>1. Store' = Store /\ Phases' = Phases /\ Told' = Told
  BY StoreSame DEF Phases, Told, SeenSame
<1> QED
  BY <1>1 DEF Simulated, Atomic!vars, Store, Phases, Told

\* The answer to client c is its operation on the map.
LEMMA AnswerStep ==
    ASSUME NEW c \in Clients, op' = op, code' = code, code[c] = -1,
           inbox[c].kind \in {"none", "port"}, inbox'[c].kind = "data",
           \A d \in Clients \ {c} : inbox'[d] = inbox[d],
           \/ /\ op[c].type = "PUT" /\ Store' = [Store EXCEPT ![op[c].key] = op[c].value]
              /\ inbox'[c].status = TRUE /\ inbox'[c].value = Empty
           \/ /\ op[c].type = "GET" /\ Store' = Store
              /\ inbox'[c].status = (Store[op[c].key] # None)
              /\ inbox'[c].value = IF Store[op[c].key] = None THEN Empty ELSE Store[op[c].key]
    PROVE  Simulated
<1>1. Phases[c] = "asked" /\ Phases'[c] = "answered"
  BY DEF Phases
<1>2. \A d \in Clients \ {c} : Phases'[d] = Phases[d] /\ Told'[d] = Told[d]
  BY DEF Phases, Told
<1>3. Phases' = [Phases EXCEPT ![c] = "answered"]
  BY <1>1, <1>2, PhasesExtensional
<1>4. Told' = [Told EXCEPT ![c] = [found |-> inbox'[c].status, value |-> inbox'[c].value]]
  BY <1>2 DEF Told
<1>5. CASE op[c].type = "PUT" /\ Store' = [Store EXCEPT ![op[c].key] = op[c].value]
           /\ inbox'[c].status = TRUE /\ inbox'[c].value = Empty
  <2>1. Atomic!Write(c)
    BY <1>5 DEF Atomic!Write, Store
  <2>2. Told' = [Told EXCEPT ![c] = [found |-> TRUE, value |-> Empty]]
    BY <1>4, <1>5
  <2>3. Atomic!Perform(c)
    BY <1>1, <1>3, <2>1, <2>2 DEF Atomic!Perform, Phases, Told
  <2> QED
    BY <2>3 DEF Simulated, Atomic!Next
<1>6. CASE op[c].type = "GET" /\ Store' = Store
           /\ inbox'[c].status = (Store[op[c].key] # None)
           /\ inbox'[c].value = IF Store[op[c].key] = None THEN Empty ELSE Store[op[c].key]
  <2>1. PICK v : v = Store[op[c].key]
    OBVIOUS
  <2>2. Atomic!Read(op[c].key) = IF v = None THEN [found |-> FALSE, value |-> Empty]
                                 ELSE [found |-> TRUE, value |-> v]
    BY <2>1 DEF Atomic!Read, Atomic!Silence, Store
  <2>3. [found |-> inbox'[c].status, value |-> inbox'[c].value] = Atomic!Read(op[c].key)
    BY <1>6, <2>1, <2>2
  <2>4. Told' = [Told EXCEPT ![c] = Atomic!Read(op[c].key)]
    BY <1>4, <2>3
  <2>5. Atomic!Perform(c)
    BY <1>1, <1>3, <1>6, <2>4 DEF Atomic!Perform, Phases, Told, Store
  <2> QED
    BY <2>5 DEF Simulated, Atomic!Next
<1> QED
  BY <1>5, <1>6

\* Some clients are told nothing any more; the PUT of one of them may have
\* been stored.
LEMMA CutStep ==
    ASSUME op' = op, NEW S \in SUBSET Clients,
           \A c \in S : Phases[c] = "asked" /\ Phases'[c] = "failed" /\ Told'[c] = Told[c],
           \A c \in Clients \ S : Phases'[c] = Phases[c] /\ Told'[c] = Told[c],
           \/ Store' = Store
           \/ \E c \in S : /\ op[c].type = "PUT"
                           /\ Store' = [Store EXCEPT ![op[c].key] = op[c].value]
    PROVE  Simulated
<1>1. Told' = Told
  BY DEF Told
<1>2. Phases' = [c \in Clients |-> IF c \in S THEN "failed" ELSE Phases[c]]
  BY PhasesExtensional
<1>3. CASE S = {}
  <2>1. Phases' = Phases /\ Store' = Store
    BY <1>3 DEF Phases
  <2> QED
    BY <1>1, <2>1 DEF Simulated, Atomic!vars, Store, Phases, Told
<1>4. CASE S # {}
  <2>1. Store' = Store \/ \E c \in S : Atomic!Write(c)
    BY DEF Atomic!Write, Store
  <2>2. Atomic!CutOff(S)
    BY <1>1, <1>2, <1>4, <2>1 DEF Atomic!CutOff, Phases, Told, Store
  <2> QED
    BY <2>2 DEF Simulated, Atomic!Next
<1> QED
  BY <1>3, <1>4

\* A process dies, with or without the PUT at the head of its queue stored.
LEMMA VanishSimulated ==
    ASSUME NetTypeOK, AtomicInv, NEW p \in Procs, Vanish(p), op' = op, code' = code,
           \/ Store' = Store
           \/ \E c \in Clients : /\ op[c].type = "PUT"
                                 /\ \E i \in DOMAIN queue[p] : queue[p][i].from = c
                                 /\ Store' = [Store EXCEPT ![op[c].key] = op[c].value]
    PROVE  Simulated
<1>1. PICK S \in SUBSET Clients :
         S = {c \in Clients : \E i \in DOMAIN queue[p] : queue[p][i].from = c}
  OBVIOUS
<1>2. \A c \in Clients : inbox'[c] = IF c \in S THEN EofReply ELSE inbox[c]
  BY <1>1 DEF Vanish
<1>3. ASSUME NEW c \in S
      PROVE  Phases[c] = "asked" /\ Phases'[c] = "failed" /\ Told'[c] = Told[c]
  <2>1. PICK i \in DOMAIN queue[p] : queue[p][i].from = c
    BY <1>1
  <2>2. Pending(c, p, queue[p][i]) /\ Ready(c)
    BY <2>1 DEF AtomicInv, Meets
  <2>3. /\ code[c] = -1 /\ inbox[c].kind \in {"none", "port"}
        /\ inbox[c].status = FALSE /\ inbox[c].value = Empty
    BY <2>2 DEF Pending, Ready
  <2>4. /\ inbox'[c].kind = "eof" /\ inbox'[c].status = FALSE /\ inbox'[c].value = Empty
    BY <1>2 DEF EofReply, NoReply
  <2>5. Phases[c] = "asked"
    BY <2>3 DEF Phases
  <2>6. Phases'[c] = "failed"
    BY <2>4 DEF Phases
  <2>7. Told'[c] = Told[c]
    BY <2>3, <2>4 DEF Told
  <2> QED
    BY <2>5, <2>6, <2>7
<1>4. \A c \in Clients \ S : Phases'[c] = Phases[c] /\ Told'[c] = Told[c]
  BY <1>2 DEF Phases, Told
<1> QED
  BY <1>1, <1>3, <1>4, CutStep

LEMMA AtomicStill ==
    ASSUME AtomicInv, op' = op, UNCHANGED <<queue, server_port_map>>,
           mpc' \notin {"reorg", "reput"}, \A s \in Servers : starts'[s] >= 1,
           \A c \in Clients : Ready(c)',
           \A c \in Clients :
               \/ SameClient(c)
               \/ \A p \in Procs : \A i \in DOMAIN queue[p] : queue[p][i].from # c
    PROVE  AtomicInv'
<1>1. ASSUME NEW p \in Procs, NEW i \in DOMAIN queue[p], NEW m, m = queue[p][i]
      PROVE  Meets(p, m)'
  <2>1. Meets(p, m)
    BY <1>1 DEF AtomicInv
  <2> QED
    BY <1>1, <2>1, MeetsKept
<1> QED
  BY <1>1 DEF AtomicInv, OneEach

\* The request at the head of a queue, as its process parses it.
LEMMA HeadRequest ==
    ASSUME NetTypeOK, AtomicInv, NEW p \in Procs, queue[p] # <<>>, NEW m, m = queue[p][1]
    PROVE  /\ m \in Msg /\ Meets(p, m) /\ 1 \in DOMAIN queue[p]
           /\ Request(p).type = m.type /\ Request(p).key = m.key /\ Request(p).from = m.from
           /\ m.key # 0 => Request(p).value = m.value
<1>1. queue[p] \in Seq(Msg)
  BY DEF NetTypeOK
<1>2. m = Head(queue[p]) /\ m \in Msg /\ 1 \in DOMAIN queue[p]
  BY <1>1
<1> QED
  BY <1>2, RequestType DEF AtomicInv, Request, Decode

LEMMA MasterAtomic ==
    ASSUME TypeInv, AtomicInv, UNCHANGED <<serverVars, clientVars>>, MasterNext
    PROVE  AtomicInv' /\ Simulated
<1>0. /\ NetTypeOK /\ Master \in Procs /\ UNCHANGED <<starts, db, op, cpc, code, route>>
      /\ mpc \notin {"reorg", "reput"} /\ \A c \in Clients : Ready(c)
      /\ \A s \in Servers : starts'[s] >= 1
  BY DEF TypeInv, TypeOK, Procs, serverVars, clientVars, AtomicInv
<1>1. ~(MasterReorg \/ MasterReorgPut \/ MasterReorgDone \/ MasterConnectFails)
  BY <1>0 DEF MasterReorg, MasterReorgPut, MasterReorgDone, MasterConnectFails
<1>2. PICK m : m = queue[Master][1]
  OBVIOUS
<1>3. ASSUME NEW t, MasterReceives(t)
      PROVE  /\ Accept(Master, t) /\ queue[Master] # <<>>
             /\ Meets(Master, m) /\ m.type = t
             /\ Request(Master).key = m.key /\ Request(Master).from = m.from
  <2>1. Accept(Master, t) /\ queue[Master] # <<>> /\ Request(Master).type = t
    BY <1>3 DEF MasterReceives, Accept
  <2> QED
    BY <1>0, <1>2, <2>1, HeadRequest
<1>4. ~MasterJoin
  <2> SUFFICES ASSUME MasterJoin PROVE FALSE
    OBVIOUS
  <2>1. MasterReceives("SERVER")
    BY DEF MasterJoin
  <2> QED
    BY <1>3, <2>1 DEF Meets, Pending
<1>5. CASE MasterDrop \/ MasterPut
  <2>1. PICK t : MasterReceives(t) /\ UNCHANGED <<inbox, server_port_map, mpc>>
    BY <1>5 DEF MasterDrop, MasterPut, masterVars
  <2>2. \A c \in Clients : Ready(c)' /\ SeenSame(c)
    BY <1>0, <2>1, ReadyKept DEF SameClient, SeenSame
  <2>3. AtomicInv'
    BY <1>0, <1>2, <1>3, <2>1, <2>2, AtomicAccepted
  <2> QED
    BY <1>0, <2>1, <2>2, <2>3, SilentStep
<1>6. CASE MasterLookup
  <2>1. /\ MasterReceives("GET") /\ UNCHANGED <<server_port_map, mpc>>
        /\ Respond(m.from, PortReply(PortOf(m.key)))
    BY <1>3, <1>6 DEF MasterLookup
  <2>2. PICK b : b = m.from
    OBVIOUS
  <2>3. b \in Clients /\ Pending(b, Master, m) /\ m.type = "GET"
    BY <1>3, <2>1, <2>2 DEF Meets
  <2>4. /\ cpc[b] = "lookup" /\ inbox[b].kind = "none" /\ m.key = op[b].key
    BY <2>3 DEF Pending
  <2>5. inbox' = [inbox EXCEPT ![b] = PortReply(PortOf(op[b].key))]
    BY <2>1, <2>2, <2>3, <2>4 DEF Respond
  <2>6. /\ \A c \in Clients \ {b} : inbox'[c] = inbox[c]
        /\ inbox'[b].kind = "port" /\ inbox'[b].port = PortOf(op[b].key)
        /\ inbox'[b].status = FALSE /\ inbox'[b].value = Empty
    BY <1>0, <2>3, <2>5 DEF NetTypeOK, PortReply, NoReply
  <2>7. Ready(b)'
    BY <1>0, <2>1, <2>3, <2>4, <2>6, PortKept DEF Ready
  <2>8. AtomicInv'
    BY <1>0, <1>2, <1>3, <2>1, <2>2, <2>6, <2>7, AtomicAccepted
  <2>9. \A c \in Clients : SeenSame(c)
    BY <1>0, <2>3, <2>4, <2>6 DEF SeenSame, Ready
  <2> QED
    BY <1>0, <2>1, <2>8, <2>9, SilentStep
<1>7. CASE MasterDividesByZero
  <2>1. Vanish(Master) /\ mpc' = "exited" /\ UNCHANGED server_port_map
    BY <1>7 DEF MasterDividesByZero, MasterLeaves
  <2> QED
    BY <1>0, <2>1, AtomicVanishes, VanishSimulated, StoreSame
<1>8. CASE MasterOutOfDescriptors
  <2>1. UNCHANGED <<queue, inbox, server_port_map>> /\ mpc' = "hung"
    BY <1>8 DEF MasterOutOfDescriptors, netVars
  <2>2. \A c \in Clients : SameClient(c) /\ SeenSame(c) /\ Ready(c)'
    BY <1>0, <2>1, ReadyKept DEF SameClient, SeenSame
  <2> QED
    BY <1>0, <2>1, <2>2, AtomicStill, SilentStep
<1> QED
  BY <1>1, <1>4, <1>5, <1>6, <1>7, <1>8 DEF MasterNext

\* A shard's database, and the map, with value v at key k.
DbPuts(s, k, v) == db' = [db EXCEPT ![s][k] = v]
StorePuts(k, v) == Store' = [Store EXCEPT ![k] = v]

\* A PUT changes the map at its key.
LEMMA StorePut ==
    ASSUME ServerTypeOK, UNCHANGED server_port_map, NEW s \in Servers, NEW k \in Keys, NEW v,
           PortOf(k) = s, DbPuts(s, k, v)
    PROVE  StorePuts(k, v)
<1> USE DEF DbPuts, StorePuts
<1>1. PICK port : port = [j \in Keys |-> PortOf(j)]
  OBVIOUS
<1>2. \A j \in Keys : PortOf(j) = port[j] /\ PortOf(j)' = port[j]
  BY <1>1, PortKept
<1>3. s # NoPort /\ port[k] = s /\ k \in KeyFields
  BY <1>2, NetAssumption DEF KeyFields
<1>4. Store = [j \in Keys |-> IF port[j] = NoPort THEN None ELSE db[port[j]][j]]
  BY <1>2 DEF Store
<1>5. Store' = [j \in Keys |-> IF port[j] = NoPort THEN None ELSE db'[port[j]][j]]
  BY <1>2 DEF Store
<1>6. ASSUME NEW j \in Keys
      PROVE  Store'[j] = IF j = k THEN v ELSE Store[j]
  <2>1. CASE j = k
    BY <1>3, <1>5, <2>1 DEF ServerTypeOK
  <2>2. CASE j # k
    <3>1. port[j] # NoPort => db'[port[j]][j] = db[port[j]][j]
      BY <2>2 DEF ServerTypeOK
    <3> QED
      BY <1>4, <1>5, <2>2, <3>1
  <2> QED
    BY <2>1, <2>2
<1>7. Store' = [j \in Keys |-> Store'[j]] /\ Store = [j \in Keys |-> Store[j]]
  BY DEF Store
<1> QED
  BY <1>6, <1>7

\* A shard that answers a client performs the client's operation.
LEMMA ServerAnswers ==
    ASSUME TypeInv, AtomicInv, Provenance, PlainOps, UNCHANGED <<masterVars, clientVars, starts>>,
           NEW s \in Servers, ServerPut(s) \/ ServerGet(s)
    PROVE  AtomicInv' /\ Simulated
<1>0. /\ NetTypeOK /\ ServerTypeOK /\ ClientTypeOK /\ s \in Procs /\ s # Master
      /\ UNCHANGED <<op, cpc, code, route, server_port_map, mpc>>
      /\ \A c \in Clients : Ready(c)
  BY NetAssumption DEF TypeInv, TypeOK, Procs, masterVars, clientVars, AtomicInv
<1>1. PICK t \in {"PUT", "GET"} : Accept(s, t) /\ queue[s] # <<>> /\ Request(s).type = t
  BY DEF ServerPut, ServerGet, ServerReceives, Accept
<1>2. PICK m : m = queue[s][1]
  OBVIOUS
<1>3. /\ Meets(s, m) /\ m.type = t
      /\ Request(s).key = m.key /\ Request(s).from = m.from
      /\ m.key # 0 => Request(s).value = m.value
  BY <1>0, <1>1, <1>2, HeadRequest
<1>4. PICK b \in Clients : b = m.from
  BY <1>0, <1>3 DEF Meets
<1>5. /\ code[b] = -1 /\ cpc[b] = "request" /\ inbox[b].kind = "none"
      /\ op[b].type = t /\ op[b].key = m.key /\ PortOf(op[b].key) = s
      /\ t = "PUT" => m.value = op[b].value
  BY <1>0, <1>1, <1>3, <1>4 DEF Meets, Pending
<1>6. PICK k : k = op[b].key
  OBVIOUS
<1>7. /\ k \in Keys /\ k \in KeyFields /\ k \in (-128..127) \ {0}
  BY <1>0, <1>6, ClientAssumption DEF ClientTypeOK, PlainOps, KeyFields
<1>8. PICK r : r = IF t = "PUT" THEN PutReply(TRUE) ELSE GetReply(Lookup(s, k))
  OBVIOUS
<1>9. ServerPut(s) <=> t = "PUT"
  BY <1>1 DEF ServerPut, ServerGet, ServerReceives, Accept
<1>10. inbox' = [inbox EXCEPT ![b] = r]
  <2>1. Request(s).from = b /\ Request(s).key = k
    BY <1>3, <1>4, <1>5, <1>6
  <2>2. Respond(b, r)
    <3>1. CASE t = "PUT"
      BY <1>8, <1>9, <2>1, <3>1 DEF ServerPut
    <3>2. CASE t = "GET"
      BY <1>8, <1>9, <2>1, <3>2 DEF ServerGet
    <3> QED
      BY <3>1, <3>2
  <2> QED
    BY <2>2 DEF Respond
<1>11. r.kind = "data"
  BY <1>8 DEF PutReply, GetReply, NoReply
<1>12. /\ \A c \in Clients \ {b} : inbox'[c] = inbox[c]
       /\ inbox'[b] = r
  BY <1>0, <1>10 DEF NetTypeOK
<1>13. AtomicInv'
  <2>1. Ready(b)'
    BY <1>0, <1>5, <1>11, <1>12 DEF Ready
  <2> QED
    BY <1>0, <1>1, <1>2, <1>4, <1>12, <2>1, AtomicAccepted
<1>14. CASE t = "PUT"
  <2>1. db' = [db EXCEPT ![s][k] = op[b].value]
    BY <1>3, <1>5, <1>6, <1>7, <1>9, <1>14 DEF ServerPut, StoreRequest
  <2>2. Store' = [Store EXCEPT ![k] = op[b].value]
    <3>1. PICK v : v = op[b].value
      OBVIOUS
    <3>2. PortOf(k) = s /\ DbPuts(s, k, v)
      BY <1>5, <1>6, <2>1, <3>1 DEF DbPuts
    <3>3. StorePuts(k, v)
      BY <1>0, <1>7, <3>2, StorePut
    <3> QED
      BY <3>1, <3>3 DEF StorePuts
  <2>3. r.status = TRUE /\ r.value = Empty
    BY <1>8, <1>14 DEF PutReply, NoReply
  <2> QED
    BY <1>0, <1>5, <1>6, <1>11, <1>12, <1>13, <1>14, <2>2, <2>3, AnswerStep
<1>15. CASE t = "GET"
  <2>1. db' = db /\ Store' = Store
    BY <1>0, <1>9, <1>15, StoreSame DEF ServerGet, serverVars
  <2>2. PICK v : v = db[s][k]
    OBVIOUS
  <2>3. Lookup(s, k) = v
    <3>1. CharOf(k) = k
      BY <1>7 DEF CharOf
    <3> QED
      BY <1>7, <2>2, <3>1 DEF Lookup
  <2>4. Store[k] = v
    BY <1>5, <1>6, <1>7, <2>2, NetAssumption DEF Store
  <2>5. v # None => v # Empty
    <3>1. ASSUME v # None PROVE WrittenFor(k, v)
      BY <1>7, <2>2, <3>1 DEF Provenance
    <3> QED
      BY <1>0, <1>7, <3>1 DEF WrittenFor, PlainOps, ClientTypeOK
  <2>6. r.status = (v # None) /\ r.value = IF v = None THEN Empty ELSE v
    BY <1>8, <1>15, <2>3, <2>5 DEF GetReply, NoReply
  <2> QED
    BY <1>0, <1>5, <1>6, <1>11, <1>12, <1>13, <1>15, <2>1, <2>4, <2>6, AnswerStep
<1> QED
  BY <1>14, <1>15

LEMMA ServerAtomic ==
    ASSUME TypeInv, AtomicInv, Provenance, PlainOps, FixedMembership,
           UNCHANGED <<masterVars, clientVars>>, ServerNext
    PROVE  AtomicInv' /\ Simulated
<1>0. /\ NetTypeOK /\ ServerTypeOK /\ Master \in Procs /\ Master \notin Servers
      /\ UNCHANGED <<op, cpc, code, route, server_port_map, mpc>>
      /\ mpc' \notin {"reorg", "reput"} /\ \A c \in Clients : Ready(c)
      /\ \A s \in Servers : starts[s] >= 1
  BY NetAssumption DEF TypeInv, TypeOK, Procs, masterVars, clientVars, AtomicInv
<1>1. PICK s \in Servers :
         \/ ServerStep(s) \/ ServerJoin(s) \/ ServerJoinFails(s)
         \/ ServerCrash(s) \/ ServerCrashInPut(s)
  BY DEF ServerNext
<1>2. s \in Procs /\ s # Master
  BY <1>0 DEF Procs
<1>3. ~ServerJoin(s) /\ ~ServerJoinFails(s)
  <2>1. ~(starts[s] < MaxStarts)
    BY <1>0, ServerAssumption DEF FixedMembership, ServerTypeOK
  <2> QED
    BY <2>1 DEF ServerJoin, ServerJoinFails
<1>4. UNCHANGED starts
  BY <1>1, <1>3
  DEF ServerStep, ServerListen, ServerDrop, ServerReorg, ServerReorgPut, ServerPut, ServerNotify,
      ServerNotifyFails, ServerGet, ServerCrash, ServerCrashInPut, ServerStops, serverVars
<1>5. PICK m : m = queue[s][1]
  OBVIOUS
<1>6. ~ServerReorg(s) /\ ~ServerReorgPut(s)
  <2> SUFFICES ASSUME ServerReorg(s) \/ ServerReorgPut(s) PROVE FALSE
    OBVIOUS
  <2>1. queue[s] # <<>> /\ Request(s).type \in {"REORG", "REORG_PUT"}
    BY DEF ServerReorg, ServerReorgPut, ServerReceives, Accept
  <2>2. Meets(s, m) /\ m.type \in {"REORG", "REORG_PUT"}
    BY <1>0, <1>2, <1>5, <2>1, HeadRequest
  <2>3. m.from \in Clients /\ m.type = op[m.from].type
    BY <1>2, <2>2 DEF Meets, Pending
  <2> QED
    BY <2>2, <2>3, ClientAssumption DEF TypeInv, TypeOK, ClientTypeOK
<1>7. ASSUME UNCHANGED <<db, inbox>>
      PROVE  Simulated /\ \A c \in Clients : SameClient(c) /\ Ready(c)'
  <2>1. \A c \in Clients : SameClient(c) /\ SeenSame(c) /\ Ready(c)'
    BY <1>0, <1>7, ReadyKept DEF SameClient, SeenSame
  <2> QED
    BY <1>0, <1>7, <2>1, SilentStep
<1>8. CASE ServerListen(s)
  <2>1. UNCHANGED <<db, inbox, queue>>
    BY <1>8 DEF ServerListen
  <2> QED
    BY <1>0, <1>4, <1>7, <2>1, AtomicStill
<1>9. CASE ServerDrop(s)
  <2>1. Accept(s, "EOF") /\ UNCHANGED <<db, inbox>>
    BY <1>9 DEF ServerDrop, ServerReceives, serverVars
  <2> QED
    BY <1>0, <1>2, <1>4, <1>5, <1>7, <2>1, AtomicAccepted
<1>10. CASE ServerNotify(s)
  <2>1. PICK n : n = Report(s)
    OBVIOUS
  <2>2. /\ Send(Master, n) /\ UNCHANGED <<db, inbox>> /\ n.type = "MASTER_PUT"
        /\ n.from \notin Clients
    BY <1>10, <2>1, NetAssumption DEF ServerNotify, Report, MkMsg
  <2>3. Meets(Master, n)'
    BY <2>2 DEF Meets
  <2> QED
    BY <1>0, <1>4, <1>7, <2>2, <2>3, AtomicSent
<1>11. CASE ServerCrash(s) \/ ServerNotifyFails(s)
  <2>1. Vanish(s) /\ UNCHANGED db
    BY <1>11 DEF ServerCrash, ServerNotifyFails, ServerStops
  <2> QED
    BY <1>0, <1>2, <1>4, <2>1, AtomicVanishes, VanishSimulated, StoreSame
<1>12. CASE ServerCrashInPut(s)
  <2>1. /\ Vanish(s) /\ StoreRequest(s) /\ queue[s] # <<>> /\ Request(s).type = "PUT"
    BY <1>12 DEF ServerCrashInPut
  <2>2. /\ Meets(s, m) /\ m.type = "PUT" /\ 1 \in DOMAIN queue[s]
        /\ Request(s).key = m.key /\ (m.key # 0 => Request(s).value = m.value)
    BY <1>0, <1>2, <1>5, <2>1, HeadRequest
  <2>3. PICK b \in Clients : b = m.from
    BY <1>2, <2>2 DEF Meets
  <2>4. /\ op[b].type = "PUT" /\ op[b].key = m.key /\ PortOf(op[b].key) = s
        /\ m.value = op[b].value
    BY <1>2, <2>2, <2>3 DEF Meets, Pending
  <2>5. op[b].key \in Keys /\ op[b].key # 0
    BY ClientAssumption DEF TypeInv, TypeOK, ClientTypeOK, PlainOps
  <2>6. db' = [db EXCEPT ![s][op[b].key] = op[b].value]
    BY <2>1, <2>2, <2>4, <2>5 DEF StoreRequest
  <2>7. Store' = [Store EXCEPT ![op[b].key] = op[b].value]
    <3>1. PICK k, v : k = op[b].key /\ v = op[b].value
      OBVIOUS
    <3>2. k \in Keys /\ PortOf(k) = s /\ DbPuts(s, k, v)
      BY <2>4, <2>5, <2>6, <3>1 DEF DbPuts
    <3>3. StorePuts(k, v)
      BY <1>0, <3>2, StorePut
    <3> QED
      BY <3>1, <3>3 DEF StorePuts
  <2>8. \E i \in DOMAIN queue[s] : queue[s][i].from = b
    BY <1>5, <2>2, <2>3
  <2>9. Simulated
    BY <1>0, <1>2, <2>1, <2>4, <2>7, <2>8, VanishSimulated
  <2> QED
    BY <1>0, <1>2, <1>4, <2>1, <2>9, AtomicVanishes
<1>13. CASE ServerPut(s) \/ ServerGet(s)
  BY <1>4, <1>13, ServerAnswers
<1> QED
  BY <1>1, <1>3, <1>6, <1>8, <1>9, <1>10, <1>11, <1>12, <1>13 DEF ServerStep

LEMMA ClientAtomic ==
    ASSUME TypeInv, AtomicInv, UNCHANGED <<masterVars, serverVars>>, ClientNext
    PROVE  AtomicInv' /\ Simulated
<1>0. /\ NetTypeOK /\ ClientTypeOK /\ UNCHANGED <<server_port_map, mpc, starts, db>>
      /\ mpc' \notin {"reorg", "reput"} /\ \A s \in Servers : starts'[s] >= 1
      /\ \A c \in Clients : Ready(c)
  BY DEF TypeInv, TypeOK, masterVars, serverVars, AtomicInv
<1>1. PICK b \in Clients : ClientStep(b) \/ ClientKilled(b)
  BY DEF ClientNext
<1>2. op' = op
  BY <1>1
  DEF ClientStep, ClientSend, ClientRefused, ClientKilled, ClientRouted, ClientAnswered,
      ClientCutOff
<1>3. /\ \A c \in Clients \ {b} : cpc'[c] = cpc[c] /\ code'[c] = code[c]
                                  /\ inbox'[c] = inbox[c] /\ route'[c] = route[c]
  BY <1>0, <1>1
  DEF ClientStep, ClientSend, ClientRefused, ClientKilled, ClientRouted, ClientAnswered,
      ClientCutOff, Exit, netVars, ClientTypeOK, NetTypeOK
<1>4. \A c \in Clients \ {b} : SameClient(c) /\ SeenSame(c) /\ Ready(c)'
  BY <1>0, <1>2, <1>3, ReadyKept DEF SameClient, SeenSame
<1>5. CASE ClientSend(b) \/ ClientKilled(b)
  <2>1. PICK p, m : /\ p = Target(b)
                    /\ m = IF ClientSend(b) THEN Asks(b) ELSE MkMsg("EOF", 0, Empty, b)
    OBVIOUS
  <2>2. /\ p \in Procs /\ Send(p, m) /\ cpc[b] \in {"start", "route"} /\ m.from = b
        /\ UNCHANGED <<code, route>>
    <3>1. CASE ClientSend(b)
      BY <2>1, <3>1 DEF ClientSend, CanConnect, Asks, MkMsg
    <3>2. CASE ~ClientSend(b)
      BY <1>5, <2>1, <3>2 DEF ClientKilled, CanConnect, MkMsg
    <3> QED
      BY <3>1, <3>2
  <2>3. /\ code[b] = -1 /\ inbox[b].kind \in {"none", "port"}
        /\ inbox[b].status = FALSE /\ inbox[b].value = Empty
        /\ cpc[b] = "route" => route[b] = PortOf(op[b].key)
    BY <1>0, <2>2 DEF Ready
  <2>4. /\ inbox'[b].kind \in {"none", "port"}
        /\ inbox'[b].status = FALSE /\ inbox'[b].value = Empty
        /\ cpc'[b] \notin {"start", "route", "done"}
        /\ cpc'[b] = "lookup" => inbox'[b].kind = "none"
    <3>1. CASE ClientSend(b)
      BY <1>0, <3>1 DEF ClientSend, NetTypeOK, ClientTypeOK, NoReply
    <3>2. CASE ClientKilled(b)
      BY <1>0, <2>3, <3>2 DEF ClientKilled, NetTypeOK, ClientTypeOK
    <3> QED
      BY <1>5, <3>1, <3>2
  <2>5. Ready(b)' /\ SeenSame(b)
    BY <2>2, <2>3, <2>4 DEF Ready, SeenSame
  <2>6. Meets(p, m)'
    <3>1. CASE ClientSend(b) /\ cpc[b] = "start"
      <4>1. /\ p = Master /\ m.type = "GET" /\ m.key = op[b].key
            /\ cpc'[b] = "lookup" /\ inbox'[b].kind = "none"
        BY <1>0, <2>1, <3>1 DEF Target, Asks, MkMsg, ClientSend, NetTypeOK, ClientTypeOK, NoReply
      <4> QED
        BY <1>2, <2>2, <2>3, <4>1 DEF Meets, Pending
    <3>2. CASE ClientSend(b) /\ cpc[b] = "route"
      <4>1. /\ p = PortOf(op[b].key) /\ m.type = op[b].type /\ m.key = op[b].key
            /\ op[b].type = "PUT" => m.value = op[b].value
            /\ cpc'[b] = "request" /\ inbox'[b].kind = "none"
        BY <1>0, <2>1, <2>3, <3>2
        DEF Target, Asks, MkMsg, ClientSend, NetTypeOK, ClientTypeOK, NoReply
      <4>2. p # Master /\ PortOf(op[b].key)' = p /\ m.type # "EOF"
        BY <1>0, <1>2, <4>1, PortType, PortKept, NetAssumption, ClientAssumption
        DEF TypeInv, TypeOK, ClientTypeOK
      <4> QED
        BY <1>2, <2>2, <2>3, <4>1, <4>2 DEF Meets, Pending
    <3>3. CASE ~ClientSend(b)
      <4>1. m.type = "EOF" /\ cpc'[b] = "killed"
        BY <1>0, <1>5, <2>1, <3>3 DEF MkMsg, ClientKilled, ClientTypeOK
      <4> QED
        BY <2>2, <2>3, <2>4, <4>1 DEF Meets, Pending
    <3> QED
      BY <2>2, <3>1, <3>2, <3>3
  <2>7. AtomicInv'
    BY <1>0, <1>2, <1>4, <2>2, <2>5, <2>6, AtomicSent
  <2> QED
    BY <1>0, <1>2, <1>4, <2>5, <2>7, SilentStep
<1>6. CASE ClientRefused(b) \/ ClientRouted(b) \/ ClientAnswered(b) \/ ClientCutOff(b)
  <2>1. UNCHANGED <<queue, inbox>>
    BY <1>6 DEF ClientRefused, ClientRouted, ClientAnswered, ClientCutOff, netVars
  <2>2. /\ code[b] = -1 /\ cpc[b] # "done" /\ cpc[b] # "killed"
        /\ cpc[b] \in {"lookup", "request"} => inbox[b].kind # "none"
        /\ inbox[b].kind # "data" => inbox[b].status = FALSE /\ inbox[b].value = Empty
    BY <1>0, <1>6 DEF ClientRefused, ClientRouted, ClientAnswered, ClientCutOff, Ready
  <2>3. Ready(b)'
    <3>1. CASE ClientRouted(b)
      BY <1>0, <1>2, <2>1, <2>2, <3>1, PortKept DEF ClientRouted, Ready, ClientTypeOK
    <3>2. CASE ~ClientRouted(b)
      <4>1. cpc'[b] = "done"
        BY <1>0, <1>6, <3>2 DEF ClientRefused, ClientAnswered, ClientCutOff, Exit, ClientTypeOK
      <4> QED
        BY <2>1, <2>2, <4>1 DEF Ready
    <3> QED
      BY <3>1, <3>2
  <2>4. \A p \in Procs : \A i \in DOMAIN queue[p] : queue[p][i].from # b
    BY <2>2, NothingPending
  <2>5. AtomicInv'
    BY <1>0, <1>2, <1>4, <2>1, <2>3, <2>4, AtomicStill
  <2>6. CASE ClientRefused(b)
    <3>1. code'[b] = 1 /\ inbox[b].kind \in {"none", "port"}
      BY <1>0, <2>6 DEF ClientRefused, Exit, ClientTypeOK, Ready
    <3>2. PICK S \in SUBSET Clients : S = {b}
      OBVIOUS
    <3>3. Phases[b] = "asked" /\ Phases'[b] = "failed" /\ Told'[b] = Told[b]
      <4>1. Phases[b] = "asked"
        BY <2>2, <3>1 DEF Phases
      <4>2. Phases'[b] = "failed" /\ Told'[b] = Told[b]
        BY <2>1, <3>1 DEF Phases, Told
      <4> QED
        BY <4>1, <4>2
    <3>4. \A c \in Clients \ {b} : Phases'[c] = Phases[c] /\ Told'[c] = Told[c]
      BY <1>3 DEF Phases, Told
    <3> QED
      BY <1>0, <1>2, <2>5, <3>2, <3>3, <3>4, CutStep, StoreSame
  <2>7. CASE ~ClientRefused(b)
    <3>1. code'[b] # 1
      BY <1>0, <1>6, <2>2, <2>7
      DEF ClientRouted, ClientAnswered, ClientCutOff, Exit, ClientTypeOK
    <3>2. SeenSame(b)
      BY <2>1, <2>2, <3>1 DEF SeenSame
    <3> QED
      BY <1>0, <1>2, <1>4, <2>5, <3>2, SilentStep
  <2> QED
    BY <2>6, <2>7
<1> QED
  BY <1>1, <1>5, <1>6 DEF ClientStep

LEMMA InitAtomic == ASSUME Init, FixedMembership PROVE AtomicInv /\ Atomic!Init
<1>1. \A p \in Procs : DOMAIN queue[p] = {}
  BY DEF Init
<1>2. AtomicInv
  BY <1>1 DEF Init, AtomicInv, FixedMembership, Ready, OneEach, NoReply
<1>3. Store = [k \in Keys |-> None]
  <2>1. \A k \in Keys : PortOf(k) # NoPort => PortOf(k) \in Servers
    BY PortType, InitTypes DEF TypeInv, TypeOK
  <2> QED
    BY <2>1 DEF Init, Store, KeyFields
<1>4. Phases = [c \in Clients |-> "asked"]
  BY DEF Init, Phases, NoReply
<1>5. Told = [c \in Clients |-> [found |-> FALSE, value |-> Empty]]
  BY DEF Init, Told, NoReply
<1>6. op \in [Clients -> Ops]
  BY DEF Init
<1> QED
  BY <1>2, <1>3, <1>4, <1>5, <1>6 DEF Atomic!Init, Atomic!Silence, Store, Phases, Told

LEMMA NextAtomic ==
    ASSUME FixedMembership, PlainOps, TypeInv, Provenance, AtomicInv, [Next]_vars
    PROVE  AtomicInv' /\ Simulated
<1>1. CASE UNCHANGED vars
  <2>1. UNCHANGED <<queue, inbox, mpc, server_port_map, db, starts, op, cpc, route, code>>
    BY <1>1 DEF vars, netVars, masterVars, serverVars, clientVars
  <2>2. \A c \in Clients : SameClient(c) /\ SeenSame(c) /\ Ready(c)'
    BY <2>1, ReadyKept DEF SameClient, SeenSame, AtomicInv
  <2> QED
    BY <2>1, <2>2, AtomicStill, SilentStep DEF AtomicInv
<1> QED
  BY <1>1, MasterAtomic, ServerAtomic, ClientAtomic DEF Next, Rest

\* With fixed membership the shards are one atomic map to their clients, through
\* crashes of servers, kills of clients, full queues and exhausted descriptors:
\* an operation takes effect when its shard answers it, and each step of the
\* store is a step of the map or leaves it alone.  Keys are those the wire and
\* the cast to char keep, values those that are not empty.
THEOREM ShardsImplementAtomicKV ==
    ASSUME FixedMembership, PlainOps PROVE Spec => ImplementsAtomicKV
<1>1. Init => AtomicInv /\ Atomic!Init
  BY InitAtomic
<1>2. TypeInv /\ Provenance /\ AtomicInv /\ [Next]_vars =>
          AtomicInv' /\ [Atomic!Next]_(Atomic!vars)
  BY NextAtomic DEF Simulated
<1> QED
  BY <1>1, <1>2, InitTypes, NextTypes, ProvenanceCorrect, PTL
  DEF Spec, ImplementsAtomicKV, Atomic!Spec
=============================================================================
