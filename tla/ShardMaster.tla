---------------------------- MODULE ShardMaster -----------------------------
(***************************************************************************)
(* task2/source/master_server.cpp: the single-threaded master.  It numbers *)
(* the servers in the order they register, tells a client which port holds *)
(* its key, remembers the keys the shards report, and from the third       *)
(* server on redistributes them at every join: REORG to every server, then *)
(* one REORG_PUT per remembered key, each on a connection of its own.      *)
(***************************************************************************)
EXTENDS ShardNet

CONSTANT FdLimit  \* descriptors the master may open after its own socket

ASSUME MasterAssumption == FdLimit \in Nat

VARIABLES
    mpc,              \* "accept", "reorg", "reput", "exited" or "hung"
    server_port_map,  \* the i-th registered server's port; num_servers is its length
    kv_map,           \* key -> value, None where the map has no entry
    reorg_next,       \* the server the REORG loop is at
    reput_left,       \* the keys the REORG_PUT loop has still to send
    fds               \* descriptors opened and never closed

masterVars == <<mpc, server_port_map, kv_map, reorg_next, reput_left, fds>>

num_servers == Len(server_port_map)

\* C++ integer division truncates, so the remainder of a negative key is not
\* positive.
ShardOf(k, n) == 1 + (IF k >= 0 THEN k % n ELSE -((-k) % n))

\* server_port_map.find(shard)->second.  For a shard that is not there the
\* code reads through end(), where libstdc++ keeps the node count: the upper
\* half of that word, 0, is taken for the port.
PortOf(k) ==
    LET shard == ShardOf(k, num_servers)
    IN  IF shard \in DOMAIN server_port_map THEN server_port_map[shard] ELSE NoPort

\* Seeded bug: keys of the new server are not redistributed.
SettledKeys == {k \in KeyFields : kv_map[k] # None /\ PortOf(k) # server_port_map[num_servers]}

\* The keys the second redistribution loop runs through.
KnownKeys == {k \in KeyFields : kv_map[k] # None}

\* Seeded bug: the third server comes too early for a redistribution.
NeedsReorgLate(n) == n > 3

NeedsReorg(n) == n >= 3

MasterTypeOK ==
    /\ mpc \in {"accept", "reorg", "reput", "exited", "hung"}
    /\ server_port_map \in Seq(Servers)
    /\ kv_map \in [KeyFields -> Payload \cup {None}]
    /\ reorg_next \in Nat \ {0}
    /\ reput_left \subseteq KeyFields
    /\ fds \in 0..FdLimit

\* accept_connection and secure_recv of a request of type t.  The handlers
\* below leak the descriptor of the connection.
MasterReceives(t) == mpc = "accept" /\ fds < FdLimit /\ Accept(Master, t)

\* A peer that closed without sending: close(sock_fd); continue.
MasterDrop ==
    /\ MasterReceives("EOF")
    /\ UNCHANGED <<masterVars, listening, inbox>>

\* std::map::insert keeps the value of a key that is already there.
MasterPut ==
    /\ MasterReceives("MASTER_PUT")
    /\ kv_map' = [kv_map EXCEPT ![Request(Master).key] =
                     IF @ = None THEN Request(Master).value ELSE @]
    /\ fds' = fds + 1
    /\ UNCHANGED <<mpc, server_port_map, reorg_next, reput_left, listening, inbox>>

MasterJoin ==
    /\ MasterReceives("SERVER")
    /\ server_port_map' = Append(server_port_map, Request(Master).from)
    /\ fds' = fds + 1
    /\ IF NeedsReorg(num_servers + 1)
       THEN mpc' = "reorg" /\ reorg_next' = 1
       ELSE UNCHANGED <<mpc, reorg_next>>
    /\ UNCHANGED <<kv_map, reput_left, listening, inbox>>

\* One turn of the first loop: the inner sock_fd is never closed.
MasterReorg ==
    /\ mpc = "reorg"
    /\ fds < FdLimit
    /\ CanConnect(server_port_map[reorg_next])
    /\ Send(server_port_map[reorg_next], MkMsg("REORG", 0, Empty, Master))
    /\ fds' = fds + 1
    /\ IF reorg_next < num_servers
       THEN reorg_next' = reorg_next + 1 /\ UNCHANGED <<mpc, reput_left>>
       ELSE /\ mpc' = "reput"
            /\ reput_left' = KnownKeys
            /\ UNCHANGED reorg_next
    /\ UNCHANGED <<server_port_map, kv_map, listening, inbox>>

\* The REORG_PUT loop runs through kv_map in key order.
NextKey(k) == k \in reput_left /\ \A j \in reput_left : k =< j

MasterReorgPut ==
    /\ mpc = "reput"
    /\ fds < FdLimit
    /\ \E k \in reput_left :
          /\ NextKey(k)
          /\ CanConnect(PortOf(k))
          /\ Send(PortOf(k), MkMsg("REORG_PUT", k, kv_map[k], Master))
          /\ reput_left' = reput_left \ {k}
    /\ UNCHANGED <<mpc, server_port_map, kv_map, reorg_next, fds, listening, inbox>>

MasterReorgDone ==
    /\ mpc = "reput"
    /\ reput_left = {}
    /\ mpc' = "accept"
    /\ UNCHANGED <<server_port_map, kv_map, reorg_next, reput_left, fds, netVars>>

MasterLeaves ==
    /\ mpc' = "exited"
    /\ Vanish(Master)
    /\ UNCHANGED <<server_port_map, kv_map, reorg_next, reput_left, fds>>

\* exit(1) when a server that must be told cannot be connected to, or no
\* descriptor is left for the socket.
MasterConnectFails ==
    /\ \/ mpc = "reorg" /\ (fds = FdLimit \/ Refused(server_port_map[reorg_next]))
       \/ mpc = "reput" /\ \E k \in reput_left :
             NextKey(k) /\ (fds = FdLimit \/ Refused(PortOf(k)))
    /\ MasterLeaves

\* Answered with the port of the key's shard.  A client asks with GET
\* whatever its operation is; the code treats PUT alike.
MasterLookup ==
    /\ num_servers > 0
    /\ MasterReceives("GET")
    /\ Respond(Request(Master).from, PortReply(PortOf(Request(Master).key)))
    /\ fds' = fds + 1
    /\ UNCHANGED <<mpc, server_port_map, kv_map, reorg_next, reput_left, listening>>

\* m.key() % 0: the processor traps and the master dies of SIGFPE, with the
\* client's connection open.
MasterDividesByZero ==
    /\ mpc = "accept"
    /\ fds < FdLimit
    /\ num_servers = 0
    /\ queue[Master] # <<>>
    /\ Request(Master).type = "GET"
    /\ MasterLeaves

\* accept() fails with EMFILE and secure_recv(-1) never returns: recv keeps
\* failing and read_n only counts results that are zero.
MasterOutOfDescriptors ==
    /\ mpc = "accept"
    /\ fds = FdLimit
    /\ queue[Master] # <<>>
    /\ mpc' = "hung"
    /\ UNCHANGED <<server_port_map, kv_map, reorg_next, reput_left, fds, netVars>>

MasterNext ==
    \/ MasterDrop \/ MasterPut \/ MasterJoin \/ MasterLookup
    \/ MasterReorg \/ MasterReorgPut \/ MasterReorgDone \/ MasterConnectFails
    \/ MasterDividesByZero \/ MasterOutOfDescriptors
=============================================================================
