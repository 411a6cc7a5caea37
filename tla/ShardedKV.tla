----------------------------- MODULE ShardedKV ------------------------------
(***************************************************************************)
(* The sharded store of task2: the master, the shards and the clients over *)
(* one network, and what the store owes its clients.                       *)
(*                                                                         *)
(* The last five variables are history: no process reads them.             *)
(***************************************************************************)
EXTENDS ShardMaster, ShardServer, ShardClient

CONSTANT Formed  \* the servers that joined, in order, before the behaviour begins

FormedFds ==
    LET n == Len(Formed) IN IF n < 3 THEN n ELSE n + (n * (n + 1)) \div 2 - 3

ASSUME FormedAssumption ==
    /\ Formed \in Seq(Servers)
    /\ \A i, j \in 1..Len(Formed) : Formed[i] = Formed[j] => i = j
    /\ FormedFds <= FdLimit

VARIABLES
    latest,  \* the value of the last answered PUT of each key
    placed,  \* the values the current set of servers has been given: by the
             \* redistribution that formed it, or by a PUT routed under it
    epoch,   \* num_servers when the master answered client c's lookup
    owed,    \* whether c's key was placed then
    since    \* since[s]: the keys of the PUTs s served after its last REORG

historyVars == <<latest, placed, epoch, owed, since>>

vars == <<netVars, masterVars, serverVars, clientVars, historyVars>>

IsFormed(s) == \E i \in DOMAIN Formed : Formed[i] = s

Init ==
    /\ listening = [p \in Procs |-> p = Master \/ IsFormed(p)]
    /\ queue = [p \in Procs |-> <<>>]
    /\ inbox = [c \in Clients |-> NoReply]
    /\ mpc = "accept"
    /\ server_port_map = Formed
    /\ kv_map = [k \in KeyFields |-> None]
    /\ reorg_next = IF num_servers < 3 THEN 1 ELSE num_servers
    /\ reput_left = {}
    /\ fds = FormedFds
    /\ spc = [s \in Servers |-> IF IsFormed(s) THEN "loop" ELSE "down"]
    /\ db = [s \in Servers |-> [k \in KeyFields |-> None]]
    /\ keys = [s \in Servers |-> {}]
    /\ note = [s \in Servers |-> NoNote]
    /\ starts = [s \in Servers |-> IF IsFormed(s) THEN 1 ELSE 0]
    /\ crashes = 0
    /\ op \in [Clients -> Ops]
    /\ cpc = [c \in Clients |-> "start"]
    /\ route = [c \in Clients |-> NoPort]
    /\ code = [c \in Clients |-> -1]
    /\ kills = 0
    /\ latest = [k \in KeyFields |-> None]
    /\ placed = [k \in KeyFields |-> None]
    /\ epoch = [c \in Clients |-> 0]
    /\ owed = [c \in Clients |-> FALSE]
    /\ since = [s \in Servers |-> {}]

Gets(c, kind) == inbox[c].kind # kind /\ inbox'[c].kind = kind

\* In this step a shard answers client c's PUT of key k.
Stored(c, k) == op[c].type = "PUT" /\ op[c].key = k /\ Gets(c, "data")

\* In this step shard s serves the REORG it has accepted.
Reorganizes(s) ==
    /\ spc[s] = "loop" /\ queue[s] # <<>> /\ Head(queue[s]).type = "REORG"
    /\ queue'[s] = Tail(queue[s])

History ==
    /\ latest' = [k \in KeyFields |->
           IF \E c \in Clients : Stored(c, k) THEN LET c == CHOOSE c \in Clients : Stored(c, k)
                                                   IN  db'[route[c]][k]
           ELSE latest[k]]
    /\ placed' =
          IF server_port_map' # server_port_map
          THEN [k \in KeyFields |->
                   IF Len(server_port_map') >= 3 /\ kv_map[k] # None THEN latest[k] ELSE None]
          ELSE [k \in KeyFields |->
                   IF \E c \in Clients : Stored(c, k) /\ epoch[c] = num_servers
                   THEN latest'[k] ELSE placed[k]]
    /\ epoch' = [c \in Clients |-> IF Gets(c, "port") THEN num_servers ELSE epoch[c]]
    /\ owed' = [c \in Clients |-> IF Gets(c, "port") THEN placed[op[c].key] # None ELSE owed[c]]
    /\ since' = [s \in Servers |->
           IF Reorganizes(s) THEN {}
           ELSE since[s] \cup {k \in KeyFields : \E c \in Clients : Stored(c, k) /\ route[c] = s}]

Idle ==
    /\ \A p \in Procs : queue[p] = <<>>
    /\ \A s \in Servers : spc[s] \in {"loop", "down"}
    /\ mpc \in {"accept", "exited"}

\* Everybody is done or waits in accept(): the system may rest.
Rest ==
    /\ Idle
    /\ \A c \in Clients : cpc[c] \in {"done", "killed"}
    /\ UNCHANGED vars

Next ==
    \/ /\ \/ MasterNext /\ UNCHANGED <<serverVars, clientVars>>
          \/ ServerNext /\ UNCHANGED <<masterVars, clientVars>>
          \/ ClientNext /\ UNCHANGED <<masterVars, serverVars>>
       /\ History
    \/ Rest

Spec == Init /\ [][Next]_vars

\* A process that can go on does: none of the loops yields or sleeps.
Fairness ==
    /\ WF_vars(MasterNext /\ UNCHANGED <<serverVars, clientVars>> /\ History)
    /\ \A s \in Servers :
          WF_vars(ServerStep(s) /\ UNCHANGED <<masterVars, clientVars>> /\ History)
    /\ \A c \in Clients :
          WF_vars(ClientStep(c) /\ UNCHANGED <<masterVars, serverVars>> /\ History)

FairSpec == Spec /\ Fairness
-----------------------------------------------------------------------------
TypeOK == NetTypeOK /\ MasterTypeOK /\ ServerTypeOK /\ ClientTypeOK

\* No server process died and the master did not leave.
Intact == crashes = 0 /\ mpc # "exited"

\* The vector of keys names all that a server holds, so that REORG leaves
\* nothing behind.  It is only kept in memory: a restarted server is exempt.
KeysCoverDb ==
    \A s \in Servers :
        starts[s] <= 1 /\ spc[s] # "down" =>
            {k \in KeyFields : db[s][k] # None} =
                keys[s] \cup (IF spc[s] = "notify" THEN {note[s].key} ELSE {})

\* v is what some client's PUT of k stores.
WrittenFor(k, v) ==
    \E c \in Clients :
        op[c].type = "PUT" /\ op[c].key = k /\ v = IF k = 0 THEN Empty ELSE op[c].value

\* Through shard, master, redistribution and restart, a key is only ever
\* given a value that some client wrote for that key.
Provenance ==
    /\ \A k \in KeyFields :
          /\ kv_map[k] # None => WrittenFor(k, kv_map[k])
          /\ \A s \in Servers : db[s][k] # None => WrittenFor(k, db[s][k])
    /\ \A p \in Procs : \A i \in DOMAIN queue[p] :
          queue[p][i].type \in {"MASTER_PUT", "REORG_PUT"} =>
              WrittenFor(queue[p][i].key, Decode(queue[p][i]).value)

ReorgAfter(h, i) == \E j \in DOMAIN queue[h] : j > i /\ queue[h][j].type = "REORG"

\* Key k is at its shard, or on its way there behind every REORG.
AtHomeOrComing(k) ==
    \/ mpc = "reorg" /\ kv_map[k] # None
    \/ mpc = "reput" /\ k \in reput_left
    \/ LET h == PortOf(k) IN
          /\ h # NoPort
          /\ \/ db[h][k] # None /\ ~ReorgAfter(h, 0)
             \/ \E i \in DOMAIN queue[h] :
                   queue[h][i].type = "REORG_PUT" /\ queue[h][i].key = k /\ ~ReorgAfter(h, i)

\* What the current set of servers was given is never lost by it: a
\* redistribution deletes a key only ahead of putting it back.
Placement == Intact => \A k \in KeyFields : placed[k] # None => AtHomeOrComing(k)

\* A GET is not told "no such key" for a key that was placed when the master
\* routed it, unless servers joined since: the REORG_PUTs are ahead of it in
\* the queue of its shard.  Keys the wire and the cast to char keep intact.
PlacedKeyFound ==
    Intact => \A c \in Clients :
        op[c].type = "GET" /\ op[c].key \in 1..127 /\ owed[c] /\ epoch[c] = num_servers
            => code[c] # 2

\* After a redistribution a shard holds a key of another shard only because a
\* client routed under the earlier set of servers put it there, and only if
\* it did so after the shard's REORG.
StraysAreStale ==
    Intact /\ mpc = "accept" /\ num_servers >= 3 =>
        \A s \in Servers, k \in KeyFields :
            db[s][k] # None /\ PortOf(k) # s /\ ~ReorgAfter(s, 0) =>
                /\ k \in since[s]
                /\ \E c \in Clients : /\ op[c].type = "PUT" /\ op[c].key = k
                                      /\ route[c] = s /\ epoch[c] < num_servers

\* Every client exits, whoever crashes: an answer, a refused connection and a
\* reset all end it.
EveryClientExits == \A c \in Clients : <>(cpc[c] \in {"done", "killed"})

\* The master learns of every PUT that was answered, unless somebody dies.
AnsweredPutReported ==
    \A c \in Clients :
        (code[c] = 0 /\ op[c].type = "PUT")
            ~> (kv_map[op[c].key] # None \/ ~Intact)
\* While no server joins, the cluster implements one atomic map: the key's
\* entry is the one in the database of its shard, and an operation takes
\* effect where the shard answers it.
Atomic == INSTANCE AtomicKV WITH
    store <- [k \in Keys |-> IF PortOf(k) = NoPort THEN None ELSE db[PortOf(k)][k]],
    phase <- [c \in Clients |->
                 CASE code[c] = 1 \/ inbox[c].kind = "eof" -> "failed"
                   [] inbox[c].kind = "data" -> "answered"
                   [] OTHER -> "asked"],
    answer <- [c \in Clients |-> [found |-> inbox[c].status, value |-> inbox[c].value]]

ImplementsAtomicKV == Atomic!Spec
-----------------------------------------------------------------------------
(* What the documentation says and the code does not do.                   *)

\* README.md:12: a join redistributes the keys across the new set of servers.
AnsweredPutsSurvive ==
    Intact /\ Idle => \A k \in KeyFields : latest[k] # None =>
        PortOf(k) # NoPort /\ db[PortOf(k)][k] # None

\* README.md:12: and their values.
PlacedValuesCurrent ==
    Intact /\ Idle /\ num_servers >= 3 => \A k \in KeyFields : placed[k] # None =>
        PortOf(k) # NoPort /\ db[PortOf(k)][k] = placed[k]

\* README.md:9-12: the master serves whoever joins or asks.
MasterStays == crashes = 0 => mpc # "exited"
=============================================================================
