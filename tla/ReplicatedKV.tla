---------------------------- MODULE ReplicatedKV ----------------------------
(***************************************************************************)
(* The replicated store of task3: the servers and the clients over one     *)
(* network, and what replication owes them.                                *)
(*                                                                         *)
(* The last four variables are history: no process reads them.            *)
(***************************************************************************)
EXTENDS ReplServer, ReplClient

CONSTANT Formed  \* whether the mesh is already formed when the behaviour begins

ASSUME FormedAssumption == Formed \in BOOLEAN /\ (Formed => 2 * N - 1 <= FdLimit)

VARIABLES
    log,      \* the clients whose PUT the leader began to forward, in order
    applied,  \* applied[n]: the PUTs follower n took from its queue and stored
    due,      \* due[c]: the followers that were serving when c's PUT began,
              \* have not died since, and were sent to unless the leader had
              \* no descriptor left or their accept queue stayed full
    launched  \* the clients whose PUT began after every server was launched

historyVars == <<log, applied, due, launched>>

vars == <<netVars, serverVars, clientVars, historyVars>>

\* Server n connected to the n servers started before it, failed to connect
\* to the N - 1 - n later ones and accepted them, and opened its client port.
FormedFds(n) == 2 * N - 1 - n

Init ==
    /\ op \in [Clients -> Ops]
    /\ up = [n \in Nodes |-> Formed] /\ open = [n \in Nodes |-> Formed]
    /\ peerQ = [n \in Nodes |-> <<>>] /\ clientQ = [n \in Nodes |-> <<>>]
    /\ inbox = [c \in Clients |-> Closed]
    /\ pc = [n \in Nodes |-> IF Formed THEN "serve" ELSE "off"]
    /\ thread = [n \in Nodes |-> "ready"]
    /\ at = [n \in Nodes |-> IF Formed THEN N ELSE 0]
    /\ need = [n \in Nodes |-> 0]
    /\ cur = [n \in Nodes |-> Nobody]
    /\ db = [n \in Nodes |-> [k \in Keys |-> None]]
    /\ fds = [n \in Nodes |-> IF Formed THEN FormedFds(n) ELSE 0]
    /\ starts = [n \in Nodes |-> IF Formed THEN 1 ELSE 0]
    /\ crashes = 0
    /\ cpc = [c \in Clients |-> "start"]
    /\ code = [c \in Clients |-> -1]
    /\ kills = 0
    /\ log = <<>>
    /\ applied = [n \in Nodes |-> <<>>]
    /\ due = [c \in Clients |-> {}]
    /\ launched = {}

Begins(c) == cur[Leader] = Nobody /\ cur'[Leader] = c
Follows(n) == Serving(n) /\ pc'[n] = "serve"
Applies(n) ==
    /\ Follows(n) /\ peerQ[n] # <<>> /\ Head(peerQ[n]).type = "APPEND"
    /\ Len(peerQ'[n]) < Len(peerQ[n])

\* The leader passes follower n by for want of a descriptor, or of a place in
\* the accept queue of n.
Unsent(c, n) ==
    /\ cur[Leader] = c /\ pc[Leader] = "send" /\ at[Leader] = n
    /\ fds[Leader] = FdLimit \/ Len(peerQ[n]) >= Slots

History ==
    /\ log' = IF cur[Leader] = Nobody /\ cur'[Leader] # Nobody
              THEN Append(log, cur'[Leader]) ELSE log
    /\ applied' = [n \in Nodes |->
           IF Applies(n) THEN Append(applied[n], Head(peerQ[n]).put) ELSE applied[n]]
    /\ due' = [c \in Clients |->
           IF Begins(c) THEN {n \in Nodes : Follows(n)}
           ELSE {n \in due[c] : pc'[n] # "off" /\ ~Unsent(c, n)}]
    /\ launched' = launched \cup {c \in Clients : Begins(c) /\ \A n \in Nodes : up[n]}

\* Everybody has exited, or waits for ever in accept() or for an answer.
\* The leader accepts nothing on its server port once it serves.
Rest ==
    /\ \A n \in Nodes :
          /\ IF pc[n] = "off" THEN starts[n] = MaxStarts ELSE pc[n] = "serve" /\ open[n]
          /\ clientQ[n] = <<>> /\ (n # Leader => peerQ[n] = <<>>)
    /\ \A c \in Clients : CASE cpc[c] = "start" -> FALSE
                            [] cpc[c] = "waiting" -> inbox[c] = Waiting
                            [] OTHER -> TRUE
    /\ UNCHANGED vars

Next ==
    \/ /\ \/ ServerNext /\ UNCHANGED clientVars
          \/ ClientNext /\ UNCHANGED serverVars
       /\ History
    \/ Rest

Spec == Init /\ [][Next]_vars

\* The threads of the servers and the clients run when they can; nobody has
\* to start or kill a process.
Fairness ==
    /\ \A n \in Nodes :
          /\ WF_vars(MainStep(n) /\ UNCHANGED clientVars /\ History)
          /\ WF_vars(ThreadStep(n) /\ UNCHANGED clientVars /\ History)
          /\ WF_vars(Fails(n) /\ UNCHANGED clientVars /\ History)
    /\ \A c \in Clients : WF_vars(ClientStep(c) /\ UNCHANGED serverVars /\ History)

FairSpec == Spec /\ Fairness
-----------------------------------------------------------------------------
TypeOK ==
    /\ NetTypeOK /\ ServerTypeOK /\ ClientTypeOK
    /\ log \in Seq(Clients)
    /\ applied \in [Nodes -> Seq(Clients)]
    /\ due \in [Clients -> SUBSET Nodes]
    /\ launched \subseteq Clients

Acked(c) == op[c].type = "PUT" /\ inbox[c].kind = "reply"

Before(s, c, d) == \E i, j \in DOMAIN s : i < j /\ s[i] = c /\ s[j] = d
In(s, c) == \E i \in DOMAIN s : s[i] = c
Underway(n, c) == \E i \in DOMAIN peerQ[n] : peerQ[n][i] = AppendEntry(c)

\* What a follower stored, and then what waits for it, is in the order in
\* which the leader took the PUTs, whoever was killed and restarted.
InOrder ==
    \A n \in Nodes \ {Leader} : \A c, d \in Clients :
        /\ Before(applied[n], c, d) => Before(log, c, d)
        /\ In(applied[n], c) /\ Underway(n, d) => Before(log, c, d)
        /\ \A i, j \in DOMAIN peerQ[n] :
              i < j /\ peerQ[n][i] = AppendEntry(c) /\ peerQ[n][j] = AppendEntry(d)
                  => Before(log, c, d)

\* An answered PUT has reached each follower that was serving when it began
\* and still runs: none is overlooked, and none takes it for a join.
AckedDelivered ==
    \A c \in Clients : Acked(c) =>
        \A n \in due[c] : In(applied[n], c) \/ Underway(n, c)

LastPut(k, c) ==
    /\ In(log, c) /\ op[c].key = k
    /\ \A d \in Clients : op[d].key = k => ~Before(log, c, d)

\* Where the last PUT of a key was owed and nothing is under way any more,
\* the follower agrees with the leader on that key.
ReplicasAgree ==
    \A k \in Keys, c \in Clients : LastPut(k, c) /\ Acked(c) =>
        \A n \in due[c] :
            (\A d \in Clients : ~Underway(n, d)) => db[n][k] = db[Leader][k]

\* Servers that all run form their mesh, also again after a restart: the
\* leader comes to serve.
MeshForms ==
    (\A n \in Nodes : pc[n] # "off")
        ~> (open[Leader] \/ \E n \in Nodes : pc[n] = "off" \/ pc[n] = "hung")

\* The death of a follower does not keep the leader from answering.
LeaderAnswers ==
    \A c \in Clients :
        (cpc[c] = "waiting" /\ op[c].node = Leader)
            ~> (cpc[c] \in {"done", "aborted"} \/ pc[Leader] = "hung")

\* An answered PUT is eventually stored by every follower it was owed to.
AckedReplicated ==
    \A c \in Clients, n \in Nodes :
        (Acked(c) /\ n \in due[c])
            ~> (In(applied[n], c) \/ n \notin due[c] \/ pc[n] = "hung")

\* To the clients of the leader the store is one atomic map: the leader's
\* database, through its crashes and restarts.
AbstractOp(o) == [type |-> IF o.type = "PUT" THEN "PUT" ELSE "GET", key |-> o.key, value |-> o.value]

Atomic == INSTANCE AtomicKV WITH
    Empty <- None,
    Ops <- {AbstractOp(o) : o \in Ops},
    op <- [c \in Clients |-> AbstractOp(op[c])],
    store <- db[Leader],
    phase <- [c \in Clients |->
                 CASE op[c].node # Leader -> "asked"
                   [] inbox[c].kind = "eof" -> "failed"
                   [] inbox[c].kind = "reply" -> "answered"
                   [] OTHER -> "asked"],
    answer <- [c \in Clients |->
                 IF op[c].node = Leader
                 THEN [found |-> inbox[c].status = "OK", value |-> inbox[c].value]
                 ELSE [found |-> FALSE, value |-> None]]

ImplementsAtomicKV == Atomic!Spec
-----------------------------------------------------------------------------
(* What the documentation says and the code does not do.                   *)

\* README.md:82-84: the servers launch, the client sends its PUTs to the
\* leader, and all servers have the correct replicated values.
EveryReplicaGets ==
    crashes = 0 /\ (\A n \in Nodes : pc[n] = "serve" /\ (n # Leader => peerQ[n] = <<>>)) =>
        \A k \in Keys, c \in launched : LastPut(k, c) /\ Acked(c) =>
            \A n \in Nodes : db[n][k] = op[c].value

\* README.md:73-74: a follower returns an error for anything but DIRECT_GET.
FollowerAnswers ==
    \A c \in Clients : (cpc[c] = "waiting") ~> (cpc[c] # "waiting" \/ crashes > 0)
=============================================================================
