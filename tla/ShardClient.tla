---------------------------- MODULE ShardClient -----------------------------
(***************************************************************************)
(* task2/source/client.cpp: a client runs one PUT or GET and exits.  It    *)
(* asks the master for the port of the key's shard, then sends the         *)
(* operation there.  Line 23 fixes direct to false, so the branch for      *)
(* direct connections (25-55) is dead code and -d and -p have no effect.   *)
(***************************************************************************)
EXTENDS ShardNet

CONSTANTS
    Ops,       \* the command lines: records of type, key, value and direct
    MaxKills   \* bound: how many clients are killed while connecting

ASSUME ClientAssumption ==
    /\ Ops \subseteq [type : {"PUT", "GET"}, key : Keys, value : Payload,
                      direct : BOOLEAN]
    /\ MaxKills \in Nat

VARIABLES
    op,     \* the command line of each client
    cpc,    \* "start", "lookup", "route", "request", "done" or "killed"
    route,  \* the port the master named
    code,   \* the exit status, -1 until the client exits
    kills   \* how many clients were killed

clientVars == <<op, cpc, route, code, kills>>

ClientTypeOK ==
    /\ op \in [Clients -> Ops]
    /\ cpc \in [Clients -> {"start", "lookup", "route", "request", "done", "killed"}]
    /\ route \in [Clients -> Servers \cup {NoPort}]
    /\ code \in [Clients -> {-1, 0, 2, 1}]
    /\ kills \in Nat

\* Whom client c connects to next, and what it sends: the lookup is a GET for
\* either operation.
Target(c) == IF cpc[c] = "start" THEN Master ELSE route[c]

Asks(c) ==
    IF cpc[c] = "start" THEN MkMsg("GET", op[c].key, Empty, c)
    ELSE MkMsg(op[c].type, op[c].key, IF op[c].type = "PUT" THEN op[c].value ELSE Empty, c)

Exit(c, n) ==
    /\ cpc' = [cpc EXCEPT ![c] = "done"]
    /\ code' = [code EXCEPT ![c] = n]

\* connect_socket and sendWrapper, to the master and then to the shard.
ClientSend(c) ==
    /\ cpc[c] \in {"start", "route"}
    /\ CanConnect(Target(c))
    /\ Send(Target(c), Asks(c))
    /\ cpc' = [cpc EXCEPT ![c] = IF cpc[c] = "start" THEN "lookup" ELSE "request"]
    /\ inbox' = [inbox EXCEPT ![c] = NoReply]
    /\ UNCHANGED <<op, route, code, kills, listening>>

ClientRefused(c) ==
    /\ cpc[c] \in {"start", "route"}
    /\ Refused(Target(c))
    /\ Exit(c, 1)
    /\ UNCHANGED <<op, route, kills, netVars>>

\* Killed between connect and send: the other side reads end of file.
ClientKilled(c) ==
    /\ cpc[c] \in {"start", "route"}
    /\ kills < MaxKills
    /\ CanConnect(Target(c))
    /\ Send(Target(c), MkMsg("EOF", 0, Empty, c))
    /\ cpc' = [cpc EXCEPT ![c] = "killed"]
    /\ kills' = kills + 1
    /\ UNCHANGED <<op, route, code, listening, inbox>>

ClientRouted(c) ==
    /\ cpc[c] = "lookup"
    /\ inbox[c].kind = "port"
    /\ route' = [route EXCEPT ![c] = inbox[c].port]
    /\ cpc' = [cpc EXCEPT ![c] = "route"]
    /\ UNCHANGED <<op, code, kills, netVars>>

ClientAnswered(c) ==
    /\ cpc[c] = "request"
    /\ inbox[c].kind = "data"
    /\ Exit(c, IF inbox[c].status THEN 0 ELSE 2)
    /\ UNCHANGED <<op, route, kills, netVars>>

\* The connection ended without an answer: status 2 for either operation.
ClientCutOff(c) ==
    /\ cpc[c] \in {"lookup", "request"}
    /\ inbox[c].kind = "eof"
    /\ Exit(c, 2)
    /\ UNCHANGED <<op, route, kills, netVars>>

ClientStep(c) ==
    ClientSend(c) \/ ClientRefused(c) \/ ClientRouted(c) \/ ClientAnswered(c) \/ ClientCutOff(c)

ClientNext == \E c \in Clients : ClientStep(c) \/ ClientKilled(c)
=============================================================================
