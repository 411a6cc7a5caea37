----------------------------- MODULE ReplClient -----------------------------
(***************************************************************************)
(* task3/source/client.cpp: a client sends its one request to the server   *)
(* it is pointed at and exits with the status of the answer.               *)
(***************************************************************************)
EXTENDS ReplNet

CONSTANT MaxKills  \* bound: how many clients are killed while connecting

ASSUME ClientAssumption == MaxKills \in Nat

VARIABLES
    cpc,   \* "start", "waiting", "done", "stuck", "aborted" or "killed"
    code,  \* the exit status, -1 until the client exits
    kills

clientVars == <<cpc, code, kills>>

ClientTypeOK ==
    /\ cpc \in [Clients -> {"start", "waiting", "done", "stuck", "aborted", "killed"}]
    /\ code \in [Clients -> {-1, 0, 3}]
    /\ kills \in Nat

CanCall(c) == open[op[c].node] /\ Len(clientQ[op[c].node]) < Slots

Call(c, t) == clientQ' = [clientQ EXCEPT ![op[c].node] = Append(@, [type |-> t, from |-> c])]

ClientCalls(c) ==
    /\ cpc[c] = "start" /\ CanCall(c)
    /\ Call(c, op[c].type)
    /\ inbox' = [inbox EXCEPT ![c] = Waiting]
    /\ cpc' = [cpc EXCEPT ![c] = "waiting"]
    /\ UNCHANGED <<op, up, open, peerQ, code, kills>>

\* connect() fails where nobody listens, or after its timeout on a full queue.
\* That is not noticed: secure_recv(-1) never returns.
ClientRefused(c) ==
    /\ cpc[c] = "start" /\ ~CanCall(c)
    /\ cpc' = [cpc EXCEPT ![c] = "stuck"]
    /\ UNCHANGED <<netVars, code, kills>>

\* Killed between connect and send.
ClientKilled(c) ==
    /\ cpc[c] = "start" /\ CanCall(c) /\ kills < MaxKills
    /\ Call(c, "EOF")
    /\ cpc' = [cpc EXCEPT ![c] = "killed"]
    /\ kills' = kills + 1
    /\ UNCHANGED <<op, up, open, peerQ, inbox, code>>

ClientExits(c) ==
    /\ cpc[c] = "waiting" /\ inbox[c].kind = "reply"
    /\ cpc' = [cpc EXCEPT ![c] = "done"]
    /\ code' = [code EXCEPT ![c] = IF inbox[c].status = "NO_KEY" THEN 3 ELSE 0]
    /\ UNCHANGED <<netVars, kills>>

\* ParseFromString(nullptr) throws where the server closed without an answer.
ClientAborts(c) ==
    /\ cpc[c] = "waiting" /\ inbox[c].kind = "eof"
    /\ cpc' = [cpc EXCEPT ![c] = "aborted"]
    /\ UNCHANGED <<netVars, code, kills>>

ClientStep(c) == ClientCalls(c) \/ ClientRefused(c) \/ ClientExits(c) \/ ClientAborts(c)

ClientNext == \E c \in Clients : ClientStep(c) \/ ClientKilled(c)
=============================================================================
