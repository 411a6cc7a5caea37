------------------------------ MODULE AtomicKV ------------------------------
(***************************************************************************)
(* What a key-value store promises: each client's one operation takes      *)
(* effect at a single instant, on one map, before the client is answered.  *)
(* A client that is cut off is told nothing; its PUT may have been applied. *)
(***************************************************************************)
CONSTANTS Clients, Keys, None, Empty, Ops

VARIABLES
    op,      \* the operation of each client
    store,   \* the map
    phase,   \* "asked", "answered" or "failed"
    answer   \* what the client was told

vars == <<op, store, phase, answer>>

Silence == [found |-> FALSE, value |-> Empty]

Init ==
    /\ op \in [Clients -> Ops]
    /\ store = [k \in Keys |-> None]
    /\ phase = [c \in Clients |-> "asked"]
    /\ answer = [c \in Clients |-> Silence]

Write(c) == op[c].type = "PUT" /\ store' = [store EXCEPT ![op[c].key] = op[c].value]

Read(k) == IF store[k] = None THEN Silence ELSE [found |-> TRUE, value |-> store[k]]

Perform(c) ==
    /\ phase[c] = "asked"
    /\ phase' = [phase EXCEPT ![c] = "answered"]
    /\ \/ Write(c) /\ answer' = [answer EXCEPT ![c] = [found |-> TRUE, value |-> Empty]]
       \/ /\ op[c].type = "GET"
          /\ answer' = [answer EXCEPT ![c] = Read(op[c].key)]
          /\ UNCHANGED store
    /\ UNCHANGED op

CutOff(S) ==
    /\ S # {}
    /\ \A c \in S : phase[c] = "asked"
    /\ phase' = [c \in Clients |-> IF c \in S THEN "failed" ELSE phase[c]]
    /\ UNCHANGED store \/ \E c \in S : Write(c)
    /\ UNCHANGED <<op, answer>>

Next == (\E c \in Clients : Perform(c)) \/ (\E S \in SUBSET Clients : CutOff(S))

Spec == Init /\ [][Next]_vars
=============================================================================
