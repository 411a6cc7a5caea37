---------------------------- MODULE ShardServer -----------------------------
(***************************************************************************)
(* task2/source/server.cpp: a shard.  It registers with the master, only   *)
(* then opens its own listening socket, and serves one connection at a     *)
(* time.  A PUT is answered before the master hears of it: connecting to   *)
(* the master, MASTER_PUT and keys.push_back are a second step.            *)
(* The database survives a crash, the vector of keys does not.             *)
(***************************************************************************)
EXTENDS ShardNet

CONSTANTS
    MaxStarts,  \* bound: how often each server may be started
    MaxCrashes  \* bound: no server is killed once this many have died

ASSUME ServerAssumption == MaxStarts \in Nat /\ MaxCrashes \in Nat

VARIABLES
    spc,      \* "down", "joined" (not yet listening), "loop" or "notify"
    db,       \* the RocksDB database, None where it has no entry
    keys,     \* the keys REORG will delete (a vector, of which only the set matters)
    note,     \* the PUT that "notify" reports to the master
    starts,   \* how often each server was started
    crashes   \* how many server processes died, killed or by exit(1)

serverVars == <<spc, db, keys, note, starts, crashes>>

\* static_cast<char>(key) on x86
CharOf(k) == ((k + 128) % 256) - 128

\* db->Get on std::to_string(static_cast<char>(key))
Lookup(s, k) == IF CharOf(k) \in KeyFields THEN db[s][CharOf(k)] ELSE None

NoNote == MkMsg("PUT", 0, Empty, Master)

ServerTypeOK ==
    /\ spc \in [Servers -> {"down", "joined", "loop", "notify"}]
    /\ db \in [Servers -> [KeyFields -> Payload \cup {None}]]
    /\ keys \in [Servers -> SUBSET KeyFields]
    /\ note \in [Servers -> Msg]
    /\ starts \in [Servers -> Nat]
    /\ crashes \in Nat

\* The program starts, opens its database and registers with the master.
ServerJoin(s) ==
    /\ spc[s] = "down"
    /\ starts[s] < MaxStarts
    /\ CanConnect(Master)
    /\ Send(Master, MkMsg("SERVER", 0, Empty, s))
    /\ spc' = [spc EXCEPT ![s] = "joined"]
    /\ keys' = [keys EXCEPT ![s] = {}]
    /\ starts' = [starts EXCEPT ![s] = @ + 1]
    /\ UNCHANGED <<db, note, crashes, listening, inbox>>

\* exit(1): no master to register with, or it was not reached in time.
ServerJoinFails(s) ==
    /\ spc[s] = "down"
    /\ starts[s] < MaxStarts
    /\ Refused(Master)
    /\ starts' = [starts EXCEPT ![s] = @ + 1]
    /\ crashes' = crashes + 1
    /\ UNCHANGED <<spc, db, keys, note, netVars>>

ServerListen(s) ==
    /\ spc[s] = "joined"
    /\ spc' = [spc EXCEPT ![s] = "loop"]
    /\ listening' = [listening EXCEPT ![s] = TRUE]
    /\ UNCHANGED <<db, keys, note, starts, crashes, queue, inbox>>

\* Seeded bug: the vector of keys is not kept.
RememberNothing(s, k) == UNCHANGED keys

\* keys.push_back(key)
Remember(s, k) == keys' = [keys EXCEPT ![s] = @ \cup {k}]

ServerReceives(s, t) == spc[s] = "loop" /\ Accept(s, t)

ServerDrop(s) ==
    /\ ServerReceives(s, "EOF")
    /\ UNCHANGED <<serverVars, listening, inbox>>

\* Deletes what the vector names, not what the database holds.
ServerReorg(s) ==
    /\ ServerReceives(s, "REORG")
    /\ db' = [db EXCEPT ![s] = [k \in KeyFields |-> IF k \in keys[s] THEN None ELSE @[k]]]
    /\ keys' = [keys EXCEPT ![s] = {}]
    /\ UNCHANGED <<spc, note, starts, crashes, listening, inbox>>

\* Seeded bug: the value is dropped.
StoreNoValue(s) == db' = [db EXCEPT ![s][Request(s).key] = Empty]

\* Seeded bug: an entry is never overwritten.
StoreOnce(s) ==
    db' = [db EXCEPT ![s][Request(s).key] = IF @ = None THEN Request(s).value ELSE @]

\* db->Put
StoreRequest(s) == db' = [db EXCEPT ![s][Request(s).key] = Request(s).value]

ServerReorgPut(s) ==
    /\ ServerReceives(s, "REORG_PUT")
    /\ StoreRequest(s)
    /\ Remember(s, Request(s).key)
    /\ UNCHANGED <<spc, note, starts, crashes, listening, inbox>>

\* The client has its answer before the master and the vector know the key.
ServerPut(s) ==
    /\ ServerReceives(s, "PUT")
    /\ StoreRequest(s)
    /\ Respond(Request(s).from, PutReply(TRUE))
    /\ note' = [note EXCEPT ![s] = Request(s)]
    /\ spc' = [spc EXCEPT ![s] = "notify"]
    /\ UNCHANGED <<keys, starts, crashes, listening>>

\* Seeded bug: the report to the master has no key.
ReportNoKey(s) == MkMsg("MASTER_PUT", 0, note[s].value, s)

\* The client's request, sent on to the master with its type replaced.
Report(s) == MkMsg("MASTER_PUT", note[s].key, note[s].value, s)

ServerNotify(s) ==
    /\ spc[s] = "notify"
    /\ CanConnect(Master)
    /\ Send(Master, Report(s))
    /\ Remember(s, note[s].key)
    /\ spc' = [spc EXCEPT ![s] = "loop"]
    /\ UNCHANGED <<db, note, starts, crashes, listening, inbox>>

ServerGet(s) ==
    /\ ServerReceives(s, "GET")
    /\ Respond(Request(s).from, GetReply(Lookup(s, Request(s).key)))
    /\ UNCHANGED <<serverVars, listening>>

ServerStops(s) ==
    /\ spc' = [spc EXCEPT ![s] = "down"]
    /\ Vanish(s)
    /\ UNCHANGED <<db, keys, note, starts>>

\* exit(1): the master cannot be told of a PUT that was already answered.
ServerNotifyFails(s) ==
    /\ spc[s] = "notify"
    /\ Refused(Master)
    /\ crashes' = crashes + 1
    /\ ServerStops(s)

\* The process is killed between two of its steps.
ServerCrash(s) ==
    /\ spc[s] # "down"
    /\ crashes < MaxCrashes
    /\ crashes' = crashes + 1
    /\ ServerStops(s)

\* Killed after the database took a PUT and before its answer is sent.
ServerCrashInPut(s) ==
    /\ spc[s] = "loop"
    /\ crashes < MaxCrashes
    /\ queue[s] # <<>>
    /\ Request(s).type = "PUT"
    /\ StoreRequest(s)
    /\ crashes' = crashes + 1
    /\ spc' = [spc EXCEPT ![s] = "down"]
    /\ Vanish(s)
    /\ UNCHANGED <<keys, note, starts>>

ServerStep(s) ==
    \/ ServerListen(s) \/ ServerDrop(s) \/ ServerReorg(s) \/ ServerReorgPut(s)
    \/ ServerPut(s) \/ ServerNotify(s) \/ ServerNotifyFails(s) \/ ServerGet(s)

ServerNext ==
    \E s \in Servers :
        \/ ServerStep(s) \/ ServerJoin(s) \/ ServerJoinFails(s)
        \/ ServerCrash(s) \/ ServerCrashInPut(s)
=============================================================================
