------------------------------- MODULE KvStore -------------------------------
(* The map of kv_store.h with its transactions: the map itself, the write     *)
(* buffers of the transactions, the keys they have read, and one mutex for    *)
(* each of the three.  A thread runs one transaction at a time, under its own *)
(* name.  A call that needs one mutex is one step; a call that needs more is  *)
(* one step for each acquisition.                                             *)
EXTENDS Naturals, FiniteSets

CONSTANTS
  Txs,        \* the transactions, each run by a thread of its own
  Keys,
  None,       \* no value, nobody
  MaxCalls    \* bound of the model: calls that a thread makes

ASSUME KvAssumption == None \notin Txs /\ MaxCalls \in [Txs -> Nat]

VARIABLES
  kv_store,     \* the map, from keys to the transaction that wrote the value
  live_txs,     \* transactions between tx_start and their commit or abort
  tx_buf,       \* what each has written so far
  locked_keys,  \* what each has read
  holder,       \* who holds db_mtx, txs_mtx and gets_mtx
  pc,           \* where a thread is in its call
  get_key,      \* the key of its tx_get
  updates,      \* the keys that its commit still has to write
  calls,        \* the calls it has made
  alive,        \* FALSE once the process has dereferenced end()
  committed     \* history: the map after the last put or commit

kvVars == <<kv_store, live_txs, tx_buf, locked_keys, holder, pc, get_key,
            updates, calls, alive, committed>>

Mutexes == {"db", "txs", "gets"}
Values == Txs \cup {None}
NoWrites == [k \in Keys |-> None]

KvTypeOK ==
  /\ kv_store \in [Keys -> Values]
  /\ committed \in [Keys -> Values]
  /\ live_txs \subseteq Txs
  /\ tx_buf \in [Txs -> [Keys -> Values]]
  /\ locked_keys \in [Txs -> SUBSET Keys]
  /\ holder \in [Mutexes -> Values]
  /\ pc \in [Txs -> {"idle", "safe_get", "push_key", "commit_db", "commit_put", "commit_keys",
                      "abort_txs"}]
  /\ get_key \in [Txs -> Keys \cup {None}]
  /\ updates \in [Txs -> SUBSET Keys]
  /\ calls \in [Txs -> Nat] /\ \A t \in Txs : calls[t] <= MaxCalls[t]
  /\ alive \in BOOLEAN

KvInit ==
  /\ kv_store = NoWrites
  /\ committed = NoWrites
  /\ live_txs = {}
  /\ tx_buf = [t \in Txs |-> NoWrites]
  /\ locked_keys = [t \in Txs |-> {}]
  /\ holder = [m \in Mutexes |-> None]
  /\ pc = [t \in Txs |-> "idle"]
  /\ get_key = [t \in Txs |-> None]
  /\ updates = [t \in Txs |-> {}]
  /\ calls = [t \in Txs |-> 0]
  /\ alive = TRUE

------------------------------------------------------------------------------
Free(m) == holder[m] = None

\* Seeded bug: tx_get gives up gets_mtx before it calls safe_get.
LockNotGets(m, t) == IF m = "gets" THEN holder ELSE [holder EXCEPT ![m] = t]

\* Seeded bug: tx_commit writes without db_mtx.
LockNotDb(m, t) == IF m = "db" THEN holder ELSE [holder EXCEPT ![m] = t]

Lock(m, t) == [holder EXCEPT ![m] = t]

\* Seeded bug: db_mtx is locked by hand and not unlocked.
ReleaseNotDb(t) == [m \in Mutexes |-> IF m # "db" /\ holder[m] = t THEN None ELSE holder[m]]

\* The lock guards of a call release what it holds when it returns.
Release(t) == [m \in Mutexes |-> IF holder[m] = t THEN None ELSE holder[m]]

\* The map with the writes of a buffer over it.
Overwrite(map, buf) == [k \in Keys |-> IF buf[k] # None THEN buf[k] ELSE map[k]]

Written(buf) == {k \in Keys : buf[k] # None}

\* A thread begins a call.
Call(t) ==
  /\ alive
  /\ pc[t] = "idle"
  /\ calls[t] < MaxCalls[t]
  /\ calls' = [calls EXCEPT ![t] = @ + 1]

------------------------------------------------------------------------------
\* put, under db_mtx.
Put(t, k) ==
  /\ Call(t)
  /\ Free("db")
  /\ kv_store' = [kv_store EXCEPT ![k] = t]
  /\ committed' = [committed EXCEPT ![k] = t]
  /\ UNCHANGED <<live_txs, tx_buf, locked_keys, holder, pc, get_key, updates, alive>>

\* tx_start, under txs_mtx: false when the transaction is live already.
TxStart(t) ==
  /\ Call(t)
  /\ Free("txs")
  /\ t \notin live_txs
  /\ live_txs' = live_txs \cup {t}
  /\ UNCHANGED <<kv_store, tx_buf, locked_keys, holder, pc, get_key, updates, alive, committed>>

\* tx_put, under txs_mtx: false when the transaction is not live.
TxPut(t, k) ==
  /\ Call(t)
  /\ Free("txs")
  /\ t \in live_txs
  /\ tx_buf' = [tx_buf EXCEPT ![t][k] = t]
  /\ UNCHANGED <<kv_store, live_txs, locked_keys, holder, pc, get_key, updates, alive, committed>>

\* Another transaction has read the key and holds on to it.
ReadElsewhere(t, k) == \E u \in Txs \ {t} : k \in locked_keys[u]

\* tx_get takes gets_mtx; a key read elsewhere is refused at once.
TxGet(t, k) ==
  /\ Call(t)
  /\ Free("gets")
  /\ ~ReadElsewhere(t, k)
  /\ holder' = Lock("gets", t)
  /\ pc' = [pc EXCEPT ![t] = "safe_get"]
  /\ get_key' = [get_key EXCEPT ![t] = k]
  /\ UNCHANGED <<kv_store, live_txs, tx_buf, locked_keys, updates, alive, committed>>

\* safe_get, under db_mtx as well, which it gives up when it returns.
SafeGet(t) ==
  /\ alive
  /\ pc[t] = "safe_get"
  /\ Free("db")
  /\ kv_store[get_key[t]] # None
  /\ pc' = [pc EXCEPT ![t] = "push_key"]
  /\ UNCHANGED <<kv_store, live_txs, tx_buf, locked_keys, holder, get_key, updates, calls, alive,
                 committed>>

\* tx_get copies the string that the view refers to, remembers the key and
\* returns.  Without db_mtx, the string may be overwritten under the copy: the
\* value that tx_get answers is any, and no state of the map depends on it.
PushKey(t) ==
  /\ alive
  /\ pc[t] = "push_key"
  /\ locked_keys' = [locked_keys EXCEPT ![t] = @ \cup {get_key[t]}]
  /\ holder' = Release(t)
  /\ pc' = [pc EXCEPT ![t] = "idle"]
  /\ get_key' = [get_key EXCEPT ![t] = None]
  /\ UNCHANGED <<kv_store, live_txs, tx_buf, updates, calls, alive, committed>>

\* safe_get dereferences end() for a key that was never put.
SafeGetMissing(t) ==
  /\ alive
  /\ pc[t] = "safe_get"
  /\ Free("db")
  /\ kv_store[get_key[t]] = None
  /\ alive' = FALSE
  /\ UNCHANGED <<kv_store, live_txs, tx_buf, locked_keys, holder, pc, get_key, updates, calls,
                 committed>>

\* tx_commit takes txs_mtx.
TxCommit(t) ==
  /\ Call(t)
  /\ Free("txs")
  /\ holder' = Lock("txs", t)
  /\ pc' = [pc EXCEPT ![t] = "commit_db"]
  /\ UNCHANGED <<kv_store, live_txs, tx_buf, locked_keys, get_key, updates, alive, committed>>

\* It takes db_mtx and copies the buffer.
CommitLock(t) ==
  /\ alive
  /\ pc[t] = "commit_db"
  /\ Free("db")
  /\ holder' = Lock("db", t)
  /\ updates' = [updates EXCEPT ![t] = Written(tx_buf[t])]
  /\ committed' = Overwrite(committed, tx_buf[t])
  /\ pc' = [pc EXCEPT ![t] = "commit_put"]
  /\ UNCHANGED <<kv_store, live_txs, tx_buf, locked_keys, get_key, calls, alive>>

\* unsafe_put of one update.
CommitPut(t, k) ==
  /\ alive
  /\ pc[t] = "commit_put"
  /\ k \in updates[t]
  /\ kv_store' = [kv_store EXCEPT ![k] = tx_buf[t][k]]
  /\ updates' = [updates EXCEPT ![t] = @ \ {k}]
  /\ UNCHANGED <<live_txs, tx_buf, locked_keys, holder, pc, get_key, calls, alive, committed>>

\* Seeded bug: the transaction is erased with the keys it has read, not before.
CommitEraseLate(t) ==
  /\ alive
  /\ pc[t] = "commit_put"
  /\ updates[t] = {}
  /\ pc' = [pc EXCEPT ![t] = "commit_keys"]
  /\ UNCHANGED <<kv_store, live_txs, tx_buf, locked_keys, holder, get_key, updates, calls, alive,
                 committed>>

\* The loop is over: the transaction is erased.
CommitErase(t) ==
  /\ alive
  /\ pc[t] = "commit_put"
  /\ updates[t] = {}
  /\ live_txs' = live_txs \ {t}
  /\ tx_buf' = [tx_buf EXCEPT ![t] = NoWrites]
  /\ pc' = [pc EXCEPT ![t] = "commit_keys"]
  /\ UNCHANGED <<kv_store, locked_keys, holder, get_key, updates, calls, alive, committed>>

\* Last, under gets_mtx as well, its read keys are released, and all mutexes.
CommitUnlock(t) ==
  /\ alive
  /\ pc[t] = "commit_keys"
  /\ Free("gets")
  /\ locked_keys' = [locked_keys EXCEPT ![t] = {}]
  /\ holder' = Release(t)
  /\ pc' = [pc EXCEPT ![t] = "idle"]
  /\ UNCHANGED <<kv_store, live_txs, tx_buf, get_key, updates, calls, alive, committed>>

\* tx_abort releases the read keys under gets_mtx ...
TxAbort(t) ==
  /\ Call(t)
  /\ Free("gets")
  /\ holder' = Lock("gets", t)
  /\ locked_keys' = [locked_keys EXCEPT ![t] = {}]
  /\ pc' = [pc EXCEPT ![t] = "abort_txs"]
  /\ UNCHANGED <<kv_store, live_txs, tx_buf, get_key, updates, alive, committed>>

\* ... and drops the buffer under txs_mtx as well.
AbortErase(t) ==
  /\ alive
  /\ pc[t] = "abort_txs"
  /\ Free("txs")
  /\ live_txs' = live_txs \ {t}
  /\ tx_buf' = [tx_buf EXCEPT ![t] = NoWrites]
  /\ holder' = Release(t)
  /\ pc' = [pc EXCEPT ![t] = "idle"]
  /\ UNCHANGED <<kv_store, locked_keys, get_key, updates, calls, alive, committed>>

\* The steps of a call after its first acquisition.
Continue(t) ==
  \/ SafeGet(t) \/ SafeGetMissing(t) \/ PushKey(t)
  \/ CommitLock(t) \/ CommitErase(t) \/ CommitUnlock(t)
  \/ \E k \in Keys : CommitPut(t, k)
  \/ AbortErase(t)

Begin(t) ==
  \/ TxStart(t) \/ TxCommit(t) \/ TxAbort(t)
  \/ \E k \in Keys : Put(t, k) \/ TxPut(t, k) \/ TxGet(t, k)

KvNext == \E t \in Txs : Begin(t) \/ Continue(t)

KvSpec == KvInit /\ [][KvNext]_kvVars /\ \A t \in Txs : WF_kvVars(Continue(t))

------------------------------------------------------------------------------
(* A key is read-locked by one transaction at a time: tx_get holds gets_mtx   *)
(* from its check to its push_back, across the acquisition of db_mtx.         *)
ReadLocksExclusive ==
  \A t, u \in Txs : t # u => locked_keys[t] \cap locked_keys[u] = {}

(* Whoever can take db_mtx finds all of a commit in the map or nothing of it, *)
(* and nothing of a transaction that aborted or is still running.             *)
NoPartialCommit == Free("db") => kv_store = committed

\* The mutex that a call in progress needs next.
Needs(t) ==
  CASE pc[t] \in {"safe_get", "commit_db"} -> {"db"}
    [] pc[t] = "commit_keys" -> {"gets"}
    [] pc[t] = "abort_txs" -> {"txs"}
    [] OTHER -> {}

WaitsFor(t, u) == \E m \in Needs(t) : holder[m] = u

\* Some threads wait for each other in a circle.
Deadlocked ==
  \E S \in (SUBSET Txs) \ {{}} : \A t \in S : \E u \in S : WaitsFor(t, u)

(* The mutexes are taken in the orders txs-db-gets, gets-db and gets-txs.     *)
(* Threads can block each other for ever, and when they do a commit is among  *)
(* them, at the very end, with its updates in the map.                        *)
DeadlockNeedsCommit ==
  Deadlocked => \E t \in Txs : pc[t] = "commit_keys" /\ t \notin live_txs

(* A call that has begun returns, unless threads are deadlocked or tx_get has *)
(* ended the process.                                                         *)
CallsReturn ==
  \A t \in Txs : pc[t] # "idle" ~> (pc[t] = "idle" \/ Deadlocked \/ ~alive)

==============================================================================
