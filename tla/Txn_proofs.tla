----------------------------- MODULE Txn_proofs -----------------------------
(* Proofs about the transactional map, for any transactions, keys and number  *)
(* of calls (the mutexes, isolation of the read locks, atomicity of commits,  *)
(* what every deadlock looks like), and about the transaction graph, for any  *)
(* finite trace and any workers (dependencies come first, no transaction is   *)
(* applied twice, and the verifier lists where the workers end).              *)
EXTENDS KvStore, TxnResults, Induction_lemmas, SequenceTheorems, TLAPS

-----------------------------------------------------------------------------
(* The map with transactions *)

\* Which calls hold a mutex, at which of their steps.
HoldsDb == {"commit_put", "commit_keys"}
HoldsTxs == {"commit_db", "commit_put", "commit_keys"}
HoldsGets == {"safe_get", "push_key", "abort_txs"}
Reads == {"safe_get", "push_key"}

MutexInv ==
  \A t \in Txs :
    /\ holder["db"] = t <=> pc[t] \in HoldsDb
    /\ holder["txs"] = t <=> pc[t] \in HoldsTxs
    /\ holder["gets"] = t <=> pc[t] \in HoldsGets

\* A tx_get in progress has a key.
KeyKnown == \A t \in Txs : pc[t] \in Reads => get_key[t] \in Keys

TypeInv == KvTypeOK /\ KeyKnown

\* Between the check of tx_get and its push_back nobody else reads the key.
CheckedInv == \A t \in Txs : pc[t] \in Reads => ~ReadElsewhere(t, get_key[t])

\* How far the map is from the commit in progress.
CommitInv ==
  \A t \in Txs :
    /\ pc[t] = "commit_put" =>
         \A k \in Keys : committed[k] = IF k \in updates[t] THEN tx_buf[t][k] ELSE kv_store[k]
    /\ pc[t] = "commit_keys" => kv_store = committed /\ t \notin live_txs

KvInv ==
  TypeInv /\ MutexInv /\ CheckedInv /\ CommitInv /\ ReadLocksExclusive /\ NoPartialCommit

------------------------------------------------------------------------------
\* A step takes one mutex of a thread, or returns.
LEMMA LockHolder ==
  ASSUME KvTypeOK, NEW m \in Mutexes, NEW t \in Txs, holder' = Lock(m, t)
  PROVE  /\ holder'[m] = t
         /\ \A n \in Mutexes \ {m} : holder'[n] = holder[n]
         /\ holder' \in [Mutexes -> Values]
BY DEF Lock, KvTypeOK, Values

LEMMA ReleaseHolder ==
  ASSUME KvTypeOK, NEW t \in Txs, holder' = Release(t)
  PROVE  /\ \A n \in Mutexes : holder'[n] = IF holder[n] = t THEN None ELSE holder[n]
         /\ holder' \in [Mutexes -> Values]
BY DEF Release, KvTypeOK, Values

LEMMA MutexNames == "db" \in Mutexes /\ "txs" \in Mutexes /\ "gets" \in Mutexes
BY DEF Mutexes

LEMMA InitHolds == KvInit => KvInv
<1> SUFFICES ASSUME KvInit PROVE KvInv
  OBVIOUS
<1>1. TypeInv
  BY KvAssumption DEF KvInit, TypeInv, KeyKnown, Reads, KvTypeOK, NoWrites, Values, Mutexes
<1>2. MutexInv
  BY KvAssumption, MutexNames DEF KvInit, MutexInv, HoldsDb, HoldsTxs, HoldsGets
<1>3. CheckedInv /\ CommitInv
  BY DEF KvInit, CheckedInv, Reads, CommitInv
<1>4. ReadLocksExclusive /\ NoPartialCommit
  BY DEF KvInit, ReadLocksExclusive, NoPartialCommit
<1> QED
  BY <1>1, <1>2, <1>3, <1>4 DEF KvInv

\* A step of one thread leaves the types, with all that it assigns.
LEMMA TypeStep == TypeInv /\ [KvNext]_kvVars => KvTypeOK'
<1> SUFFICES ASSUME KvTypeOK, KeyKnown, [KvNext]_kvVars PROVE KvTypeOK'
  BY DEF TypeInv
<1>1. CASE UNCHANGED kvVars
  BY <1>1 DEF kvVars, KvTypeOK
<1>2. ASSUME NEW t \in Txs, Call(t)
      PROVE  calls' \in [Txs -> Nat] /\ \A u \in Txs : calls'[u] <= MaxCalls[u]
  <2>1. calls \in [Txs -> Nat] /\ MaxCalls \in [Txs -> Nat] /\ \A u \in Txs : calls[u] <= MaxCalls[u]
    BY KvAssumption DEF KvTypeOK, KvAssumption
  <2>2. calls' = [calls EXCEPT ![t] = calls[t] + 1] /\ calls[t] < MaxCalls[t]
    BY <1>2 DEF Call
  <2> QED
    BY <2>1, <2>2
<1>3. ASSUME NEW t \in Txs, NEW k \in Keys, Put(t, k) \/ TxPut(t, k) PROVE KvTypeOK'
  <2>1. CASE Put(t, k)
    BY <1>2, <2>1 DEF Put, KvTypeOK, Values
  <2>2. CASE TxPut(t, k)
    BY <1>2, <2>2 DEF TxPut, KvTypeOK, Values
  <2> QED
    BY <1>3, <2>1, <2>2
<1>4. ASSUME NEW t \in Txs, NEW k \in Keys, TxGet(t, k) PROVE KvTypeOK'
  BY <1>2, <1>4, LockHolder, MutexNames DEF TxGet, KvTypeOK
<1>5. ASSUME NEW t \in Txs, TxStart(t) PROVE KvTypeOK'
  BY <1>2, <1>5 DEF TxStart, KvTypeOK
<1>6. ASSUME NEW t \in Txs, TxCommit(t) \/ TxAbort(t) PROVE KvTypeOK'
  <2>1. CASE TxCommit(t)
    BY <1>2, <2>1, LockHolder, MutexNames DEF TxCommit, KvTypeOK
  <2>2. CASE TxAbort(t)
    BY <1>2, <2>2, LockHolder, MutexNames DEF TxAbort, KvTypeOK
  <2> QED
    BY <1>6, <2>1, <2>2
<1>7. ASSUME NEW t \in Txs, SafeGet(t) \/ SafeGetMissing(t) \/ PushKey(t) PROVE KvTypeOK'
  <2>1. CASE PushKey(t)
    <3>1. get_key[t] \in Keys
      BY <2>1 DEF PushKey, KeyKnown, Reads
    <3> QED
      BY <2>1, <3>1, ReleaseHolder DEF PushKey, KvTypeOK
  <2>2. CASE SafeGet(t)
    BY <2>2 DEF SafeGet, KvTypeOK
  <2>3. CASE SafeGetMissing(t)
    BY <2>3 DEF SafeGetMissing, KvTypeOK
  <2> QED
    BY <1>7, <2>1, <2>2, <2>3
<1>8. ASSUME NEW t \in Txs, CommitLock(t) PROVE KvTypeOK'
  BY <1>8, LockHolder, MutexNames DEF CommitLock, KvTypeOK, Overwrite, Written
<1>9. ASSUME NEW t \in Txs, NEW k \in Keys, CommitPut(t, k) PROVE KvTypeOK'
  BY <1>9 DEF CommitPut, KvTypeOK
<1>10. ASSUME NEW t \in Txs, CommitErase(t) PROVE KvTypeOK'
  BY <1>10 DEF CommitErase, KvTypeOK, NoWrites, Values
<1>11. ASSUME NEW t \in Txs, CommitUnlock(t) PROVE KvTypeOK'
  BY <1>11, ReleaseHolder DEF CommitUnlock, KvTypeOK
<1>12. ASSUME NEW t \in Txs, AbortErase(t) PROVE KvTypeOK'
  BY <1>12, ReleaseHolder DEF AbortErase, KvTypeOK, NoWrites, Values
<1> QED
  BY <1>1, <1>3, <1>4, <1>5, <1>6, <1>7, <1>8, <1>9, <1>10, <1>11, <1>12
     DEF KvNext, Begin, Continue

LEMMA KeyStep == TypeInv /\ [KvNext]_kvVars => KeyKnown'
<1> SUFFICES ASSUME KvTypeOK, KeyKnown, [KvNext]_kvVars, NEW u \in Txs, pc'[u] \in Reads
             PROVE  get_key'[u] \in Keys
  BY DEF TypeInv, KeyKnown
<1>1. CASE UNCHANGED kvVars
  BY <1>1 DEF kvVars, KeyKnown
<1>2. ASSUME NEW t \in Txs, NEW k \in Keys, Put(t, k) \/ TxPut(t, k) \/ CommitPut(t, k)
      PROVE  get_key'[u] \in Keys
  BY <1>2 DEF Put, TxPut, CommitPut, KeyKnown
<1>3. ASSUME NEW t \in Txs, NEW k \in Keys, TxGet(t, k) PROVE get_key'[u] \in Keys
  BY <1>3 DEF TxGet, KeyKnown, Reads, KvTypeOK
<1>4. ASSUME NEW t \in Txs, TxStart(t) \/ TxCommit(t) \/ TxAbort(t) PROVE get_key'[u] \in Keys
  BY <1>4 DEF TxStart, TxCommit, TxAbort, KeyKnown, Reads, KvTypeOK
<1>5. ASSUME NEW t \in Txs, SafeGet(t) \/ SafeGetMissing(t) \/ PushKey(t)
      PROVE  get_key'[u] \in Keys
  BY <1>5 DEF SafeGet, SafeGetMissing, PushKey, KeyKnown, Reads, KvTypeOK
<1>6. ASSUME NEW t \in Txs, CommitLock(t) \/ CommitErase(t) \/ CommitUnlock(t) \/ AbortErase(t)
      PROVE  get_key'[u] \in Keys
  BY <1>6 DEF CommitLock, CommitErase, CommitUnlock, AbortErase, KeyKnown, Reads, KvTypeOK
<1> QED
  BY <1>1, <1>2, <1>3, <1>4, <1>5, <1>6 DEF KvNext, Begin, Continue

\* Who holds which mutex is told by where the threads are.
LEMMA MutexStep == TypeInv /\ MutexInv /\ [KvNext]_kvVars => MutexInv'
<1> SUFFICES ASSUME KvTypeOK, MutexInv, [KvNext]_kvVars PROVE MutexInv'
  BY DEF TypeInv
<1>a. \A t \in Txs : t # None
  BY KvAssumption DEF KvAssumption
<1>1. CASE UNCHANGED kvVars
  BY <1>1 DEF kvVars, MutexInv
<1>2. ASSUME UNCHANGED <<holder, pc>> PROVE MutexInv'
  BY <1>2 DEF MutexInv
<1>3. ASSUME NEW t \in Txs, NEW k \in Keys, TxGet(t, k) PROVE MutexInv'
  <2>1. holder["gets"] = None /\ pc[t] = "idle" /\ holder' = Lock("gets", t)
        /\ pc' = [pc EXCEPT ![t] = "safe_get"]
    BY <1>3 DEF TxGet, Call, Free
  <2> QED
    BY <1>a, <2>1, LockHolder, MutexNames DEF MutexInv, KvTypeOK, HoldsDb, HoldsTxs, HoldsGets
<1>4. ASSUME NEW t \in Txs, TxCommit(t) PROVE MutexInv'
  <2>1. holder["txs"] = None /\ pc[t] = "idle" /\ holder' = Lock("txs", t)
        /\ pc' = [pc EXCEPT ![t] = "commit_db"]
    BY <1>4 DEF TxCommit, Call, Free
  <2> QED
    BY <1>a, <2>1, LockHolder, MutexNames DEF MutexInv, KvTypeOK, HoldsDb, HoldsTxs, HoldsGets
<1>5. ASSUME NEW t \in Txs, TxAbort(t) PROVE MutexInv'
  <2>1. holder["gets"] = None /\ pc[t] = "idle" /\ holder' = Lock("gets", t)
        /\ pc' = [pc EXCEPT ![t] = "abort_txs"]
    BY <1>5 DEF TxAbort, Call, Free
  <2> QED
    BY <1>a, <2>1, LockHolder, MutexNames DEF MutexInv, KvTypeOK, HoldsDb, HoldsTxs, HoldsGets
<1>6. ASSUME NEW t \in Txs, CommitLock(t) PROVE MutexInv'
  <2>1. holder["db"] = None /\ pc[t] = "commit_db" /\ holder' = Lock("db", t)
        /\ pc' = [pc EXCEPT ![t] = "commit_put"]
    BY <1>6 DEF CommitLock, Free
  <2> QED
    BY <1>a, <2>1, LockHolder, MutexNames DEF MutexInv, KvTypeOK, HoldsDb, HoldsTxs, HoldsGets
<1>7. ASSUME NEW t \in Txs, CommitErase(t) PROVE MutexInv'
  BY <1>7 DEF CommitErase, MutexInv, KvTypeOK, HoldsDb, HoldsTxs, HoldsGets
<1>8. ASSUME NEW t \in Txs, holder' = Release(t), pc' = [pc EXCEPT ![t] = "idle"]
      PROVE  MutexInv'
  BY <1>8, <1>a, ReleaseHolder, MutexNames DEF MutexInv, KvTypeOK, HoldsDb, HoldsTxs, HoldsGets
<1>9. ASSUME NEW t \in Txs, PushKey(t) \/ CommitUnlock(t) \/ AbortErase(t) PROVE MutexInv'
  BY <1>8, <1>9 DEF PushKey, CommitUnlock, AbortErase
<1>12. ASSUME NEW t \in Txs, SafeGet(t) PROVE MutexInv'
  BY <1>12 DEF SafeGet, MutexInv, KvTypeOK, HoldsDb, HoldsTxs, HoldsGets
<1>10. ASSUME NEW t \in Txs, NEW k \in Keys, Put(t, k) \/ TxPut(t, k) \/ CommitPut(t, k)
       PROVE  MutexInv'
  BY <1>2, <1>10 DEF Put, TxPut, CommitPut
<1>11. ASSUME NEW t \in Txs, TxStart(t) \/ SafeGetMissing(t) PROVE MutexInv'
  BY <1>2, <1>11 DEF TxStart, SafeGetMissing
<1> QED
  BY <1>1, <1>3, <1>4, <1>5, <1>6, <1>7, <1>9, <1>10, <1>11, <1>12 DEF KvNext, Begin, Continue

\* gets_mtx keeps the keys that a tx_get has checked, and the keys exclusive.
LEMMA ReadStep ==
  TypeInv /\ MutexInv /\ CheckedInv /\ ReadLocksExclusive /\ [KvNext]_kvVars
    => CheckedInv' /\ ReadLocksExclusive'
<1> SUFFICES ASSUME KvTypeOK, MutexInv, CheckedInv, ReadLocksExclusive, [KvNext]_kvVars
             PROVE  CheckedInv' /\ ReadLocksExclusive'
  BY DEF TypeInv
<1>a. \A t \in Txs : t # None
  BY KvAssumption DEF KvAssumption
<1>1. CASE UNCHANGED kvVars
  BY <1>1 DEF kvVars, CheckedInv, ReadLocksExclusive, ReadElsewhere
\* A step that gives up read locks, or none, and starts no tx_get.
<1>2. ASSUME \A u \in Txs : locked_keys'[u] \subseteq locked_keys[u],
             \A u \in Txs : pc'[u] \in Reads => pc[u] \in Reads /\ get_key'[u] = get_key[u]
      PROVE  CheckedInv' /\ ReadLocksExclusive'
  BY <1>2 DEF CheckedInv, ReadLocksExclusive, ReadElsewhere
<1>3. ASSUME NEW t \in Txs, NEW k \in Keys, TxGet(t, k) PROVE CheckedInv' /\ ReadLocksExclusive'
  <2>1. /\ ~ReadElsewhere(t, k) /\ locked_keys' = locked_keys
        /\ pc' = [pc EXCEPT ![t] = "safe_get"] /\ get_key' = [get_key EXCEPT ![t] = k]
    BY <1>3 DEF TxGet
  <2> QED
    BY <2>1 DEF CheckedInv, ReadLocksExclusive, ReadElsewhere, Reads, KvTypeOK
<1>4. ASSUME NEW t \in Txs, PushKey(t) PROVE CheckedInv' /\ ReadLocksExclusive'
  <2>1. /\ pc[t] = "push_key" /\ pc' = [pc EXCEPT ![t] = "idle"]
        /\ get_key' = [get_key EXCEPT ![t] = None]
        /\ locked_keys' = [locked_keys EXCEPT ![t] = @ \cup {get_key[t]}]
    BY <1>4 DEF PushKey
  <2>2. \A u \in Txs : u # t => pc'[u] \notin Reads
    BY <2>1 DEF MutexInv, HoldsGets, Reads, KvTypeOK
  <2>3. CheckedInv'
    BY <2>1, <2>2 DEF CheckedInv, Reads, KvTypeOK
  <2>4. \A u \in Txs \ {t} : get_key[t] \notin locked_keys[u]
    BY <2>1 DEF CheckedInv, Reads, ReadElsewhere
  <2>5. ReadLocksExclusive'
    BY <2>1, <2>4 DEF ReadLocksExclusive, KvTypeOK
  <2> QED
    BY <2>3, <2>5
<1>5. ASSUME NEW t \in Txs, NEW k \in Keys, Put(t, k) \/ TxPut(t, k) \/ CommitPut(t, k)
      PROVE  CheckedInv' /\ ReadLocksExclusive'
  BY <1>2, <1>5 DEF Put, TxPut, CommitPut
<1>6. ASSUME NEW t \in Txs, TxStart(t) \/ SafeGetMissing(t) PROVE CheckedInv' /\ ReadLocksExclusive'
  BY <1>2, <1>6 DEF TxStart, SafeGetMissing
<1>7. ASSUME NEW t \in Txs, TxCommit(t) \/ CommitLock(t) \/ CommitErase(t) \/ AbortErase(t)
      PROVE  CheckedInv' /\ ReadLocksExclusive'
  BY <1>2, <1>7 DEF TxCommit, CommitLock, CommitErase, AbortErase, Reads, KvTypeOK
<1>8. ASSUME NEW t \in Txs, TxAbort(t) \/ CommitUnlock(t) PROVE CheckedInv' /\ ReadLocksExclusive'
  BY <1>2, <1>8 DEF TxAbort, CommitUnlock, Reads, KvTypeOK
<1>9. ASSUME NEW t \in Txs, SafeGet(t) PROVE CheckedInv' /\ ReadLocksExclusive'
  BY <1>2, <1>9 DEF SafeGet, Reads, KvTypeOK
<1> QED
  BY <1>1, <1>3, <1>4, <1>5, <1>6, <1>7, <1>8, <1>9 DEF KvNext, Begin, Continue

\* The buffer of a commit moves into the map while db_mtx is held.
LEMMA CommitStep ==
  KvInv /\ [KvNext]_kvVars => CommitInv' /\ NoPartialCommit'
<1> SUFFICES ASSUME KvTypeOK, KeyKnown, MutexInv, CommitInv, NoPartialCommit, MutexInv',
                    [KvNext]_kvVars
             PROVE  CommitInv' /\ NoPartialCommit'
  BY MutexStep DEF KvInv, TypeInv
<1>a. \A t \in Txs : t # None
  BY KvAssumption DEF KvAssumption
\* One thread is in the writing part of a commit, and it holds db_mtx.
<1>b. \A t, u \in Txs : pc[t] \in HoldsDb /\ pc[u] \in HoldsDb => t = u
  BY DEF MutexInv
<1>1. CASE UNCHANGED kvVars
  BY <1>1 DEF kvVars, CommitInv, NoPartialCommit, Free
\* A step that leaves the maps and the commits in progress.
<1>2. ASSUME UNCHANGED <<kv_store, committed>>,
             \A u \in Txs : pc'[u] \in HoldsDb => pc[u] = pc'[u] /\ updates'[u] = updates[u],
             \A u \in Txs : pc'[u] = "commit_put" => tx_buf'[u] = tx_buf[u],
             \A u \in Txs : pc'[u] = "commit_keys" => (u \in live_txs' => u \in live_txs),
             Free("db")' => Free("db") \/ kv_store = committed
      PROVE  CommitInv' /\ NoPartialCommit'
  BY <1>2 DEF CommitInv, NoPartialCommit, HoldsDb
<1>3. ASSUME NEW t \in Txs, NEW k \in Keys, Put(t, k) PROVE CommitInv' /\ NoPartialCommit'
  <2>1. /\ Free("db") /\ kv_store' = [kv_store EXCEPT ![k] = t]
        /\ committed' = [committed EXCEPT ![k] = t] /\ UNCHANGED <<pc, holder>>
    BY <1>3 DEF Put
  <2>2. \A u \in Txs : pc'[u] \notin HoldsDb
    BY <1>a, <2>1 DEF MutexInv, Free
  <2>3. kv_store' = committed'
    BY <2>1 DEF NoPartialCommit
  <2> QED
    BY <2>2, <2>3 DEF CommitInv, NoPartialCommit, HoldsDb
<1>4. ASSUME NEW t \in Txs, NEW k \in Keys, CommitPut(t, k) PROVE CommitInv' /\ NoPartialCommit'
  <2>1. /\ pc[t] = "commit_put" /\ k \in updates[t]
        /\ kv_store' = [kv_store EXCEPT ![k] = tx_buf[t][k]]
        /\ updates' = [updates EXCEPT ![t] = updates[t] \ {k}]
        /\ UNCHANGED <<live_txs, tx_buf, holder, pc, committed>>
    BY <1>4 DEF CommitPut
  <2>2. \A j \in Keys : committed[j] = IF j \in updates[t] THEN tx_buf[t][j] ELSE kv_store[j]
    BY <2>1 DEF CommitInv
  <2>3. updates'[t] = updates[t] \ {k} /\ kv_store'[k] = tx_buf[t][k]
        /\ \A j \in Keys : j # k => kv_store'[j] = kv_store[j]
    BY <2>1 DEF KvTypeOK
  <2>4. \A j \in Keys : committed'[j] = IF j \in updates'[t] THEN tx_buf'[t][j] ELSE kv_store'[j]
    BY <2>1, <2>2, <2>3
  <2>5. \A u \in Txs : pc'[u] \in HoldsDb => u = t /\ pc'[u] = "commit_put"
    BY <1>b, <2>1 DEF HoldsDb
  <2>6. CommitInv'
    BY <2>4, <2>5 DEF CommitInv, HoldsDb
  <2>7. ~Free("db")'
    BY <1>a, <2>1 DEF Free, MutexInv, HoldsDb
  <2> QED
    BY <2>6, <2>7 DEF NoPartialCommit
<1>5. ASSUME NEW t \in Txs, CommitLock(t) PROVE CommitInv' /\ NoPartialCommit'
  <2>1. /\ Free("db") /\ pc[t] = "commit_db" /\ pc' = [pc EXCEPT ![t] = "commit_put"]
        /\ holder' = Lock("db", t) /\ updates' = [updates EXCEPT ![t] = Written(tx_buf[t])]
        /\ committed' = Overwrite(committed, tx_buf[t]) /\ UNCHANGED <<kv_store, tx_buf>>
    BY <1>5 DEF CommitLock
  <2>2. pc'[t] = "commit_put" /\ \A u \in Txs : u # t => pc'[u] \notin HoldsDb
    BY <1>a, <2>1 DEF MutexInv, Free, KvTypeOK
  <2>3. kv_store = committed /\ updates'[t] = Written(tx_buf[t])
    BY <2>1 DEF NoPartialCommit, KvTypeOK
  <2>4. \A k \in Keys : committed'[k] = IF k \in updates'[t] THEN tx_buf'[t][k] ELSE kv_store'[k]
    BY <2>1, <2>3 DEF Overwrite, Written
  <2>5. CommitInv'
    BY <2>2, <2>4 DEF CommitInv, HoldsDb
  <2>6. ~Free("db")'
    BY <1>a, <2>2 DEF Free, MutexInv, HoldsDb
  <2> QED
    BY <2>5, <2>6 DEF NoPartialCommit
<1>6. ASSUME NEW t \in Txs, CommitErase(t) PROVE CommitInv' /\ NoPartialCommit'
  <2>1. /\ pc[t] = "commit_put" /\ updates[t] = {} /\ pc' = [pc EXCEPT ![t] = "commit_keys"]
        /\ live_txs' = live_txs \ {t} /\ UNCHANGED <<kv_store, committed>>
    BY <1>6 DEF CommitErase
  <2>2. kv_store = committed
    BY <2>1 DEF CommitInv, KvTypeOK
  <2>3. \A u \in Txs : pc'[u] \in HoldsDb => u = t
    BY <1>b, <2>1 DEF HoldsDb, KvTypeOK
  <2>4. pc'[t] = "commit_keys" /\ t \notin live_txs'
    BY <2>1 DEF KvTypeOK
  <2> QED
    BY <2>1, <2>2, <2>3, <2>4 DEF CommitInv, NoPartialCommit, HoldsDb
<1>7. ASSUME NEW t \in Txs, CommitUnlock(t) PROVE CommitInv' /\ NoPartialCommit'
  <2>1. /\ pc[t] = "commit_keys" /\ pc' = [pc EXCEPT ![t] = "idle"]
        /\ UNCHANGED <<kv_store, committed>>
    BY <1>7 DEF CommitUnlock
  <2>2. kv_store = committed
    BY <2>1 DEF CommitInv
  <2>3. \A u \in Txs : pc'[u] \notin HoldsDb
    BY <1>b, <2>1 DEF HoldsDb, KvTypeOK
  <2> QED
    BY <2>1, <2>2, <2>3 DEF CommitInv, NoPartialCommit, HoldsDb
<1>8. ASSUME NEW t \in Txs, NEW k \in Keys, TxPut(t, k) PROVE CommitInv' /\ NoPartialCommit'
  <2>1. /\ pc[t] = "idle" /\ tx_buf' = [tx_buf EXCEPT ![t] = [@ EXCEPT ![k] = t]]
        /\ UNCHANGED <<kv_store, committed, live_txs, holder, pc, updates>>
    BY <1>8 DEF TxPut, Call
  <2>2. \A u \in Txs : pc'[u] = "commit_put" => tx_buf'[u] = tx_buf[u]
    BY <2>1 DEF KvTypeOK
  <2> QED
    BY <1>2, <2>1, <2>2 DEF Free
<1>9. ASSUME NEW t \in Txs, NEW k \in Keys, TxGet(t, k) PROVE CommitInv' /\ NoPartialCommit'
  <2>1. /\ pc' = [pc EXCEPT ![t] = "safe_get"] /\ holder' = Lock("gets", t)
        /\ UNCHANGED <<kv_store, committed, live_txs, tx_buf, updates>>
    BY <1>9 DEF TxGet
  <2>2. holder'["db"] = holder["db"]
    BY <2>1, LockHolder, MutexNames
  <2> QED
    BY <1>2, <2>1, <2>2 DEF Free, HoldsDb, KvTypeOK
<1>10. ASSUME NEW t \in Txs, TxStart(t) PROVE CommitInv' /\ NoPartialCommit'
  <2>1. /\ pc[t] = "idle" /\ live_txs' = live_txs \cup {t}
        /\ UNCHANGED <<kv_store, committed, tx_buf, holder, pc, updates>>
    BY <1>10 DEF TxStart, Call
  <2> QED
    BY <1>2, <2>1 DEF Free
<1>11. ASSUME NEW t \in Txs, TxCommit(t) PROVE CommitInv' /\ NoPartialCommit'
  <2>1. /\ pc' = [pc EXCEPT ![t] = "commit_db"] /\ holder' = Lock("txs", t)
        /\ UNCHANGED <<kv_store, committed, live_txs, tx_buf, updates>>
    BY <1>11 DEF TxCommit
  <2>2. holder'["db"] = holder["db"]
    BY <2>1, LockHolder, MutexNames
  <2> QED
    BY <1>2, <2>1, <2>2 DEF Free, HoldsDb, KvTypeOK
<1>12. ASSUME NEW t \in Txs, TxAbort(t) PROVE CommitInv' /\ NoPartialCommit'
  <2>1. /\ pc' = [pc EXCEPT ![t] = "abort_txs"] /\ holder' = Lock("gets", t)
        /\ UNCHANGED <<kv_store, committed, live_txs, tx_buf, updates>>
    BY <1>12 DEF TxAbort
  <2>2. holder'["db"] = holder["db"]
    BY <2>1, LockHolder, MutexNames
  <2> QED
    BY <1>2, <2>1, <2>2 DEF Free, HoldsDb, KvTypeOK
\* The calls that return without db_mtx.
<1>13. ASSUME NEW t \in Txs, pc[t] \notin HoldsDb, pc' = [pc EXCEPT ![t] = "idle"],
              holder' = Release(t)
       PROVE  Free("db")' => Free("db")
  BY <1>13, ReleaseHolder, MutexNames DEF MutexInv, Free
<1>14. ASSUME NEW t \in Txs, PushKey(t) PROVE CommitInv' /\ NoPartialCommit'
  <2>1. /\ pc[t] = "push_key" /\ pc' = [pc EXCEPT ![t] = "idle"] /\ holder' = Release(t)
        /\ UNCHANGED <<kv_store, committed, live_txs, tx_buf, updates>>
    BY <1>14 DEF PushKey
  <2>2. Free("db")' => Free("db")
    BY <1>13, <2>1 DEF HoldsDb
  <2> QED
    BY <1>2, <2>1, <2>2 DEF HoldsDb, KvTypeOK
<1>15. ASSUME NEW t \in Txs, AbortErase(t) PROVE CommitInv' /\ NoPartialCommit'
  <2>1. /\ pc[t] = "abort_txs" /\ pc' = [pc EXCEPT ![t] = "idle"] /\ holder' = Release(t)
        /\ live_txs' = live_txs \ {t} /\ tx_buf' = [tx_buf EXCEPT ![t] = NoWrites]
        /\ UNCHANGED <<kv_store, committed, updates>>
    BY <1>15 DEF AbortErase
  <2>2. Free("db")' => Free("db")
    BY <1>13, <2>1 DEF HoldsDb
  <2>3. \A u \in Txs : pc'[u] = "commit_put" => tx_buf'[u] = tx_buf[u]
    BY <2>1 DEF KvTypeOK
  <2>4. \A u \in Txs : pc'[u] \in HoldsDb => pc[u] = pc'[u]
    BY <2>1 DEF HoldsDb, KvTypeOK
  <2> QED
    BY <1>2, <2>1, <2>2, <2>3, <2>4
<1>16. ASSUME NEW t \in Txs, SafeGetMissing(t) PROVE CommitInv' /\ NoPartialCommit'
  BY <1>2, <1>16 DEF SafeGetMissing, Free
<1>17. ASSUME NEW t \in Txs, SafeGet(t) PROVE CommitInv' /\ NoPartialCommit'
  BY <1>2, <1>17 DEF SafeGet, Free, HoldsDb, KvTypeOK
<1> QED
  BY <1>1, <1>3, <1>4, <1>5, <1>6, <1>7, <1>8, <1>9, <1>10, <1>11, <1>12, <1>14, <1>15, <1>16,
     <1>17
     DEF KvNext, Begin, Continue

------------------------------------------------------------------------------
\* The invariant is inductive.
LEMMA KvInductive == KvSpec => []KvInv
<1>1. KvInv /\ [KvNext]_kvVars => KvInv'
  BY TypeStep, KeyStep, MutexStep, ReadStep, CommitStep DEF KvInv, TypeInv
<1> QED
  BY <1>1, InitHolds, PTL DEF KvSpec

\* Types: kv_store.h:20-135 keeps every map, buffer and mutex in its range.
THEOREM KvTypeCorrect == KvSpec => []KvTypeOK
<1>1. KvInv => KvTypeOK
  BY DEF KvInv, TypeInv
<1> QED
  BY <1>1, KvInductive, PTL

\* tx_get: no two transactions hold the same key read-locked, because gets_mtx
\* is held from the check of the other lists to the push_back.
THEOREM ReadLocksAreExclusive == KvSpec => []ReadLocksExclusive
<1>1. KvInv => ReadLocksExclusive
  BY DEF KvInv
<1> QED
  BY <1>1, KvInductive, PTL

\* tx_commit: whoever can lock db_mtx sees all of a commit or nothing of it.
THEOREM CommitsAreWhole == KvSpec => []NoPartialCommit
<1>1. KvInv => NoPartialCommit
  BY DEF KvInv
<1> QED
  BY <1>1, KvInductive, PTL

\* What a circle of waiting threads looks like.  A thread that waits for db_mtx
\* or txs_mtx waits, in the end, for a commit that holds both; that commit is in
\* the circle, so it waits for gets_mtx, with its updates done.
LEMMA DeadlockShape == MutexInv /\ CommitInv /\ KvTypeOK => DeadlockNeedsCommit
<1> SUFFICES ASSUME MutexInv, CommitInv, KvTypeOK,
                    NEW S \in (SUBSET Txs) \ {{}}, \A t \in S : \E u \in S : WaitsFor(t, u)
             PROVE  \E t \in Txs : pc[t] = "commit_keys" /\ t \notin live_txs
  BY DEF DeadlockNeedsCommit, Deadlocked
<1>1. ASSUME NEW t \in S
      PROVE  pc[t] \in {"safe_get", "commit_db", "commit_keys", "abort_txs"}
  BY <1>1 DEF WaitsFor, Needs, KvTypeOK
<1>2. ASSUME NEW t \in S, pc[t] \in {"safe_get", "commit_db"}
      PROVE  \E u \in S : pc[u] = "commit_keys"
  <2>1. PICK u \in S : holder["db"] = u
    BY <1>2 DEF WaitsFor, Needs
  <2>2. pc[u] \in HoldsDb
    BY <2>1 DEF MutexInv
  <2> QED
    BY <1>1, <2>2 DEF HoldsDb
<1>3. ASSUME NEW t \in S, pc[t] = "abort_txs"
      PROVE  \E u \in S : pc[u] = "commit_keys"
  <2>1. PICK u \in S : holder["txs"] = u
    BY <1>3 DEF WaitsFor, Needs
  <2>2. pc[u] \in HoldsTxs
    BY <2>1 DEF MutexInv
  <2>3. pc[u] = "commit_db" \/ pc[u] = "commit_keys"
    BY <1>1, <2>2 DEF HoldsTxs
  <2> QED
    BY <1>2, <2>3
<1>4. \E u \in S : pc[u] = "commit_keys"
  <2>1. PICK t \in S : TRUE
    OBVIOUS
  <2>2. pc[t] \in {"safe_get", "commit_db", "commit_keys", "abort_txs"}
    BY <1>1
  <2> QED
    BY <1>2, <1>3, <2>2
<1> QED
  BY <1>4 DEF CommitInv

\* The mutex orders txs-db-gets, gets-db and gets-txs: every deadlock has a
\* finished commit in it that waits for gets_mtx.
THEOREM DeadlocksHoldACommit == KvSpec => []DeadlockNeedsCommit
<1>1. KvInv => DeadlockNeedsCommit
  BY DeadlockShape DEF KvInv, TypeInv
<1> QED
  BY <1>1, KvInductive, PTL

-----------------------------------------------------------------------------
(* The transaction graph *)

GraphTypes ==
  /\ graph \in Graphs
  /\ edges \subseteq Nodes \X Nodes
  /\ ready_nodes \in Seq(Nodes)
  /\ applied \in Seq(Nodes)
  /\ wpc \in [Workers -> {"ready", "waiting", "woken", "run", "drop", "done"}]
  /\ node \in [Workers -> Nodes]

\* A node that has left the graph has no owner.
Ownerless ==
  \A x \in Nodes :
    /\ \A m \in Range(ready_nodes) \cup Range(applied) : <<x, m>> \notin edges
    /\ \A w \in Workers : wpc[w] = "run" => <<x, node[w]>> \notin edges

\* A node owns those that depend on it until it has been applied.
DepsOwned ==
  \A m \in Nodes : \A n \in graph[m].deps : <<n, m>> \in edges \/ n \in Range(applied)

\* Only a node that has been applied is destroyed.
DropsApplied == \A w \in Workers : wpc[w] = "drop" => node[w] \in Range(applied)

\* A node is in the queue, in the hands of one worker, or applied.
OnePlace ==
  /\ IsInjective(ready_nodes) /\ IsInjective(applied)
  /\ \A n \in Range(ready_nodes) : n \notin Range(applied)
  /\ \A w \in Workers : wpc[w] = "run" =>
       /\ node[w] \notin Range(ready_nodes) /\ node[w] \notin Range(applied)
       /\ \A v \in Workers \ {w} : wpc[v] = "run" => node[v] # node[w]

GraphInv == GraphTypes /\ Ownerless /\ DepsOwned /\ DropsApplied /\ OnePlace

------------------------------------------------------------------------------
\* What push_back and pop_front do to the elements of a queue.
LEMMA Pushed ==
  ASSUME NEW s \in Seq(Nodes), NEW x \in Nodes
  PROVE  /\ Append(s, x) \in Seq(Nodes)
         /\ Range(Append(s, x)) = Range(s) \cup {x}
         /\ IsInjective(s) /\ x \notin Range(s) => IsInjective(Append(s, x))
<1>1. /\ Append(s, x) \in Seq(Nodes) /\ Len(Append(s, x)) = Len(s) + 1
      /\ \A i \in 1..Len(s) : Append(s, x)[i] = s[i]
      /\ Append(s, x)[Len(s) + 1] = x
  OBVIOUS
<1>2. /\ DOMAIN s = 1..Len(s) /\ DOMAIN Append(s, x) = 1..(Len(s) + 1)
      /\ 1..(Len(s) + 1) = 1..Len(s) \cup {Len(s) + 1}
  BY <1>1
<1>3. Range(Append(s, x)) = Range(s) \cup {x}
  BY <1>1, <1>2 DEF Range
<1>4. ASSUME IsInjective(s), x \notin Range(s) PROVE IsInjective(Append(s, x))
  BY <1>1, <1>2, <1>4 DEF Range, IsInjective
<1> QED
  BY <1>1, <1>3, <1>4

LEMMA Popped ==
  ASSUME NEW s \in Seq(Nodes), s # << >>
  PROVE  /\ Tail(s) \in Seq(Nodes) /\ Head(s) \in Range(s) /\ Head(s) \in Nodes
         /\ Range(Tail(s)) \subseteq Range(s)
         /\ IsInjective(s) => IsInjective(Tail(s)) /\ Head(s) \notin Range(Tail(s))
<1>1. /\ Tail(s) \in Seq(Nodes) /\ Len(Tail(s)) = Len(s) - 1 /\ Len(s) > 0
      /\ \A i \in 1..(Len(s) - 1) : Tail(s)[i] = s[i + 1]
      /\ Head(s) = s[1] /\ Head(s) \in Nodes
  OBVIOUS
<1>2. DOMAIN s = 1..Len(s) /\ DOMAIN Tail(s) = 1..(Len(s) - 1)
  BY <1>1
<1>3. Head(s) \in Range(s)
  BY <1>1, <1>2 DEF Range
<1>4. Range(Tail(s)) \subseteq Range(s)
  BY <1>1, <1>2 DEF Range
<1>5. ASSUME IsInjective(s) PROVE IsInjective(Tail(s)) /\ Head(s) \notin Range(Tail(s))
  <2>1. \A i \in 1..(Len(s) - 1) : i + 1 \in 1..Len(s)
    BY <1>1
  <2>2. IsInjective(Tail(s))
    BY <1>1, <1>2, <1>5, <2>1 DEF IsInjective
  <2>3. Head(s) \notin Range(Tail(s))
    BY <1>1, <1>2, <1>5, <2>1 DEF IsInjective, Range
  <2> QED
    BY <2>2, <2>3
<1> QED
  BY <1>1, <1>3, <1>4, <1>5

\* A sequence that enumerates a finite set has no element twice.
LEMMA OrdersInjective ==
  ASSUME NEW S \in SUBSET Nodes, NEW s \in Orders(S)
  PROVE  s \in Seq(Nodes) /\ Range(s) = S /\ IsInjective(s)
<1>1. IsFiniteSet(S) /\ Cardinality(S) \in Nat
  BY GraphAssumption, FS_Subset, FS_CardinalityType DEF GraphAssumption
<1>2. s \in [1..Cardinality(S) -> S] /\ Range(s) = S
  BY DEF Orders
<1>3. IsFiniteSet(1..Cardinality(S)) /\ Cardinality(1..Cardinality(S)) = Cardinality(S)
  BY <1>1, FS_Interval
<1>4. s \in Surjection(1..Cardinality(S), S)
  BY <1>2 DEF Surjection, Range
<1>5. s \in Injection(1..Cardinality(S), S)
  BY <1>3, <1>4, FS_SurjSameCardinalityImpliesInj
<1> QED
  BY <1>1, <1>2, <1>5 DEF Injection

\* notify_one wakes a waiter, and does nothing to the others.
LEMMA NotifiedKeeps ==
  ASSUME GraphTypes, wpc' \in Notified
  PROVE  /\ wpc' \in [Workers -> {"ready", "waiting", "woken", "run", "drop", "done"}]
         /\ \A w \in Workers : (wpc'[w] = "run" <=> wpc[w] = "run") /\ (wpc'[w] = "drop" <=> wpc[w] = "drop")
BY DEF GraphTypes, Notified

------------------------------------------------------------------------------
LEMMA GraphInitHolds == GraphInit => GraphInv
<1> SUFFICES ASSUME GraphInit PROVE GraphInv
  OBVIOUS
<1>1. /\ graph \in Graphs /\ edges = Edges(graph) /\ applied = << >>
      /\ ready_nodes \in Orders(Sources(graph))
      /\ wpc = [w \in Workers |-> "ready"]
      /\ node = [w \in Workers |-> CHOOSE n \in Nodes : TRUE]
  BY DEF GraphInit
<1>2. ready_nodes \in Seq(Nodes) /\ Range(ready_nodes) = Sources(graph) /\ IsInjective(ready_nodes)
  BY <1>1, OrdersInjective DEF Sources
<1>3. Range(applied) = {} /\ IsInjective(applied)
  BY <1>1 DEF Range, IsInjective
<1>4. (CHOOSE n \in Nodes : TRUE) \in Nodes
  BY GraphAssumption DEF GraphAssumption
<1>5. GraphTypes
  BY <1>1, <1>2, <1>4 DEF GraphTypes, Edges
<1>6. Ownerless
  BY <1>1, <1>2, <1>3 DEF Ownerless, Edges, Sources
<1>7. DepsOwned
  <2> SUFFICES ASSUME NEW m \in Nodes, NEW n \in graph[m].deps PROVE <<n, m>> \in edges
    BY DEF DepsOwned
  <2>1. n \in Nodes
    BY <1>1, GraphAssumption DEF GraphAssumption
  <2> QED
    BY <1>1, <2>1 DEF Edges
<1>8. DropsApplied /\ OnePlace
  BY <1>1, <1>2, <1>3 DEF DropsApplied, OnePlace
<1> QED
  BY <1>5, <1>6, <1>7, <1>8 DEF GraphInv

\* get_ready moves a node from the queue to one worker.
LEMMA PopStep == \A w \in Workers : GraphInv /\ GetReady(w) => GraphInv'
<1> SUFFICES ASSUME NEW w \in Workers, GraphInv, GetReady(w) PROVE GraphInv'
  OBVIOUS
<1> USE DEF GraphInv
<1>1. CASE PopNothing(w)
  <2>1. /\ wpc' = [wpc EXCEPT ![w] = wpc'[w]] /\ wpc'[w] \in {"done", "waiting"}
        /\ UNCHANGED <<graph, edges, ready_nodes, node, applied>>
    BY <1>1 DEF PopNothing, GraphTypes
  <2>2. GraphTypes'
    BY <2>1 DEF GraphTypes
  <2>3. \A v \in Workers : wpc'[v] \in {"run", "drop"} => wpc'[v] = wpc[v]
    BY <2>1 DEF GraphTypes
  <2>4. Ownerless' /\ DepsOwned' /\ DropsApplied' /\ OnePlace'
    BY <2>1, <2>3 DEF Ownerless, DepsOwned, DropsApplied, OnePlace
  <2> QED
    BY <2>2, <2>4
<1>2. CASE Pop(w)
  <2> DEFINE n == Head(ready_nodes)
  <2>1. /\ ready_nodes # << >> /\ node' = [node EXCEPT ![w] = n]
        /\ ready_nodes' = Tail(ready_nodes) /\ wpc' = [wpc EXCEPT ![w] = "run"]
        /\ UNCHANGED <<graph, edges, applied>>
    BY <1>2 DEF Pop
  <2>2. /\ ready_nodes' \in Seq(Nodes) /\ n \in Range(ready_nodes) /\ n \in Nodes
        /\ Range(ready_nodes') \subseteq Range(ready_nodes)
        /\ IsInjective(ready_nodes') /\ n \notin Range(ready_nodes')
    BY <2>1, Popped DEF GraphTypes, OnePlace
  <2> HIDE DEF n
  <2>3. GraphTypes'
    BY <2>1, <2>2 DEF GraphTypes
  <2>4. node'[w] = n /\ wpc'[w] = "run"
        /\ \A v \in Workers \ {w} : node'[v] = node[v] /\ wpc'[v] = wpc[v]
    BY <2>1 DEF GraphTypes
  <2>5. Ownerless' /\ DepsOwned' /\ DropsApplied'
    BY <2>1, <2>2, <2>4 DEF Ownerless, DepsOwned, DropsApplied
  <2>6. n \notin Range(applied) /\ \A v \in Workers : wpc[v] = "run" => node[v] # n
    BY <2>2 DEF OnePlace
  <2>7. OnePlace'
    BY <2>1, <2>2, <2>4, <2>6 DEF OnePlace
  <2> QED
    BY <2>3, <2>5, <2>7
<1> QED
  BY <1>1, <1>2 DEF GetReady

\* A worker applies the node it holds.
LEMMA ExecuteStep == \A w \in Workers : GraphInv /\ Execute(w) => GraphInv'
<1> SUFFICES ASSUME NEW w \in Workers, GraphInv, Execute(w) PROVE GraphInv'
  OBVIOUS
<1> USE DEF GraphInv
<1>1. /\ wpc[w] = "run" /\ applied' = Append(applied, node[w])
      /\ wpc' = [wpc EXCEPT ![w] = "drop"]
      /\ UNCHANGED <<graph, edges, ready_nodes, node>>
  BY DEF Execute
<1>2. node[w] \in Nodes /\ node[w] \notin Range(applied) /\ node[w] \notin Range(ready_nodes)
  BY <1>1 DEF GraphTypes, OnePlace
<1>3. /\ applied' \in Seq(Nodes) /\ Range(applied') = Range(applied) \cup {node[w]}
      /\ IsInjective(applied')
  BY <1>1, <1>2, Pushed DEF GraphTypes, OnePlace
<1>4. wpc'[w] = "drop" /\ \A v \in Workers \ {w} : wpc'[v] = wpc[v]
  BY <1>1 DEF GraphTypes
<1>5. GraphTypes'
  BY <1>1, <1>3 DEF GraphTypes
<1>6. Ownerless'
  BY <1>1, <1>3, <1>4 DEF Ownerless
<1>7. DepsOwned' /\ DropsApplied'
  BY <1>1, <1>3, <1>4 DEF DepsOwned, DropsApplied
<1>8. OnePlace'
  BY <1>1, <1>2, <1>3, <1>4 DEF OnePlace
<1> QED
  BY <1>5, <1>6, <1>7, <1>8

\* The destructor gives up a node: the last owner makes it ready.
LEMMA ReleaseStep ==
  \A w \in Workers : GraphInv /\ (ReleaseLast(w) \/ ReleaseShared(w)) => GraphInv'
<1> SUFFICES ASSUME NEW w \in Workers, GraphInv, ReleaseLast(w) \/ ReleaseShared(w) PROVE GraphInv'
  OBVIOUS
<1> USE DEF GraphInv
<1>1. PICK m \in Owned(node[w]) :
        /\ wpc[w] = "drop" /\ edges' = edges \ {<<node[w], m>>}
        /\ UNCHANGED <<graph, node, applied>>
        /\ \/ ready_nodes' = ready_nodes /\ wpc' = wpc
           \/ m \in LastOwned(node[w]) /\ ready_nodes' = Append(ready_nodes, m) /\ wpc' \in Notified
  BY DEF ReleaseLast, ReleaseShared, LastOwned, OwnedAlone
<1>2. m \in Nodes /\ <<node[w], m>> \in edges /\ node[w] \in Nodes
  BY <1>1 DEF Owned, GraphTypes
<1>3. DepsOwned'
  <2>1. node[w] \in Range(applied)
    BY <1>1 DEF DropsApplied
  <2> QED
    BY <1>1, <2>1 DEF DepsOwned
\* The node that was owned until now was nowhere else.
<1>4. /\ m \notin Range(ready_nodes) /\ m \notin Range(applied)
      /\ \A v \in Workers : wpc[v] = "run" => node[v] # m
  BY <1>2 DEF Ownerless
<1>5. CASE ready_nodes' = ready_nodes /\ wpc' = wpc
  BY <1>1, <1>3, <1>5 DEF GraphTypes, Ownerless, DropsApplied, OnePlace
<1>6. CASE m \in LastOwned(node[w]) /\ ready_nodes' = Append(ready_nodes, m) /\ wpc' \in Notified
  <2>1. /\ ready_nodes' \in Seq(Nodes) /\ Range(ready_nodes') = Range(ready_nodes) \cup {m}
        /\ IsInjective(ready_nodes')
    BY <1>2, <1>4, <1>6, Pushed DEF GraphTypes, OnePlace
  <2>2. /\ wpc' \in [Workers -> {"ready", "waiting", "woken", "run", "drop", "done"}]
        /\ \A v \in Workers : (wpc'[v] = "run" <=> wpc[v] = "run") /\ (wpc'[v] = "drop" <=> wpc[v] = "drop")
    BY <1>6, NotifiedKeeps
  <2>3. \A x \in Nodes : <<x, m>> \notin edges'
    BY <1>1, <1>6 DEF LastOwned, OwnedAlone
  <2>4. GraphTypes'
    BY <1>1, <2>1, <2>2 DEF GraphTypes
  <2>5. Ownerless'
    BY <1>1, <2>1, <2>2, <2>3 DEF Ownerless
  <2>6. DropsApplied' /\ OnePlace'
    BY <1>1, <1>4, <2>1, <2>2 DEF DropsApplied, OnePlace
  <2> QED
    BY <1>3, <2>4, <2>5, <2>6
<1> QED
  BY <1>1, <1>5, <1>6

\* The steps that only move a worker.
LEMMA OtherStep ==
  \A w \in Workers : GraphInv /\ (Dropped(w) \/ WakeSpuriously(w)) => GraphInv'
<1> SUFFICES ASSUME NEW w \in Workers, GraphInv, Dropped(w) \/ WakeSpuriously(w) PROVE GraphInv'
  OBVIOUS
<1> USE DEF GraphInv
<1>1. /\ \E l \in {"ready", "woken"} : wpc' = [wpc EXCEPT ![w] = l]
      /\ UNCHANGED <<graph, edges, ready_nodes, node, applied>>
  BY DEF Dropped, WakeSpuriously
<1>2. GraphTypes'
  BY <1>1 DEF GraphTypes
<1>3. \A v \in Workers : wpc'[v] \in {"run", "drop"} => wpc'[v] = wpc[v]
  BY <1>1 DEF GraphTypes
<1>4. Ownerless' /\ DepsOwned' /\ DropsApplied' /\ OnePlace'
  BY <1>1, <1>3 DEF Ownerless, DepsOwned, DropsApplied, OnePlace
<1> QED
  BY <1>2, <1>4

LEMMA GraphInductive == GraphSpec => []GraphInv
<1>1. GraphInv /\ [GraphNext]_graphVars => GraphInv'
  <2> SUFFICES ASSUME GraphInv, [GraphNext]_graphVars PROVE GraphInv'
    OBVIOUS
  <2>1. CASE UNCHANGED graphVars
    BY <2>1 DEF graphVars, GraphInv, GraphTypes, Ownerless, DepsOwned, DropsApplied, OnePlace
  <2> QED
    BY <2>1, PopStep, ExecuteStep, ReleaseStep, OtherStep DEF GraphNext, Work
<1> QED
  BY <1>1, GraphInitHolds, PTL DEF GraphSpec

------------------------------------------------------------------------------
\* A node that has no owner any more waits for none.
LEMMA DepsOfReady == GraphInv => DependenciesFirst
<1> SUFFICES ASSUME GraphInv,
                    NEW n \in Range(ready_nodes) \cup Range(applied) \cup {m \in Nodes : Running(m)},
                    NEW d \in graph[n].deps
             PROVE  d \in Range(applied)
  BY DEF DependenciesFirst
<1>1. n \in Nodes
  BY DEF GraphInv, GraphTypes, Range
<1>2. d \in Nodes
  BY <1>1, GraphAssumption DEF GraphAssumption, GraphInv, GraphTypes
<1>3. <<d, n>> \notin edges
  BY <1>2 DEF GraphInv, Ownerless, Running
<1> QED
  BY <1>1, <1>3 DEF GraphInv, DepsOwned

\* get_ready hands out a transaction, and a worker applies it, only when all
\* that it depends upon has been applied, for every graph and order of release.
THEOREM DependenciesComeFirst == GraphSpec => []DependenciesFirst
BY DepsOfReady, GraphInductive, PTL

\* No worker applies a transaction that another has applied.
THEOREM TransactionsAppliedOnce == GraphSpec => []AppliedOnce
<1>1. GraphInv => AppliedOnce
  BY DEF GraphInv, OnePlace, IsInjective, AppliedOnce
<1> QED
  BY <1>1, GraphInductive, PTL

------------------------------------------------------------------------------
(* What get_possible_results lists *)

\* Every function over 1..n is a sequence of something.
LEMMA SomeSeq ==
  ASSUME NEW n \in Nat, NEW s, s = [i \in 1..n |-> s[i]]
  PROVE  s \in Seq(Range(s)) /\ Len(s) = n /\ DOMAIN s = 1..n
<1>1. DOMAIN s = 1..n /\ \A i \in 1..n : s[i] \in Range(s)
  BY DEF Range
<1>2. s \in [1..n -> Range(s)]
  BY <1>1
<1> QED
  BY <1>1, <1>2

LEMMA OneToOne ==
  ASSUME NEW S, NEW T, NEW h
  PROVE  h \in Bijection(S, T) <=>
           /\ h \in [S -> T]
           /\ \A x, y \in S : h[x] = h[y] => x = y
           /\ \A t \in T : \E x \in S : h[x] = t
BY DEF Bijection, Injection, Surjection, IsInjective

\* The elements of a concatenation are those of its parts, each in one place.
Places(ss, n) == {p \in (1..n) \X Nat : p[2] \in 1..Len(ss[p[1]])}
Flattens(f, ss, n, V) ==
  /\ f \in Seq(V)
  /\ \E h \in Bijection(1..Len(f), Places(ss, n)) :
       \A x \in 1..Len(f) : f[x] = ss[h[x][1]][h[x][2]]

LEMMA FlattenOne ==
  ASSUME NEW V, NEW ss, ss[1] \in Seq(V)
  PROVE  Flattens(ss[1], ss, 1, V)
<1>1. PICK f : f = ss[1]
  OBVIOUS
<1>2. f \in Seq(V) /\ Len(f) \in Nat
  BY <1>1
<1>3. PICK h : h = [x \in 1..Len(f) |-> <<1, x>>]
  OBVIOUS
<1>4. Places(ss, 1) = {<<1, x>> : x \in 1..Len(f)}
  <2>1. 1..1 = {1}
    OBVIOUS
  <2>2. ASSUME NEW p \in Places(ss, 1) PROVE p \in {<<1, x>> : x \in 1..Len(f)}
    <3>1. PICK y \in Nat : p = <<1, y>>
      BY <2>1, <2>2 DEF Places
    <3>2. y \in 1..Len(f)
      BY <1>1, <2>2, <3>1 DEF Places
    <3> QED
      BY <3>1, <3>2
  <2>3. ASSUME NEW x \in 1..Len(f) PROVE <<1, x>> \in Places(ss, 1)
    BY <1>1, <1>2, <2>1, <2>3 DEF Places
  <2> QED
    BY <2>2, <2>3
<1>5. h \in Bijection(1..Len(f), Places(ss, 1))
  <2>1. h \in [1..Len(f) -> Places(ss, 1)]
    BY <1>3, <1>4
  <2>2. \A x, y \in 1..Len(f) : h[x] = h[y] => x = y
    BY <1>3
  <2>3. \A p \in Places(ss, 1) : \E x \in 1..Len(f) : h[x] = p
    BY <1>3, <1>4
  <2> QED
    BY <2>1, <2>2, <2>3, OneToOne
<1>6. \A x \in 1..Len(f) : f[x] = ss[h[x][1]][h[x][2]]
  BY <1>1, <1>3
<1> QED
  BY <1>1, <1>2, <1>5, <1>6 DEF Flattens

LEMMA FlattenNext ==
  ASSUME NEW V, NEW ss, NEW n \in Nat \ {0}, NEW f, Flattens(f, ss, n, V), ss[n + 1] \in Seq(V)
  PROVE  Flattens(f \o ss[n + 1], ss, n + 1, V)
<1>1. PICK s, e, l : s = ss[n + 1] /\ e = f \o s /\ l = Len(f)
  OBVIOUS
<1>2. f \in Seq(V) /\ s \in Seq(V) /\ l \in Nat /\ Len(s) \in Nat
  BY <1>1 DEF Flattens
<1>3. /\ e \in Seq(V) /\ Len(e) = l + Len(s)
      /\ \A x \in 1..(l + Len(s)) : e[x] = IF x <= l THEN f[x] ELSE s[x - l]
  BY <1>1, <1>2, ConcatProperties
<1>4. PICK h : /\ h \in [1..l -> Places(ss, n)]
               /\ \A x, y \in 1..l : h[x] = h[y] => x = y
               /\ \A p \in Places(ss, n) : \E x \in 1..l : h[x] = p
               /\ \A x \in 1..l : f[x] = ss[h[x][1]][h[x][2]]
  <2>1. PICK D, P : D = 1..l /\ P = Places(ss, n)
    OBVIOUS
  <2>2. PICK h \in Bijection(D, P) : \A x \in D : f[x] = ss[h[x][1]][h[x][2]]
    BY <1>1, <2>1 DEF Flattens
  <2>3. /\ h \in [D -> P] /\ \A x, y \in D : h[x] = h[y] => x = y
        /\ \A p \in P : \E x \in D : h[x] = p
    BY OneToOne
  <2>4. /\ h \in [1..l -> Places(ss, n)]
        /\ \A x, y \in 1..l : h[x] = h[y] => x = y
        /\ \A p \in Places(ss, n) : \E x \in 1..l : h[x] = p
        /\ \A x \in 1..l : f[x] = ss[h[x][1]][h[x][2]]
    BY <2>1, <2>2, <2>3, Zenon
  <2> QED
    BY <2>4, Zenon
<1>5. PICK q : q = [x \in 1..(l + Len(s)) |-> IF x <= l THEN h[x] ELSE <<n + 1, x - l>>]
  OBVIOUS
<1>6. \A p \in Places(ss, n + 1) :
         p \in Places(ss, n) \/ \E y \in 1..Len(s) : p = <<n + 1, y>>
  <2> SUFFICES ASSUME NEW p \in Places(ss, n + 1), p \notin Places(ss, n)
               PROVE  \E y \in 1..Len(s) : p = <<n + 1, y>>
    OBVIOUS
  <2>1. PICK j \in 1..(n + 1), y \in Nat : p = <<j, y>> /\ y \in 1..Len(ss[j])
    BY DEF Places
  <2>2. j \notin 1..n
    BY <2>1 DEF Places
  <2>3. j = n + 1
    BY <2>2
  <2> QED
    BY <1>1, <2>1, <2>3
<1>7. /\ \A p \in Places(ss, n) : p \in Places(ss, n + 1) /\ p[1] # n + 1
      /\ \A y \in 1..Len(s) : <<n + 1, y>> \in Places(ss, n + 1)
  BY <1>1, <1>2 DEF Places
<1>8. q \in [1..(l + Len(s)) -> Places(ss, n + 1)]
  <2>1. ASSUME NEW x \in 1..(l + Len(s))
        PROVE  q[x] \in Places(ss, n + 1)
    <3>1. CASE x <= l
      <4>1. q[x] = h[x] /\ h[x] \in Places(ss, n)
        BY <1>2, <1>4, <1>5, <3>1
      <4> QED
        BY <1>7, <4>1
    <3>2. CASE ~ (x <= l)
      <4>1. x - l \in 1..Len(s) /\ q[x] = <<n + 1, x - l>>
        BY <1>2, <1>5, <3>2
      <4> QED
        BY <1>7, <4>1
    <3> QED
      BY <3>1, <3>2
  <2> QED
    BY <1>5, <2>1
<1>9. ASSUME NEW x \in 1..(l + Len(s)), NEW y \in 1..(l + Len(s)), q[x] = q[y] PROVE x = y
  <2>1. \A z \in 1..(l + Len(s)) :
          /\ z <= l => z \in 1..l /\ q[z] = h[z] /\ q[z][1] # n + 1
          /\ ~ (z <= l) => q[z][1] = n + 1 /\ q[z][2] = z - l
    <3> SUFFICES ASSUME NEW z \in 1..(l + Len(s))
                 PROVE  /\ z <= l => z \in 1..l /\ q[z] = h[z] /\ q[z][1] # n + 1
                        /\ ~ (z <= l) => q[z][1] = n + 1 /\ q[z][2] = z - l
      OBVIOUS
    <3>1. CASE z <= l
      <4>1. z \in 1..l /\ q[z] = h[z]
        BY <1>2, <1>5, <3>1
      <4>2. h[z] \in Places(ss, n)
        BY <1>4, <4>1
      <4> QED
        BY <1>7, <3>1, <4>1, <4>2
    <3>2. CASE ~ (z <= l)
      BY <1>5, <3>2
    <3> QED
      BY <3>1, <3>2
  <2>2. CASE x <= l
    BY <1>4, <1>9, <2>1, <2>2
  <2>3. CASE ~ (x <= l)
    <3>1. ~ (y <= l) /\ x - l = y - l
      BY <1>9, <2>1, <2>3
    <3> QED
      BY <1>2, <3>1
  <2> QED
    BY <2>2, <2>3
<1>10. ASSUME NEW p \in Places(ss, n + 1) PROVE \E x \in 1..(l + Len(s)) : q[x] = p
  <2>1. CASE p \in Places(ss, n)
    <3>1. PICK x \in 1..l : h[x] = p
      BY <1>4, <2>1
    <3>2. x \in 1..(l + Len(s)) /\ x <= l
      BY <1>2
    <3> QED
      BY <1>5, <3>1, <3>2
  <2>2. ASSUME NEW y \in 1..Len(s), p = <<n + 1, y>> PROVE \E x \in 1..(l + Len(s)) : q[x] = p
    <3>1. l + y \in 1..(l + Len(s)) /\ ~ (l + y <= l) /\ (l + y) - l = y
      BY <1>2
    <3> QED
      BY <1>5, <2>2, <3>1
  <2> QED
    BY <1>6, <2>1, <2>2
<1>11. ASSUME NEW x \in 1..(l + Len(s)) PROVE e[x] = ss[q[x][1]][q[x][2]]
  <2>1. CASE x <= l
    <3>1. x \in 1..l /\ q[x] = h[x] /\ e[x] = f[x]
      BY <1>2, <1>3, <1>5, <2>1
    <3> QED
      BY <1>4, <3>1
  <2>2. CASE ~ (x <= l)
    <3>1. q[x] = <<n + 1, x - l>> /\ e[x] = s[x - l]
      BY <1>3, <1>5, <2>2
    <3> QED
      BY <1>1, <3>1
  <2> QED
    BY <2>1, <2>2
<1>12. q \in Bijection(1..Len(e), Places(ss, n + 1))
  <2>1. /\ \A x, y \in 1..(l + Len(s)) : q[x] = q[y] => x = y
        /\ \A p \in Places(ss, n + 1) : \E x \in 1..(l + Len(s)) : q[x] = p
    BY <1>9, <1>10
  <2>2. PICK D, P : D = 1..(l + Len(s)) /\ P = Places(ss, n + 1)
    OBVIOUS
  <2>3. /\ q \in [D -> P] /\ \A x, y \in D : q[x] = q[y] => x = y
        /\ \A p \in P : \E x \in D : q[x] = p
    BY <1>8, <2>1, <2>2, Zenon
  <2>4. q \in Bijection(D, P)
    BY <2>3, OneToOne, Zenon
  <2>5. 1..Len(e) = D
    BY <1>3, <2>2
  <2> QED
    BY <2>2, <2>4, <2>5, Zenon
<1> QED
  BY <1>1, <1>3, <1>11, <1>12 DEF Flattens

LEMMA Flattened ==
  ASSUME NEW V, NEW n \in Nat, NEW ss, ss = [i \in 1..n |-> ss[i]], \A i \in 1..n : ss[i] \in Seq(V)
  PROVE  Flattens(FlattenSeq(ss), ss, n, V)
<1>1. Len(ss) = n /\ DOMAIN ss = 1..n
  BY SomeSeq
<1>2. CASE n = 0
  <2>1. FlattenSeq(ss) = ss /\ ss = << >>
    BY <1>1, <1>2 DEF FlattenSeq
  <2>2. Places(ss, n) = {}
    BY <1>2 DEF Places
  <2>3. PICK f : f = << >>
    OBVIOUS
  <2>4. f \in Seq(V) /\ Len(f) = 0 /\ f \in [1..0 -> {}]
    BY <2>3
  <2>5. f \in Bijection(1..Len(f), Places(ss, n))
    <3>1. f \in [1..Len(f) -> Places(ss, n)]
      BY <2>2, <2>4
    <3>2. 1..Len(f) = {}
      BY <2>4
    <3> QED
      BY <2>2, <3>1, <3>2, OneToOne
  <2>6. 1..Len(f) = {}
    BY <2>4
  <2> QED
    BY <2>1, <2>3, <2>4, <2>5, <2>6 DEF Flattens
<1>3. CASE n # 0
  <2>1. PICK m : m = n - 1 /\ m \in Nat
    BY <1>3
  <2>2. PICK G : G = [k \in 1..m |-> [x \in Seq(V) |-> x \o ss[k + 1]]]
    OBVIOUS
  <2>3. ss[1] \in Seq(V) /\ \A k \in 1..m : ss[k + 1] \in Seq(V) /\ k + 1 \in 1..n
    <3>1. 1 \in 1..n /\ \A k \in 1..m : k + 1 \in 1..n
      BY <1>3, <2>1
    <3> QED
      BY <3>1
  <2>4. PICK r : IsRecursion(r, m, Seq(V), ss[1], G)
    <3>1. ASSUME NEW k \in 1..m, NEW x \in Seq(V) PROVE x \o ss[k + 1] \in Seq(V)
      BY <2>3
    <3>2. IsStep(G, m, Seq(V))
      BY <2>2, <3>1 DEF IsStep
    <3> QED
      BY <2>1, <2>3, <3>2, RecursionExists
  <2>5. /\ r[0] = ss[1]
        /\ \A k \in 1..m : r[k] = r[k - 1] \o ss[k + 1]
    <3>1. ASSUME NEW k \in 1..m PROVE r[k] = r[k - 1] \o ss[k + 1]
      <4>1. r[k] = G[k][r[k - 1]] /\ r[k - 1] \in Seq(V)
        BY <2>1, <2>4 DEF IsRecursion
      <4> QED
        BY <2>2, <4>1
    <3> QED
      BY <2>4, <3>1 DEF IsRecursion
  <2>6. PICK f : f = [i \in 1..n |-> r[i - 1]]
    OBVIOUS
  <2>7. f = [i \in 1..n |-> IF i = 1 THEN ss[i] ELSE f[i - 1] \o ss[i]]
    <3>1. ASSUME NEW i \in 1..n PROVE r[i - 1] = IF i = 1 THEN ss[i] ELSE f[i - 1] \o ss[i]
      <4>1. CASE i = 1
        BY <2>5, <4>1
      <4>2. CASE i # 1
        <5>1. i - 1 \in 1..m /\ i - 1 \in 1..n /\ (i - 1) + 1 = i
          BY <2>1, <4>2
        <5>2. f[i - 1] = r[(i - 1) - 1]
          BY <2>6, <5>1
        <5>3. r[i - 1] = r[(i - 1) - 1] \o ss[(i - 1) + 1]
          BY <2>5, <5>1
        <5> QED
          BY <4>2, <5>1, <5>2, <5>3
      <4> QED
        BY <4>1, <4>2
    <3> QED
      BY <2>6, <3>1, Zenon
  <2>8. PICK w : /\ w = [i \in 1..n |-> IF i = 1 THEN ss[i] ELSE w[i - 1] \o ss[i]]
                 /\ FlattenSeq(ss) = w[n]
    BY <1>1, <1>3, <2>7 DEF FlattenSeq
  <2>9. \A i \in 1..n : w[i] = IF i = 1 THEN ss[i] ELSE w[i - 1] \o ss[i]
    BY <2>8, Zenon
  <2> DEFINE S == {k \in 0..m : Flattens(w[k + 1], ss, k + 1, V)}
  <2>10. 0 \in S
    <3>1. w[1] = ss[1]
      BY <1>3, <2>9
    <3>2. Flattens(w[1], ss, 1, V)
      BY <2>3, <3>1, FlattenOne
    <3>3. 0 \in 0..m /\ 0 + 1 = 1
      BY <2>1
    <3> QED
      BY <3>2, <3>3
  <2>11. ASSUME NEW k \in 0..(m - 1), k \in S PROVE k + 1 \in S
    <3>1. PICK j : j = k + 1
      OBVIOUS
    <3>2. /\ j \in Nat \ {0} /\ j + 1 \in 1..n /\ j + 1 # 1 /\ (j + 1) - 1 = j
          /\ j \in 1..m /\ k + 1 \in 0..m
      BY <2>1, <3>1
    <3>3. Flattens(w[j], ss, j, V)
      BY <2>11, <3>1
    <3>4. w[j + 1] = w[j] \o ss[j + 1]
      BY <2>9, <3>2
    <3>5. Flattens(w[j] \o ss[j + 1], ss, j + 1, V)
      BY <2>3, <3>2, <3>3, FlattenNext
    <3> QED
      BY <3>1, <3>2, <3>4, <3>5
  <2>12. m \in S
    <3>1. m \in 0..m
      BY <2>1
    <3> HIDE DEF S
    <3> QED
      BY <2>1, <2>10, <2>11, <3>1, BoundedInduction
  <2>13. Flattens(w[m + 1], ss, m + 1, V) /\ m + 1 = n
    BY <2>1, <2>12
  <2> HIDE DEF S
  <2> QED
    BY <2>8, <2>13
<1> QED
  BY <1>2, <1>3

\* The recursion of Outcome, transaction by transaction.
LEMMA OutcomeSteps ==
  ASSUME NEW g, NEW o \in Seq(Nodes)
  PROVE  \E v : /\ Outcome(g, o) = v[Len(o)]
                /\ v[0] = << >>
                /\ \A i \in 1..Len(o) : v[i] = ApplyTxn(v[i - 1], g[o[i]].cmds)
<1>0. PICK n : n = Len(o) /\ n \in Nat
  OBVIOUS
<1> DEFINE Solves(f, k) ==
             /\ f = [i \in 0..k |-> f[i]]
             /\ f[0] = << >>
             /\ \A i \in 1..k : f[i] = ApplyTxn(f[i - 1], g[o[i]].cmds)
           S == {k \in 0..n : \E f : Solves(f, k)}
<1>1. 0 \in S
  <2>1. Solves([i \in 0..0 |-> << >>], 0)
    OBVIOUS
  <2>2. 0 \in 0..n
    BY <1>0
  <2> HIDE DEF Solves
  <2> QED
    BY <2>1, <2>2
<1>2. ASSUME NEW k \in 0..(n - 1), k \in S PROVE k + 1 \in S
  <2>1. PICK f : Solves(f, k)
    BY <1>2
  <2>2. PICK e : e = [i \in 0..(k + 1) |->
                        IF i = k + 1 THEN ApplyTxn(f[k], g[o[k + 1]].cmds) ELSE f[i]]
    OBVIOUS
  <2>3. /\ k + 1 \in 0..n /\ k + 1 \in 0..(k + 1) /\ (k + 1) - 1 = k /\ 0 \in 0..k
        /\ \A i \in 0..k : i \in 0..(k + 1) /\ i # k + 1
        /\ \A i \in 1..(k + 1) : i = k + 1 \/ (i \in 1..k /\ i \in 0..k /\ i - 1 \in 0..k)
    BY <1>0
  <2>4. e[k + 1] = ApplyTxn(f[k], g[o[k + 1]].cmds) /\ \A i \in 0..k : e[i] = f[i]
    BY <2>2, <2>3
  <2>5. k \in 0..k
    BY <1>0
  <2>6. ASSUME NEW i \in 1..(k + 1) PROVE e[i] = ApplyTxn(e[i - 1], g[o[i]].cmds)
    <3>1. CASE i = k + 1
      BY <2>3, <2>4, <2>5, <3>1
    <3>2. CASE i # k + 1
      <4>1. i \in 1..k /\ i \in 0..k /\ i - 1 \in 0..k
        BY <2>3, <3>2
      <4>2. f[i] = ApplyTxn(f[i - 1], g[o[i]].cmds)
        BY <2>1, <4>1
      <4> QED
        BY <2>4, <4>1, <4>2
    <3> QED
      BY <3>1, <3>2
  <2>7. e = [i \in 0..(k + 1) |-> e[i]]
    BY <2>2
  <2>8. Solves(e, k + 1)
    BY <2>1, <2>3, <2>4, <2>6, <2>7
  <2> HIDE DEF Solves
  <2> QED
    BY <2>3, <2>8
<1>3. n \in S
  <2>1. n \in 0..n
    BY <1>0
  <2> HIDE DEF S
  <2> QED
    BY <1>0, <1>1, <1>2, <2>1, BoundedInduction
<1>4. PICK f : Solves(f, n)
  BY <1>3
<1>5. f = [i \in 0..Len(o) |-> IF i = 0 THEN << >> ELSE ApplyTxn(f[i - 1], g[o[i]].cmds)]
  <2>1. ASSUME NEW i \in 0..n
        PROVE  f[i] = IF i = 0 THEN << >> ELSE ApplyTxn(f[i - 1], g[o[i]].cmds)
    <3>1. i = 0 \/ i \in 1..n
      BY <1>0
    <3> QED
      BY <1>4, <3>1
  <2>2. f = [i \in 0..n |-> f[i]]
    BY <1>4
  <2> QED
    BY <1>0, <2>1, <2>2, Zenon
<1>6. PICK v : /\ v = [i \in 0..Len(o) |->
                         IF i = 0 THEN << >> ELSE ApplyTxn(v[i - 1], g[o[i]].cmds)]
               /\ Outcome(g, o) = v[Len(o)]
  BY <1>5, Zenon DEF Outcome
<1>7. \A i \in 0..n : v[i] = IF i = 0 THEN << >> ELSE ApplyTxn(v[i - 1], g[o[i]].cmds)
  BY <1>0, <1>6, Zenon
<1>8. 0 \in 0..n /\ \A i \in 1..n : i \in 0..n /\ i # 0
  BY <1>0
<1> QED
  BY <1>0, <1>6, <1>7, <1>8, Zenon

\* One more transaction is applied to where the others lead.
LEMMA OutcomeAppends ==
  ASSUME NEW g, NEW o \in Seq(Nodes), NEW m \in Nodes
  PROVE  /\ Outcome(g, Append(o, m)) = ApplyTxn(Outcome(g, o), g[m].cmds)
         /\ Outcome(g, << >>) = << >>
<1>1. PICK n, p : n = Len(o) /\ p = Append(o, m)
  OBVIOUS
<1>2. /\ n \in Nat /\ p \in Seq(Nodes) /\ Len(p) = n + 1 /\ p[n + 1] = m
      /\ \A i \in 1..n : p[i] = o[i]
  BY <1>1
<1>3. PICK v : /\ Outcome(g, o) = v[n]
               /\ v[0] = << >>
               /\ \A i \in 1..n : v[i] = ApplyTxn(v[i - 1], g[o[i]].cmds)
  BY <1>1, <1>2, OutcomeSteps
<1>4. PICK w : /\ Outcome(g, p) = w[n + 1]
               /\ w[0] = << >>
               /\ \A i \in 1..(n + 1) : w[i] = ApplyTxn(w[i - 1], g[p[i]].cmds)
  <2>1. PICK w : /\ Outcome(g, p) = w[Len(p)]
                 /\ w[0] = << >>
                 /\ \A i \in 1..Len(p) : w[i] = ApplyTxn(w[i - 1], g[p[i]].cmds)
    BY <1>2, OutcomeSteps
  <2> QED
    BY <1>2, <2>1
<1> DEFINE S == {i \in 0..n : v[i] = w[i]}
<1>5. 0 \in S
  BY <1>2, <1>3, <1>4
<1>6. ASSUME NEW i \in 0..(n - 1), i \in S PROVE i + 1 \in S
  <2>1. i + 1 \in 1..n /\ i + 1 \in 1..(n + 1) /\ (i + 1) - 1 = i /\ i + 1 \in 0..n
    BY <1>2
  <2>2. v[i + 1] = ApplyTxn(v[i], g[o[i + 1]].cmds)
    BY <1>3, <2>1
  <2>3. w[i + 1] = ApplyTxn(w[i], g[p[i + 1]].cmds)
    BY <1>4, <2>1
  <2>4. p[i + 1] = o[i + 1] /\ v[i] = w[i]
    BY <1>2, <1>6, <2>1
  <2> QED
    BY <2>1, <2>2, <2>3, <2>4
<1>7. n \in S
  <2>1. n \in 0..n
    BY <1>2
  <2> HIDE DEF S
  <2> QED
    BY <1>2, <1>5, <1>6, <2>1, BoundedInduction
<1>8. w[n + 1] = ApplyTxn(v[n], g[m].cmds)
  <2>1. n + 1 \in 1..(n + 1) /\ (n + 1) - 1 = n
    BY <1>2
  <2>2. w[n + 1] = ApplyTxn(w[n], g[p[n + 1]].cmds)
    BY <1>4, <2>1
  <2> QED
    BY <1>2, <1>7, <2>2
<1>9. Outcome(g, << >>) = << >>
  <2>1. PICK e : e = << >>
    OBVIOUS
  <2>2. e \in Seq(Nodes) /\ Len(e) = 0
    BY <2>1
  <2>3. PICK x : Outcome(g, e) = x[Len(e)] /\ x[0] = << >>
    BY <2>2, OutcomeSteps, Zenon
  <2> QED
    BY <2>1, <2>3
<1> QED
  BY <1>1, <1>3, <1>4, <1>8, <1>9

\* The calls, depth by depth.
LEMMA CallSteps ==
  ASSUME NEW g, NEW n \in Nat, n = Cardinality(Nodes)
  PROVE  \E v : /\ get_possible_results(g) = [i \in DOMAIN v[n] |-> v[n][i].state]
                /\ v[0] = <<FirstCall(g)>>
                /\ \A i \in 1..n : v[i] = Inner(g, v[i - 1])
<1> DEFINE Solves(f, k) ==
             /\ f = [i \in 0..k |-> f[i]]
             /\ f[0] = <<FirstCall(g)>>
             /\ \A i \in 1..k : f[i] = Inner(g, f[i - 1])
           S == {k \in 0..n : \E f : Solves(f, k)}
<1>1. 0 \in S
  <2>1. Solves([i \in 0..0 |-> <<FirstCall(g)>>], 0)
    OBVIOUS
  <2>2. 0 \in 0..n
    OBVIOUS
  <2> HIDE DEF Solves
  <2> QED
    BY <2>1, <2>2
<1>2. ASSUME NEW k \in 0..(n - 1), k \in S PROVE k + 1 \in S
  <2>1. PICK f : Solves(f, k)
    BY <1>2
  <2>2. PICK e : e = [i \in 0..(k + 1) |-> IF i = k + 1 THEN Inner(g, f[k]) ELSE f[i]]
    OBVIOUS
  <2>3. /\ k + 1 \in 0..n /\ k + 1 \in 0..(k + 1) /\ (k + 1) - 1 = k /\ 0 \in 0..k
        /\ \A i \in 0..k : i \in 0..(k + 1) /\ i # k + 1
        /\ \A i \in 1..(k + 1) : i = k + 1 \/ (i \in 1..k /\ i \in 0..k /\ i - 1 \in 0..k)
    OBVIOUS
  <2>4. e[k + 1] = Inner(g, f[k]) /\ \A i \in 0..k : e[i] = f[i]
    BY <2>2, <2>3
  <2>5. k \in 0..k
    OBVIOUS
  <2>6. ASSUME NEW i \in 1..(k + 1) PROVE e[i] = Inner(g, e[i - 1])
    <3>1. CASE i = k + 1
      BY <2>3, <2>4, <2>5, <3>1
    <3>2. CASE i # k + 1
      <4>1. i \in 1..k /\ i \in 0..k /\ i - 1 \in 0..k
        BY <2>3, <3>2
      <4>2. f[i] = Inner(g, f[i - 1])
        BY <2>1, <4>1
      <4> QED
        BY <2>4, <4>1, <4>2
    <3> QED
      BY <3>1, <3>2
  <2>7. e = [i \in 0..(k + 1) |-> e[i]]
    BY <2>2
  <2>8. Solves(e, k + 1)
    BY <2>1, <2>3, <2>4, <2>6, <2>7
  <2> HIDE DEF Solves
  <2> QED
    BY <2>3, <2>8
<1>3. n \in S
  <2>1. n \in 0..n
    OBVIOUS
  <2> HIDE DEF S
  <2> QED
    BY <1>1, <1>2, <2>1, BoundedInduction
<1>4. PICK f : Solves(f, n)
  BY <1>3
<1>5. f = [i \in 0..Cardinality(Nodes) |-> IF i = 0 THEN <<FirstCall(g)>> ELSE Inner(g, f[i - 1])]
  <2>1. ASSUME NEW i \in 0..n
        PROVE  f[i] = IF i = 0 THEN <<FirstCall(g)>> ELSE Inner(g, f[i - 1])
    <3>1. i = 0 \/ i \in 1..n
      OBVIOUS
    <3> QED
      BY <1>4, <3>1
  <2>2. f = [i \in 0..n |-> f[i]]
    BY <1>4
  <2> QED
    BY <2>1, <2>2, Zenon
<1>6. PICK v : /\ v = [i \in 0..Cardinality(Nodes) |->
                         IF i = 0 THEN <<FirstCall(g)>> ELSE Inner(g, v[i - 1])]
               /\ get_possible_results(g) = [i \in DOMAIN v[Cardinality(Nodes)] |->
                                               v[Cardinality(Nodes)][i].state]
  BY <1>5, Zenon DEF get_possible_results
<1>7. \A i \in 0..n : v[i] = IF i = 0 THEN <<FirstCall(g)>> ELSE Inner(g, v[i - 1])
  BY <1>6, Zenon
<1>8. 0 \in 0..n /\ \A i \in 1..n : i \in 0..n /\ i # 0
  OBVIOUS
<1> QED
  BY <1>6, <1>7, <1>8, Zenon

\* What SetToSeq, RemoveAt and a concatenation do to the elements of a queue.
LEMMA SomeOrder ==
  ASSUME NEW S \in SUBSET Nodes
  PROVE  SetToSeq(S) \in Seq(Nodes) /\ Range(SetToSeq(S)) = S /\ IsInjective(SetToSeq(S))
<1>1. IsFiniteSet(S) /\ Cardinality(S) \in Nat /\ ExistsBijection(1..Cardinality(S), S)
  BY GraphAssumption, FS_Subset, FS_CardinalityType DEF GraphAssumption
<1>2. PICK c : c = Cardinality(S)
  OBVIOUS
<1>3. \E f \in [1..c -> S] : IsInjective(f)
  BY <1>1, <1>2 DEF ExistsBijection, Bijection, Injection
<1>4. PICK f : f = SetToSeq(S)
  OBVIOUS
<1>5. f \in [1..c -> S] /\ IsInjective(f)
  BY <1>2, <1>3, <1>4 DEF SetToSeq
<1>6. f \in Injection(1..c, S) /\ IsFiniteSet(1..c) /\ Cardinality(1..c) = c
  BY <1>1, <1>2, <1>5, FS_Interval DEF Injection
<1>7. f \in Surjection(1..c, S)
  BY <1>1, <1>2, <1>6, FS_Injection
<1>8. Range(f) = S
  BY <1>5, <1>7 DEF Range, Surjection
<1>9. f \in Seq(Nodes)
  <2>1. f \in [1..c -> Nodes] /\ c \in Nat
    BY <1>1, <1>2, <1>5
  <2> QED
    BY <2>1
<1> QED
  BY <1>4, <1>5, <1>8, <1>9

LEMMA Removed ==
  ASSUME NEW s \in Seq(Nodes), IsInjective(s), NEW i \in DOMAIN s
  PROVE  /\ RemoveAt(s, i) \in Seq(Nodes) /\ IsInjective(RemoveAt(s, i))
         /\ Range(RemoveAt(s, i)) = Range(s) \ {s[i]}
<1>1. PICK n : n = Len(s)
  OBVIOUS
<1>2. n \in Nat /\ DOMAIN s = 1..n /\ i \in 1..n /\ \A x \in 1..n : s[x] \in Nodes
  BY <1>1
<1>3. PICK a, b, r : a = SubSeq(s, 1, i - 1) /\ b = SubSeq(s, i + 1, n) /\ r = a \o b
  OBVIOUS
<1>4. a \in Seq(Nodes) /\ Len(a) = i - 1 /\ \A x \in 1..(i - 1) : a[x] = s[x]
  BY <1>2, <1>3
<1>5. b \in Seq(Nodes) /\ Len(b) = n - i /\ \A x \in 1..(n - i) : b[x] = s[i + x]
  <2>1. /\ i + 1 \in Int /\ n \in Int
        /\ \A x \in (i + 1)..n : s[x] \in Nodes
    BY <1>2
  <2>2. /\ b \in Seq(Nodes) /\ Len(b) = IF i + 1 <= n THEN n - (i + 1) + 1 ELSE 0
        /\ \A x \in 1..(n - (i + 1) + 1) : b[x] = s[(i + 1) + x - 1]
    <3>1. PICK l : l = i + 1 /\ l \in Int
      BY <2>1
    <3>2. \A x \in l..n : s[x] \in Nodes
      BY <2>1, <3>1
    <3>3. /\ SubSeq(s, l, n) \in Seq(Nodes)
          /\ Len(SubSeq(s, l, n)) = IF l <= n THEN n - l + 1 ELSE 0
          /\ \A x \in 1..(n - l + 1) : SubSeq(s, l, n)[x] = s[l + x - 1]
      BY <2>1, <3>1, <3>2, SubSeqProperties
    <3> QED
      BY <1>3, <3>1, <3>3
  <2>3. n - (i + 1) + 1 = n - i /\ \A x \in 1..(n - i) : (i + 1) + x - 1 = i + x
    BY <1>2
  <2> QED
    BY <1>2, <2>2, <2>3
<1>6. /\ r \in Seq(Nodes) /\ Len(r) = n - 1 /\ DOMAIN r = 1..(n - 1)
      /\ \A x \in 1..(n - 1) : r[x] = IF x < i THEN s[x] ELSE s[x + 1]
  <2>1. /\ r \in Seq(Nodes) /\ Len(r) = Len(a) + Len(b)
        /\ \A x \in 1..(Len(a) + Len(b)) : r[x] = IF x <= Len(a) THEN a[x] ELSE b[x - Len(a)]
    <3>1. a \in Seq(Nodes) /\ b \in Seq(Nodes) /\ r = a \o b
      BY <1>3, <1>4, <1>5, Zenon
    <3> QED
      BY <3>1, ConcatProperties
  <2>2. Len(a) + Len(b) = n - 1
    BY <1>2, <1>4, <1>5
  <2>3. ASSUME NEW x \in 1..(n - 1) PROVE r[x] = IF x < i THEN s[x] ELSE s[x + 1]
    <3>1. CASE x < i
      <4>1. x \in 1..(i - 1) /\ x <= Len(a)
        BY <1>2, <1>4, <3>1
      <4> QED
        BY <1>4, <2>1, <2>2, <3>1, <4>1
    <3>2. CASE ~ (x < i)
      <4>1. x - Len(a) \in 1..(n - i) /\ ~ (x <= Len(a)) /\ i + (x - Len(a)) = x + 1
        BY <1>2, <1>4, <3>2
      <4> QED
        BY <1>5, <2>1, <2>2, <3>2, <4>1
    <3> QED
      BY <3>1, <3>2
  <2> QED
    BY <1>2, <2>1, <2>2, <2>3
<1>7. IsInjective(r)
  <2> SUFFICES ASSUME NEW x \in 1..(n - 1), NEW y \in 1..(n - 1), r[x] = r[y] PROVE x = y
    BY <1>6 DEF IsInjective
  <2>1. PICK p, q : /\ p = IF x < i THEN x ELSE x + 1
                    /\ q = IF y < i THEN y ELSE y + 1
    OBVIOUS
  <2>2. p \in 1..n /\ q \in 1..n
    BY <1>2, <2>1
  <2>3. s[p] = s[q]
    BY <1>6, <2>1
  <2>4. p = q
    BY <1>2, <2>2, <2>3 DEF IsInjective
  <2> QED
    BY <1>2, <2>1, <2>4
<1>8. Range(r) = Range(s) \ {s[i]}
  <2>1. ASSUME NEW x \in 1..(n - 1) PROVE r[x] \in Range(s) \ {s[i]}
    <3>1. PICK p : p = IF x < i THEN x ELSE x + 1
      OBVIOUS
    <3>2. p \in 1..n /\ p # i
      BY <1>2, <3>1
    <3>3. r[x] = s[p]
      BY <1>6, <3>1
    <3>4. s[p] # s[i] /\ s[p] \in Range(s)
      BY <1>2, <3>2 DEF IsInjective, Range
    <3> QED
      BY <3>3, <3>4
  <2>2. ASSUME NEW y \in 1..n, s[y] # s[i] PROVE \E x \in 1..(n - 1) : r[x] = s[y]
    <3>1. PICK x : x = IF y < i THEN y ELSE y - 1
      OBVIOUS
    <3>2. x \in 1..(n - 1) /\ (IF x < i THEN x ELSE x + 1) = y
      BY <1>2, <2>2, <3>1
    <3>3. r[x] = s[y]
      BY <1>6, <3>2
    <3> QED
      BY <3>2, <3>3
  <2>3. Range(r) \subseteq Range(s) \ {s[i]}
    BY <1>6, <2>1 DEF Range
  <2>4. ASSUME NEW z \in Range(s) \ {s[i]} PROVE z \in Range(r)
    <3>1. PICK y \in 1..n : z = s[y] /\ s[y] # s[i]
      BY <1>2, <2>4 DEF Range
    <3>2. PICK x \in 1..(n - 1) : r[x] = z
      BY <2>2, <3>1
    <3> QED
      BY <1>6, <3>2 DEF Range
  <2> QED
    BY <2>3, <2>4
<1> QED
  BY <1>1, <1>3, <1>6, <1>7, <1>8 DEF RemoveAt

LEMMA Chained ==
  ASSUME NEW a \in Seq(Nodes), NEW b \in Seq(Nodes), IsInjective(a), IsInjective(b),
         Range(a) \cap Range(b) = {}
  PROVE  /\ a \o b \in Seq(Nodes) /\ IsInjective(a \o b)
         /\ Range(a \o b) = Range(a) \cup Range(b)
<1>1. PICK l, k, c : l = Len(a) /\ k = Len(b) /\ c = a \o b
  OBVIOUS
<1>2. l \in Nat /\ k \in Nat /\ DOMAIN a = 1..l /\ DOMAIN b = 1..k
  BY <1>1
<1>3. /\ c \in Seq(Nodes) /\ DOMAIN c = 1..(l + k)
      /\ \A x \in 1..(l + k) : c[x] = IF x <= l THEN a[x] ELSE b[x - l]
  BY <1>1, <1>2, ConcatProperties
<1>4. \A x \in 1..(l + k) :
        /\ x <= l => x \in 1..l /\ c[x] = a[x] /\ c[x] \in Range(a)
        /\ ~ (x <= l) => x - l \in 1..k /\ c[x] = b[x - l] /\ c[x] \in Range(b)
  <2> SUFFICES ASSUME NEW x \in 1..(l + k)
               PROVE  /\ x <= l => x \in 1..l /\ c[x] = a[x] /\ c[x] \in Range(a)
                      /\ ~ (x <= l) => x - l \in 1..k /\ c[x] = b[x - l] /\ c[x] \in Range(b)
    OBVIOUS
  <2>1. (x <= l => x \in 1..l) /\ (~ (x <= l) => x - l \in 1..k)
    BY <1>2
  <2> QED
    BY <1>2, <1>3, <2>1 DEF Range
<1>5. IsInjective(c)
  <2> SUFFICES ASSUME NEW x \in 1..(l + k), NEW y \in 1..(l + k), c[x] = c[y] PROVE x = y
    BY <1>3 DEF IsInjective
  <2>1. CASE x <= l
    <3>1. y <= l
      BY <1>4, <2>1
    <3> QED
      BY <1>2, <1>4, <2>1, <3>1 DEF IsInjective
  <2>2. CASE ~ (x <= l)
    <3>1. ~ (y <= l)
      BY <1>4, <2>2
    <3>2. x - l = y - l
      BY <1>2, <1>4, <2>2, <3>1 DEF IsInjective
    <3> QED
      BY <1>2, <3>2
  <2> QED
    BY <2>1, <2>2
<1>6. Range(c) = Range(a) \cup Range(b)
  <2>1. \A x \in 1..l : x \in 1..(l + k) /\ c[x] = a[x]
    BY <1>2, <1>3
  <2>2. \A x \in 1..k : l + x \in 1..(l + k) /\ c[l + x] = b[x]
    <3> SUFFICES ASSUME NEW x \in 1..k PROVE l + x \in 1..(l + k) /\ c[l + x] = b[x]
      OBVIOUS
    <3>1. l + x \in 1..(l + k) /\ ~ (l + x <= l) /\ (l + x) - l = x
      BY <1>2
    <3> QED
      BY <1>3, <3>1
  <2>3. Range(c) \subseteq Range(a) \cup Range(b)
    BY <1>3, <1>4 DEF Range
  <2>4. Range(a) \subseteq Range(c) /\ Range(b) \subseteq Range(c)
    <3>1. ASSUME NEW z \in Range(a) PROVE z \in Range(c)
      <4>1. PICK x \in 1..l : z = a[x]
        BY <1>2, <3>1 DEF Range
      <4> QED
        BY <1>3, <2>1, <4>1 DEF Range
    <3>2. ASSUME NEW z \in Range(b) PROVE z \in Range(c)
      <4>1. PICK x \in 1..k : z = b[x]
        BY <1>2, <3>2 DEF Range
      <4> QED
        BY <1>3, <2>2, <4>1 DEF Range
    <3> QED
      BY <3>1, <3>2
  <2> QED
    BY <2>3, <2>4
<1> QED
  BY <1>1, <1>3, <1>5, <1>6

\* What a call stands for: the transactions of o have been executed in this
\* order, each after all that it depends upon.
Partials(g, k) ==
  {o \in [1..k -> Nodes] :
     /\ IsInjective(o)
     /\ \A j \in 1..k : \A d \in g[o[j]].deps : \E i \in 1..k : i < j /\ o[i] = d}

ReadyAfter(g, o) == {m \in Nodes \ Range(o) : g[m].deps \subseteq Range(o)}

CallType(g) ==
  [state : {Outcome(g, o) : o \in Seq(Nodes)}, ready : Seq(Nodes), own : SUBSET Edges(g)]

Stands(g, c, o) ==
  /\ c.state = Outcome(g, o)
  /\ c.own = {e \in Edges(g) : e[1] \notin Range(o)}
  /\ IsInjective(c.ready) /\ Range(c.ready) = ReadyAfter(g, o)

LEMMA PartialSeq ==
  ASSUME NEW g, NEW k \in Nat, NEW o \in Partials(g, k)
  PROVE  /\ o \in Seq(Nodes) /\ Len(o) = k /\ DOMAIN o = 1..k /\ IsInjective(o)
         /\ \A m \in Range(o) : g[m].deps \subseteq Range(o)
<1>1. o \in [1..k -> Nodes] /\ IsInjective(o)
  BY DEF Partials
<1>2. o \in Seq(Nodes) /\ Len(o) = k /\ DOMAIN o = 1..k
  BY <1>1
<1>3. ASSUME NEW m \in Range(o), NEW d \in g[m].deps PROVE d \in Range(o)
  <2>1. PICK j \in 1..k : m = o[j]
    BY <1>2, <1>3 DEF Range
  <2>2. PICK i \in 1..k : o[i] = d
    BY <1>3, <2>1 DEF Partials
  <2> QED
    BY <1>2, <2>2 DEF Range
<1> QED
  BY <1>1, <1>2, <1>3

LEMMA PartialAppends ==
  ASSUME NEW g, NEW k \in Nat, NEW o \in Partials(g, k), NEW m \in ReadyAfter(g, o)
  PROVE  /\ Append(o, m) \in Partials(g, k + 1)
         /\ Range(Append(o, m)) = Range(o) \cup {m}
<1>1. o \in Seq(Nodes) /\ Len(o) = k /\ DOMAIN o = 1..k /\ IsInjective(o)
  BY PartialSeq
<1>2. m \in Nodes /\ m \notin Range(o) /\ g[m].deps \subseteq Range(o)
  BY DEF ReadyAfter
<1>3. PICK p : p = Append(o, m)
  OBVIOUS
<1>4. p \in Seq(Nodes) /\ Range(p) = Range(o) \cup {m} /\ IsInjective(p)
  BY <1>1, <1>2, <1>3, Pushed
<1>5. /\ Len(p) = k + 1 /\ p[k + 1] = m /\ p \in [1..(k + 1) -> Nodes]
      /\ \A i \in 1..k : p[i] = o[i]
  <2>1. Len(p) = k + 1 /\ p[k + 1] = m /\ \A i \in 1..k : p[i] = o[i]
    BY <1>1, <1>2, <1>3
  <2>2. p \in [1..(k + 1) -> Nodes]
    BY <1>4, <2>1
  <2> QED
    BY <2>1, <2>2
<1>6. ASSUME NEW j \in 1..(k + 1), NEW d \in g[p[j]].deps
      PROVE  \E i \in 1..(k + 1) : i < j /\ p[i] = d
  <2>1. CASE j = k + 1
    <3>1. d \in Range(o)
      BY <1>2, <1>5, <1>6, <2>1
    <3>2. PICK i \in 1..k : o[i] = d
      BY <1>1, <3>1 DEF Range
    <3>3. i \in 1..(k + 1) /\ i < k + 1
      OBVIOUS
    <3> QED
      BY <1>5, <2>1, <3>2, <3>3
  <2>2. CASE j # k + 1
    <3>1. j \in 1..k
      BY <2>2
    <3>2. d \in g[o[j]].deps
      BY <1>5, <1>6, <3>1
    <3>3. PICK i \in 1..k : i < j /\ o[i] = d
      BY <3>1, <3>2 DEF Partials
    <3>4. i \in 1..(k + 1)
      OBVIOUS
    <3> QED
      BY <1>5, <3>3, <3>4
  <2> QED
    BY <2>1, <2>2
<1>7. p \in Partials(g, k + 1)
  BY <1>4, <1>5, <1>6 DEF Partials
<1> QED
  BY <1>3, <1>4, <1>7

\* A call that takes a node stands for one transaction more.
LEMMA TakenStands ==
  ASSUME NEW g \in Graphs, NEW k \in Nat, NEW o \in Partials(g, k),
         NEW c \in CallType(g), Stands(g, c, o), NEW i \in DOMAIN c.ready
  PROVE  /\ Taken(g, c, i) \in CallType(g)
         /\ Stands(g, Taken(g, c, i), Append(o, c.ready[i]))
<1>1. PICK n, p, t : n = c.ready[i] /\ p = Append(o, n) /\ t = Taken(g, c, i)
  OBVIOUS
<1>2. PICK W : W = {m \in Nodes : /\ <<n, m>> \in c.own
                                 /\ \A x \in Nodes : <<x, m>> \in c.own => x = n}
  OBVIOUS
<1>3. /\ t.state = ApplyTxn(c.state, g[n].cmds)
      /\ t.ready = RemoveAt(c.ready, i) \o SetToSeq(W)
      /\ t.own = {e \in c.own : e[1] # n}
      /\ t = [state |-> t.state, ready |-> t.ready, own |-> t.own]
  BY <1>1, <1>2 DEF Taken, Woken, Destroyed
<1>4. c.ready \in Seq(Nodes) /\ c.own \subseteq Edges(g)
  BY DEF CallType
<1>5. IsInjective(c.ready) /\ Range(c.ready) = ReadyAfter(g, o) /\ n \in ReadyAfter(g, o)
  BY <1>1 DEF Stands, Range
<1>6. n \in Nodes /\ n \notin Range(o) /\ g[n].deps \subseteq Range(o)
  BY <1>5 DEF ReadyAfter
<1>7. p \in Partials(g, k + 1) /\ Range(p) = Range(o) \cup {n}
  BY <1>1, <1>5, PartialAppends
<1>8. o \in Seq(Nodes) /\ p \in Seq(Nodes) /\ \A m \in Range(o) : g[m].deps \subseteq Range(o)
  BY <1>7, PartialSeq
<1>9. t.state = Outcome(g, p)
  <2>1. c.state = Outcome(g, o)
    BY DEF Stands
  <2> QED
    BY <1>1, <1>3, <1>6, <1>8, <2>1, OutcomeAppends
<1>10. t.own = {e \in Edges(g) : e[1] \notin Range(p)}
  <2>1. c.own = {e \in Edges(g) : e[1] \notin Range(o)}
    BY DEF Stands
  <2> QED
    BY <1>3, <1>7, <2>1
<1>11. \A m \in Nodes : g[m].deps \subseteq Nodes
  BY GraphAssumption DEF GraphAssumption
<1>12. \A x, m \in Nodes : <<x, m>> \in c.own <=> x \in g[m].deps /\ x \notin Range(o)
  <2>1. c.own = {e \in Edges(g) : e[1] \notin Range(o)}
    BY DEF Stands
  <2> QED
    BY <2>1 DEF Edges
<1>13. W = {m \in Nodes : n \in g[m].deps /\ g[m].deps \subseteq Range(o) \cup {n}}
  <2>1. ASSUME NEW m \in Nodes
        PROVE  (<<n, m>> \in c.own /\ \A x \in Nodes : <<x, m>> \in c.own => x = n)
                 <=> n \in g[m].deps /\ g[m].deps \subseteq Range(o) \cup {n}
    BY <1>6, <1>11, <1>12
  <2> QED
    BY <1>2, <2>1
<1>14. W \subseteq Nodes /\ ReadyAfter(g, o) \cap W = {}
  BY <1>6, <1>13 DEF ReadyAfter
<1>15. ReadyAfter(g, p) = (ReadyAfter(g, o) \ {n}) \cup W
  <2>1. ASSUME NEW m \in ReadyAfter(g, p) PROVE m \in (ReadyAfter(g, o) \ {n}) \cup W
    <3>1. m \in Nodes /\ m \notin Range(o) /\ m # n /\ g[m].deps \subseteq Range(o) \cup {n}
      BY <1>7, <2>1 DEF ReadyAfter
    <3>2. CASE n \in g[m].deps
      BY <1>13, <3>1, <3>2
    <3>3. CASE n \notin g[m].deps
      BY <3>1, <3>3 DEF ReadyAfter
    <3> QED
      BY <3>2, <3>3
  <2>2. ReadyAfter(g, o) \ {n} \subseteq ReadyAfter(g, p)
    BY <1>7 DEF ReadyAfter
  <2>3. ASSUME NEW m \in W PROVE m \in ReadyAfter(g, p)
    <3>1. m \in Nodes /\ n \in g[m].deps /\ g[m].deps \subseteq Range(p)
      BY <1>7, <1>13, <2>3
    <3>2. m \notin Range(o) /\ m # n
      BY <1>6, <1>8, <3>1
    <3> QED
      BY <1>7, <3>1, <3>2 DEF ReadyAfter
  <2> QED
    BY <2>1, <2>2, <2>3
<1>16. PICK a, b : a = RemoveAt(c.ready, i) /\ b = SetToSeq(W)
  OBVIOUS
<1>17. a \in Seq(Nodes) /\ IsInjective(a) /\ Range(a) = ReadyAfter(g, o) \ {n}
  BY <1>1, <1>4, <1>5, <1>16, Removed
<1>18. b \in Seq(Nodes) /\ IsInjective(b) /\ Range(b) = W
  BY <1>14, <1>16, SomeOrder
<1>19. Range(a) \cap Range(b) = {}
  BY <1>14, <1>17, <1>18
<1>20. t.ready \in Seq(Nodes) /\ IsInjective(t.ready) /\ Range(t.ready) = ReadyAfter(g, p)
  <2>1. a \o b \in Seq(Nodes) /\ IsInjective(a \o b) /\ Range(a \o b) = Range(a) \cup Range(b)
    BY <1>17, <1>18, <1>19, Chained
  <2> QED
    BY <1>3, <1>15, <1>16, <1>17, <1>18, <2>1
<1>21. t \in CallType(g)
  <2>1. t.state \in {Outcome(g, r) : r \in Seq(Nodes)} /\ t.own \in SUBSET Edges(g)
    BY <1>8, <1>9, <1>10
  <2> QED
    BY <1>3, <1>20, <2>1 DEF CallType
<1> QED
  BY <1>1, <1>9, <1>10, <1>20, <1>21 DEF Stands

\* The calls of one depth: one for every beginning of that length.
Lists(g, k, listed) ==
  /\ listed \in Seq(CallType(g))
  /\ \E T \in Bijection(1..Len(listed), Partials(g, k)) :
       \A x \in 1..Len(listed) : Stands(g, listed[x], T[x])

LEMMA ListsFirst == \A g \in Graphs : Lists(g, 0, <<FirstCall(g)>>)
<1> SUFFICES ASSUME NEW g \in Graphs PROVE Lists(g, 0, <<FirstCall(g)>>)
  OBVIOUS
<1>1. PICK e, c : e = << >> /\ c = FirstCall(g)
  OBVIOUS
<1>2. e \in Seq(Nodes) /\ Len(e) = 0 /\ Range(e) = {} /\ IsInjective(e) /\ e \in [1..0 -> Nodes]
  BY <1>1 DEF Range, IsInjective
<1>3. Partials(g, 0) = {e}
  <2>1. e \in Partials(g, 0)
    BY <1>2 DEF Partials
  <2>2. ASSUME NEW o \in Partials(g, 0) PROVE o = e
    <3>1. o \in Seq(Nodes) /\ Len(o) = 0
      BY PartialSeq
    <3> QED
      BY <1>1, <3>1
  <2> QED
    BY <2>1, <2>2
<1>4. Sources(g) \subseteq Nodes /\ ReadyAfter(g, e) = Sources(g)
  BY <1>2 DEF Sources, ReadyAfter
<1>5. /\ c.ready \in Seq(Nodes) /\ IsInjective(c.ready) /\ Range(c.ready) = ReadyAfter(g, e)
      /\ c.own = Edges(g) /\ c.state = << >>
      /\ c = [state |-> c.state, ready |-> c.ready, own |-> c.own]
  <2>1. /\ c.ready = SetToSeq(Sources(g)) /\ c.own = Edges(g) /\ c.state = << >>
        /\ c = [state |-> c.state, ready |-> c.ready, own |-> c.own]
    BY <1>1 DEF FirstCall
  <2>2. PICK r : r = SetToSeq(Sources(g))
    OBVIOUS
  <2>3. r \in Seq(Nodes) /\ IsInjective(r) /\ Range(r) = Sources(g)
    BY <1>4, <2>2, SomeOrder
  <2> QED
    BY <1>4, <2>1, <2>2, <2>3
<1>6. Outcome(g, e) = << >>
  <2>1. PICK m : m \in Nodes
    BY GraphAssumption DEF GraphAssumption
  <2> QED
    BY <1>1, <1>2, <2>1, OutcomeAppends
<1>7. c \in CallType(g)
  <2>1. c.state \in {Outcome(g, r) : r \in Seq(Nodes)} /\ c.own \in SUBSET Edges(g)
    BY <1>2, <1>5, <1>6
  <2> QED
    BY <1>5, <2>1 DEF CallType
<1>8. Stands(g, c, e)
  BY <1>2, <1>5, <1>6 DEF Stands
<1>9. PICK s, T : s = <<c>> /\ T = [x \in {1} |-> e]
  OBVIOUS
<1>10. s \in Seq(CallType(g)) /\ Len(s) = 1 /\ s[1] = c /\ 1..Len(s) = {1}
  BY <1>7, <1>9
<1>11. T \in Bijection(1..Len(s), Partials(g, 0))
  <2>1. T \in [{1} -> {e}] /\ T[1] = e
    BY <1>9
  <2>2. T \in Bijection({1}, {e})
    BY <2>1, OneToOne
  <2> QED
    BY <1>3, <1>10, <2>2
<1> QED
  BY <1>1, <1>8, <1>9, <1>10, <1>11 DEF Lists

\* Until all transactions have been executed, one of them is ready.
LEMMA SomeReady ==
  ASSUME NEW g \in Graphs, Acyclic(g), NEW k \in Nat, k < Cardinality(Nodes),
         NEW o \in Partials(g, k)
  PROVE  ReadyAfter(g, o) # {}
<1>1. o \in [1..k -> Nodes] /\ DOMAIN o = 1..k
  BY DEF Partials
<1>2. Nodes \ Range(o) # {}
  <2> SUFFICES ASSUME Nodes \subseteq Range(o) PROVE FALSE
    OBVIOUS
  <2>1. o \in Surjection(1..k, Nodes)
    BY <1>1 DEF Surjection, Range
  <2>2. IsFiniteSet(1..k) /\ Cardinality(1..k) = k
    BY FS_Interval
  <2>3. Cardinality(Nodes) <= Cardinality(1..k)
    BY <2>1, <2>2, FS_Surjection
  <2>4. Cardinality(Nodes) \in Nat
    BY GraphAssumption, FS_CardinalityType DEF GraphAssumption
  <2> QED
    BY <2>2, <2>3, <2>4
<1>3. PICK n \in Nodes \ Range(o) : g[n].deps \cap (Nodes \ Range(o)) = {}
  BY <1>2 DEF Acyclic
<1>4. g[n].deps \subseteq Range(o)
  BY <1>3, GraphAssumption DEF GraphAssumption
<1> QED
  BY <1>3, <1>4 DEF ReadyAfter

\* What a call does then: it takes each of the ready nodes first.
LEMMA CallsTaken ==
  ASSUME NEW g \in Graphs, NEW c \in CallType(g), Range(c.ready) # {}
  PROVE  CallsOf(g, c) = [i \in DOMAIN c.ready |-> Taken(g, c, i)]
<1>1. c.ready \in Seq(Nodes)
  BY DEF CallType
<1>2. PICK n : n = Len(c.ready) /\ n \in Nat /\ DOMAIN c.ready = 1..n /\ n # 0
  BY <1>1 DEF Range
<1>3. CASE n = 1
  <2>1. CallsOf(g, c) = <<Taken(g, c, 1)>>
    BY <1>2, <1>3 DEF CallsOf
  <2>2. PICK t : t = Taken(g, c, 1)
    OBVIOUS
  <2>3. <<t>> = [i \in 1..1 |-> t] /\ 1..1 = {1}
    OBVIOUS
  <2>4. [i \in 1..1 |-> t] = [i \in 1..1 |-> Taken(g, c, i)]
    BY <2>2, <2>3
  <2> QED
    BY <1>2, <1>3, <2>1, <2>2, <2>3, <2>4, Zenon
<1>4. CASE n # 1
  BY <1>2, <1>4 DEF CallsOf, TakenFirst
<1> QED
  BY <1>3, <1>4

\* One level deeper there is a call for every beginning that is longer by one.
LEMMA ListsNext ==
  ASSUME NEW g \in Graphs, Acyclic(g), NEW k \in Nat, k < Cardinality(Nodes),
         NEW listed, Lists(g, k, listed)
  PROVE  Lists(g, k + 1, Inner(g, listed))
<1>1. PICK n, P, Q, V : /\ n = Len(listed) /\ V = CallType(g)
                        /\ P = Partials(g, k) /\ Q = Partials(g, k + 1)
  OBVIOUS
<1>2. listed \in Seq(V) /\ n \in Nat /\ DOMAIN listed = 1..n /\ \A a \in 1..n : listed[a] \in V
  BY <1>1 DEF Lists
<1>3. PICK T : T \in Bijection(1..n, P) /\ \A a \in 1..n : Stands(g, listed[a], T[a])
  BY <1>1 DEF Lists
<1>4. /\ T \in [1..n -> P]
      /\ \A a, b \in 1..n : T[a] = T[b] => a = b
      /\ \A o \in P : \E a \in 1..n : T[a] = o
  <2>1. PICK E : E = 1..n
    OBVIOUS
  <2>2. T \in Bijection(E, P)
    BY <1>3, <2>1
  <2>3. /\ T \in [E -> P] /\ \A a, b \in E : T[a] = T[b] => a = b
        /\ \A o \in P : \E a \in E : T[a] = o
    BY <2>2, OneToOne
  <2> QED
    BY <2>1, <2>3
<1>5. PICK ss : ss = [a \in 1..n |-> CallsOf(g, listed[a])]
  OBVIOUS
<1>6. Inner(g, listed) = FlattenSeq(ss)
  BY <1>2, <1>5 DEF Inner
<1>7. PICK L : L = [a \in 1..n |-> Len(listed[a].ready)]
  OBVIOUS
<1>8. ASSUME NEW a \in 1..n
      PROVE  /\ L[a] \in Nat /\ DOMAIN listed[a].ready = 1..L[a]
             /\ Range(listed[a].ready) = ReadyAfter(g, T[a]) /\ IsInjective(listed[a].ready)
             /\ T[a] \in P
             /\ ss[a] = [i \in 1..L[a] |-> Taken(g, listed[a], i)]
  <2>1. listed[a].ready \in Seq(Nodes) /\ L[a] = Len(listed[a].ready)
    BY <1>1, <1>2, <1>7 DEF CallType
  <2>2. L[a] \in Nat /\ DOMAIN listed[a].ready = 1..L[a]
    BY <2>1
  <2>3. Range(listed[a].ready) = ReadyAfter(g, T[a]) /\ IsInjective(listed[a].ready)
    BY <1>3 DEF Stands
  <2>4. T[a] \in P /\ ReadyAfter(g, T[a]) # {}
    BY <1>1, <1>4, SomeReady
  <2>5. CallsOf(g, listed[a]) = [i \in DOMAIN listed[a].ready |-> Taken(g, listed[a], i)]
    BY <1>1, <1>2, <2>3, <2>4, CallsTaken
  <2> QED
    BY <1>5, <2>2, <2>3, <2>4, <2>5
<1>9. ASSUME NEW a \in 1..n, NEW i \in 1..L[a]
      PROVE  /\ ss[a][i] = Taken(g, listed[a], i) /\ ss[a][i] \in V
             /\ Stands(g, ss[a][i], Append(T[a], listed[a].ready[i]))
             /\ Append(T[a], listed[a].ready[i]) \in Q
             /\ listed[a].ready[i] \in ReadyAfter(g, T[a])
  <2>1. i \in DOMAIN listed[a].ready /\ T[a] \in Partials(g, k) /\ listed[a] \in CallType(g)
    BY <1>1, <1>2, <1>8
  <2>2. Stands(g, listed[a], T[a])
    BY <1>3
  <2>3. ss[a][i] = Taken(g, listed[a], i)
    BY <1>8
  <2>4. /\ Taken(g, listed[a], i) \in CallType(g)
        /\ Stands(g, Taken(g, listed[a], i), Append(T[a], listed[a].ready[i]))
    BY <2>1, <2>2, TakenStands
  <2>5. listed[a].ready[i] \in ReadyAfter(g, T[a])
    BY <1>8, <2>1 DEF Range
  <2>6. Append(T[a], listed[a].ready[i]) \in Q
    BY <1>1, <2>1, <2>5, PartialAppends
  <2> QED
    BY <1>1, <2>3, <2>4, <2>5, <2>6
<1>10. ASSUME NEW a \in 1..n PROVE ss[a] \in Seq(V) /\ Len(ss[a]) = L[a]
  <2>1. ss[a] = [i \in 1..L[a] |-> ss[a][i]] /\ L[a] \in Nat
    BY <1>8
  <2>2. ss[a] \in [1..L[a] -> V]
    BY <1>9, <2>1
  <2>3. Len(ss[a]) = L[a]
    BY <2>1, SomeSeq
  <2> QED
    BY <2>1, <2>2, <2>3
<1>11. PICK f : f = FlattenSeq(ss)
  OBVIOUS
<1>12. Flattens(f, ss, n, V)
  <2>1. ss = [a \in 1..n |-> ss[a]]
    BY <1>5
  <2> QED
    BY <1>2, <1>10, <1>11, <2>1, Flattened
<1>13. PICK D, R : D = 1..Len(f) /\ R = Places(ss, n)
  OBVIOUS
<1>14. PICK h : h \in Bijection(D, R) /\ \A x \in D : f[x] = ss[h[x][1]][h[x][2]]
  BY <1>12, <1>13 DEF Flattens
<1>15. /\ h \in [D -> R]
       /\ \A x, y \in D : h[x] = h[y] => x = y
       /\ \A r \in R : \E x \in D : h[x] = r
  BY <1>14, OneToOne
<1>16. /\ \A r \in R : r[1] \in 1..n /\ r[2] \in 1..L[r[1]] /\ r = <<r[1], r[2]>>
       /\ \A a \in 1..n : \A i \in 1..L[a] : <<a, i>> \in R
  <2>1. ASSUME NEW r \in R PROVE r[1] \in 1..n /\ r[2] \in 1..L[r[1]] /\ r = <<r[1], r[2]>>
    <3>1. r \in (1..n) \X Nat /\ r[2] \in 1..Len(ss[r[1]])
      BY <1>13, <2>1 DEF Places
    <3>2. r[1] \in 1..n /\ r = <<r[1], r[2]>>
      BY <3>1
    <3>3. Len(ss[r[1]]) = L[r[1]]
      BY <1>10, <3>2
    <3> QED
      BY <3>1, <3>2, <3>3
  <2>2. ASSUME NEW a \in 1..n, NEW i \in 1..L[a] PROVE <<a, i>> \in R
    <3>1. Len(ss[a]) = L[a] /\ i \in Nat
      BY <1>8, <1>10, <2>2
    <3>2. <<a, i>> \in (1..n) \X Nat /\ <<a, i>>[1] = a /\ <<a, i>>[2] = i
      BY <3>1
    <3> QED
      BY <1>13, <3>1, <3>2 DEF Places
  <2> QED
    BY <2>1, <2>2
<1>17. PICK U : U = [x \in D |-> Append(T[h[x][1]], listed[h[x][1]].ready[h[x][2]])]
  OBVIOUS
<1>18. ASSUME NEW x \in D
       PROVE  /\ h[x][1] \in 1..n /\ h[x][2] \in 1..L[h[x][1]]
              /\ h[x] = <<h[x][1], h[x][2]>>
              /\ U[x] = Append(T[h[x][1]], listed[h[x][1]].ready[h[x][2]])
  <2>1. h[x] \in R
    BY <1>15
  <2> QED
    BY <1>16, <1>17, <2>1
<1>19. \A x \in D : U[x] \in Q /\ Stands(g, f[x], U[x])
  BY <1>9, <1>14, <1>18
<1>20. ASSUME NEW x \in D, NEW y \in D, U[x] = U[y] PROVE x = y
  <2>1. PICK a, i, b, j : h[x] = <<a, i>> /\ h[y] = <<b, j>>
    BY <1>18
  <2>2. a \in 1..n /\ i \in 1..L[a] /\ b \in 1..n /\ j \in 1..L[b]
    BY <1>18, <2>1
  <2>3. PICK o, p, u, v : o = T[a] /\ p = T[b] /\ u = listed[a].ready[i] /\ v = listed[b].ready[j]
    OBVIOUS
  <2>4. Append(o, u) = Append(p, v)
    <3>1. h[x][1] = a /\ h[x][2] = i /\ h[y][1] = b /\ h[y][2] = j
      BY <2>1
    <3>2. U[x] = Append(T[a], listed[a].ready[i])
      BY <1>18, <3>1, Zenon
    <3>3. U[y] = Append(T[b], listed[b].ready[j])
      BY <1>18, <3>1, Zenon
    <3> QED
      BY <1>20, <2>3, <3>2, <3>3, Zenon
  <2>5. o \in Seq(Nodes) /\ p \in Seq(Nodes) /\ Len(o) = k /\ Len(p) = k
    BY <1>1, <1>8, <2>2, <2>3, PartialSeq
  <2>6. u \in Nodes /\ v \in Nodes
    BY <1>9, <2>2, <2>3 DEF ReadyAfter
  <2>7. o = p /\ u = v
    BY <2>4, <2>5, <2>6
  <2>8. a = b
    BY <1>4, <2>2, <2>3, <2>7
  <2>9. i = j
    <3>1. IsInjective(listed[a].ready) /\ DOMAIN listed[a].ready = 1..L[a]
      BY <1>8, <2>2
    <3>2. j \in 1..L[a] /\ listed[a].ready[i] = listed[a].ready[j]
      BY <2>2, <2>3, <2>7, <2>8
    <3> QED
      BY <2>2, <3>1, <3>2 DEF IsInjective
  <2> QED
    BY <1>15, <2>1, <2>8, <2>9
<1>21. ASSUME NEW p \in Q PROVE \E x \in D : U[x] = p
  <2>1. /\ p \in [1..(k + 1) -> Nodes] /\ p \in Seq(Nodes) /\ Len(p) = k + 1 /\ IsInjective(p)
        /\ DOMAIN p = 1..(k + 1)
    <3>1. p \in Partials(g, k + 1) /\ k + 1 \in Nat
      BY <1>1
    <3>2. p \in [1..(k + 1) -> Nodes]
      BY <3>1 DEF Partials
    <3> QED
      BY <3>1, <3>2, PartialSeq
  <2>2. PICK o, m : o = [i \in 1..k |-> p[i]] /\ m = p[k + 1]
    OBVIOUS
  <2>3. /\ o \in [1..k -> Nodes] /\ o \in Seq(Nodes) /\ Len(o) = k /\ DOMAIN o = 1..k
        /\ m \in Nodes /\ \A i \in 1..k : o[i] = p[i] /\ i \in 1..(k + 1)
    BY <2>1, <2>2
  <2>4. IsInjective(o) /\ m \notin Range(o)
    BY <2>1, <2>2, <2>3 DEF IsInjective, Range
  <2>5. ASSUME NEW j \in 1..(k + 1), NEW d \in g[p[j]].deps
        PROVE  \E i \in 1..k : i < j /\ p[i] = d
    <3>1. PICK i \in 1..(k + 1) : i < j /\ p[i] = d
      BY <1>1, <2>5 DEF Partials
    <3> QED
      BY <3>1
  <2>6. o \in P
    <3>1. ASSUME NEW j \in 1..k, NEW d \in g[o[j]].deps PROVE \E i \in 1..k : i < j /\ o[i] = d
      <4>1. j \in 1..(k + 1) /\ o[j] = p[j]
        BY <2>3
      <4>2. PICK i \in 1..k : i < j /\ p[i] = d
        BY <2>5, <3>1, <4>1
      <4> QED
        BY <2>3, <4>2
    <3>2. o \in Partials(g, k)
      BY <2>3, <2>4, <3>1 DEF Partials
    <3> QED
      BY <1>1, <3>2
  <2>7. m \in ReadyAfter(g, o)
    <3>1. ASSUME NEW d \in g[m].deps PROVE d \in Range(o)
      BY <2>2, <2>3, <2>5, <3>1 DEF Range
    <3> QED
      BY <2>3, <2>4, <3>1 DEF ReadyAfter
  <2>8. PICK a \in 1..n : T[a] = o
    BY <1>4, <2>6
  <2>9. PICK i \in 1..L[a] : listed[a].ready[i] = m
    <3>1. Range(listed[a].ready) = ReadyAfter(g, o) /\ DOMAIN listed[a].ready = 1..L[a]
      BY <1>8, <2>8
    <3>2. m \in Range(listed[a].ready)
      BY <2>7, <3>1, Zenon
    <3> QED
      BY <3>1, <3>2 DEF Range
  <2>10. PICK x \in D : h[x] = <<a, i>>
    BY <1>15, <1>16
  <2>11. U[x] = Append(o, m)
    <3>1. h[x][1] = a /\ h[x][2] = i
      BY <2>10
    <3>2. U[x] = Append(T[a], listed[a].ready[i])
      BY <1>18, <3>1, Zenon
    <3> QED
      BY <2>8, <2>9, <3>2, Zenon
  <2>12. Append(o, m) = p
    BY <2>1, <2>2, <2>3
  <2> QED
    BY <2>11, <2>12
<1>22. U \in Bijection(D, Q)
  <2>1. U \in [D -> Q]
    BY <1>17, <1>19
  <2> QED
    BY <1>20, <1>21, <2>1, OneToOne
<1>23. f \in Seq(V)
  BY <1>12 DEF Flattens
<1> QED
  BY <1>1, <1>6, <1>11, <1>13, <1>19, <1>22, <1>23 DEF Lists

\* The beginnings of full length are the orders that respect the dependencies.
LEMMA SerialAreFull ==
  ASSUME NEW g \in Graphs
  PROVE  SerialOrders(g) = Partials(g, Cardinality(Nodes))
<1>1. PICK n : n = Cardinality(Nodes)
  OBVIOUS
<1>2. n \in Nat /\ IsFiniteSet(Nodes) /\ IsFiniteSet(1..n) /\ Cardinality(1..n) = n
  BY <1>1, GraphAssumption, FS_CardinalityType, FS_Interval DEF GraphAssumption
<1>3. \A m \in Nodes : g[m].deps \subseteq Nodes
  BY GraphAssumption DEF GraphAssumption
<1>4. ASSUME NEW o \in SerialOrders(g) PROVE o \in Partials(g, n)
  <2>1. o \in Orders(Nodes) /\ \A i, j \in DOMAIN o : o[i] \in g[o[j]].deps => i < j
    BY <1>4 DEF SerialOrders
  <2>2. o \in [1..n -> Nodes] /\ DOMAIN o = 1..n
    BY <1>1, <2>1 DEF Orders
  <2>3. Range(o) = Nodes /\ IsInjective(o)
    BY <2>1, OrdersInjective
  <2>4. ASSUME NEW j \in 1..n, NEW d \in g[o[j]].deps PROVE \E i \in 1..n : i < j /\ o[i] = d
    <3>1. d \in Range(o)
      BY <1>3, <2>2, <2>3, <2>4
    <3>2. PICK i \in 1..n : o[i] = d
      BY <2>2, <3>1 DEF Range
    <3> QED
      BY <2>1, <2>2, <2>4, <3>2
  <2> QED
    BY <2>2, <2>3, <2>4 DEF Partials
<1>5. ASSUME NEW o \in Partials(g, n) PROVE o \in SerialOrders(g)
  <2>1. o \in [1..n -> Nodes] /\ DOMAIN o = 1..n /\ IsInjective(o)
    BY <1>5 DEF Partials
  <2>2. o \in Injection(1..n, Nodes)
    BY <2>1 DEF Injection
  <2>3. o \in Surjection(1..n, Nodes)
    BY <1>1, <1>2, <2>2, FS_Injection
  <2>4. Range(o) = Nodes
    BY <2>1, <2>3 DEF Range, Surjection
  <2>5. o \in Orders(Nodes)
    BY <1>1, <2>1, <2>4 DEF Orders
  <2>6. ASSUME NEW i \in 1..n, NEW j \in 1..n, o[i] \in g[o[j]].deps PROVE i < j
    <3>1. PICK l \in 1..n : l < j /\ o[l] = o[i]
      BY <1>5, <2>6 DEF Partials
    <3>2. l = i
      BY <2>1, <3>1 DEF IsInjective
    <3> QED
      BY <3>1, <3>2
  <2> QED
    BY <2>1, <2>5, <2>6 DEF SerialOrders
<1> QED
  BY <1>1, <1>4, <1>5

\* get_possible_results has one result for every order, the one it leads to.
LEMMA ListedResults ==
  ASSUME NEW g \in Graphs, Acyclic(g)
  PROVE  LET results == get_possible_results(g)
         IN /\ Range(results) = {Outcome(g, o) : o \in SerialOrders(g)}
            /\ Len(results) = Cardinality(SerialOrders(g))
<1>1. PICK n : n = Cardinality(Nodes)
  OBVIOUS
<1>2. n \in Nat
  BY <1>1, GraphAssumption, FS_CardinalityType DEF GraphAssumption
<1>3. PICK v : /\ get_possible_results(g) = [i \in DOMAIN v[n] |-> v[n][i].state]
               /\ v[0] = <<FirstCall(g)>>
               /\ \A i \in 1..n : v[i] = Inner(g, v[i - 1])
  BY <1>1, <1>2, CallSteps
<1> DEFINE S == {k \in 0..n : Lists(g, k, v[k])}
<1>4. 0 \in S
  <2>1. Lists(g, 0, v[0])
    BY <1>3, ListsFirst, Zenon
  <2>2. 0 \in 0..n
    BY <1>2
  <2> QED
    BY <2>1, <2>2
<1>5. ASSUME NEW k \in 0..(n - 1), k \in S PROVE k + 1 \in S
  <2>1. k \in Nat /\ k < Cardinality(Nodes) /\ k + 1 \in 1..n /\ k + 1 \in 0..n /\ (k + 1) - 1 = k
    BY <1>1, <1>2
  <2>2. Lists(g, k + 1, Inner(g, v[k]))
    BY <1>5, <2>1, ListsNext
  <2>3. v[k + 1] = Inner(g, v[k])
    BY <1>3, <2>1
  <2> QED
    BY <2>1, <2>2, <2>3
<1>6. n \in S
  <2>1. n \in 0..n
    BY <1>2
  <2> HIDE DEF S
  <2> QED
    BY <1>2, <1>4, <1>5, <2>1, BoundedInduction
<1>7. PICK last, D, P : last = v[n] /\ D = 1..Len(last) /\ P = SerialOrders(g)
  OBVIOUS
<1>8. P = Partials(g, n)
  BY <1>1, <1>7, SerialAreFull
<1>9. Lists(g, n, last)
  BY <1>6, <1>7
<1>10. last \in Seq(CallType(g)) /\ Len(last) \in Nat /\ DOMAIN last = D
  BY <1>7, <1>9 DEF Lists
<1>11. PICK T : T \in Bijection(D, P) /\ \A x \in D : Stands(g, last[x], T[x])
  BY <1>7, <1>8, <1>9 DEF Lists
<1>12. /\ T \in [D -> P]
       /\ \A o \in P : \E x \in D : T[x] = o
  BY <1>11, OneToOne
<1>13. PICK results : results = get_possible_results(g)
  OBVIOUS
<1>14. results = [x \in D |-> last[x].state]
  BY <1>3, <1>7, <1>10, <1>13
<1>15. \A x \in D : results[x] = Outcome(g, T[x])
  BY <1>11, <1>14 DEF Stands
<1>16. Len(results) = Len(last)
  <2>1. results = [x \in 1..Len(last) |-> results[x]]
    BY <1>7, <1>14
  <2> QED
    BY <1>10, <2>1, SomeSeq
<1>17. Cardinality(P) = Len(last)
  <2>1. ExistsBijection(1..Len(last), P)
    BY <1>7, <1>11 DEF ExistsBijection
  <2> QED
    BY <1>10, <2>1, FS_CountingElements
<1>18. Range(results) = {Outcome(g, o) : o \in P}
  <2>1. DOMAIN results = D
    BY <1>14
  <2>2. ASSUME NEW z \in Range(results) PROVE z \in {Outcome(g, o) : o \in P}
    <3>1. PICK x \in D : z = results[x]
      BY <2>1, <2>2 DEF Range
    <3>2. z = Outcome(g, T[x]) /\ T[x] \in P
      BY <1>12, <1>15, <3>1
    <3> QED
      BY <3>2
  <2>3. ASSUME NEW o \in P PROVE Outcome(g, o) \in Range(results)
    <3>1. PICK x \in D : T[x] = o
      BY <1>12
    <3>2. results[x] = Outcome(g, o)
      BY <1>15, <3>1
    <3> QED
      BY <2>1, <3>2 DEF Range
  <2> QED
    BY <2>2, <2>3
<1> QED
  BY <1>7, <1>13, <1>16, <1>17, <1>18

\* What the workers have applied so far is such a beginning, and the state is
\* where it leads.
AppliedInv ==
  /\ applied \in Partials(graph, Len(applied))
  /\ state = Outcome(graph, applied)

LEMMA AppliedInit == GraphInit => AppliedInv
<1> SUFFICES ASSUME GraphInit PROVE AppliedInv
  OBVIOUS
<1>1. PICK g, e : g = graph /\ e = << >>
  OBVIOUS
<1>2. applied = e /\ state = << >> /\ g \in Graphs
  BY <1>1 DEF GraphInit
<1>3. e \in Seq(Nodes) /\ Len(e) = 0 /\ e \in [1..0 -> Nodes] /\ IsInjective(e)
  BY <1>1 DEF IsInjective
<1>4. e \in Partials(g, 0)
  BY <1>3 DEF Partials
<1>5. Outcome(g, e) = << >>
  <2>1. PICK m : m \in Nodes
    BY GraphAssumption DEF GraphAssumption
  <2> QED
    BY <1>1, <1>3, <2>1, OutcomeAppends
<1> QED
  BY <1>1, <1>2, <1>3, <1>4, <1>5 DEF AppliedInv

LEMMA AppliedStep == GraphInv /\ AppliedInv /\ [GraphNext]_graphVars => AppliedInv'
<1> SUFFICES ASSUME GraphInv, AppliedInv, [GraphNext]_graphVars PROVE AppliedInv'
  OBVIOUS
<1>1. CASE UNCHANGED <<graph, applied, state>>
  BY <1>1 DEF AppliedInv
<1>2. ASSUME NEW w \in Workers, Execute(w) PROVE AppliedInv'
  <2>1. PICK g, o, s, n : g = graph /\ o = applied /\ s = state /\ n = node[w]
    OBVIOUS
  <2>2. /\ wpc[w] = "run" /\ graph' = g
        /\ applied' = Append(o, n) /\ state' = ApplyTxn(s, g[n].cmds)
    BY <1>2, <2>1 DEF Execute
  <2>3. g \in Graphs /\ o \in Seq(Nodes) /\ n \in Nodes /\ Len(o) \in Nat
    BY <2>1 DEF GraphInv, GraphTypes
  <2>4. n \in ReadyAfter(g, o)
    <3>1. n \notin Range(o)
      BY <2>1, <2>2 DEF GraphInv, OnePlace
    <3>2. g[n].deps \subseteq Range(o)
      <4>1. Running(n)
        BY <2>1, <2>2 DEF Running
      <4> QED
        BY <2>1, <2>3, <4>1, DepsOfReady DEF DependenciesFirst
    <3> QED
      BY <2>3, <3>1, <3>2 DEF ReadyAfter
  <2>5. o \in Partials(g, Len(o)) /\ s = Outcome(g, o)
    BY <2>1 DEF AppliedInv
  <2>6. Append(o, n) \in Partials(g, Len(o) + 1)
    BY <2>3, <2>4, <2>5, PartialAppends
  <2>7. Len(Append(o, n)) = Len(o) + 1
    BY <2>3
  <2>8. Outcome(g, Append(o, n)) = ApplyTxn(s, g[n].cmds)
    BY <2>3, <2>5, OutcomeAppends
  <2> QED
    BY <2>2, <2>6, <2>7, <2>8 DEF AppliedInv
<1>3. ASSUME NEW w \in Workers, Work(w) \/ WakeSpuriously(w), ~ Execute(w)
      PROVE  UNCHANGED <<graph, applied, state>>
  BY <1>3 DEF Work, GetReady, Pop, PopNothing, ReleaseLast, ReleaseShared, Dropped, WakeSpuriously
<1> QED
  BY <1>1, <1>2, <1>3 DEF GraphNext, graphVars

\* A trace whose transactions have all been applied has no circle.
LEMMA AppliedAcyclic ==
  ASSUME NEW g \in Graphs, NEW k \in Nat, NEW o \in Partials(g, k), Range(o) = Nodes
  PROVE  Acyclic(g)
<1> SUFFICES ASSUME NEW S \in SUBSET Nodes, S # {} PROVE \E n \in S : g[n].deps \cap S = {}
  BY DEF Acyclic
<1>1. o \in [1..k -> Nodes] /\ DOMAIN o = 1..k
  BY DEF Partials
<1>2. PICK I : I = {i \in 1..k : o[i] \in S}
  OBVIOUS
<1>3. I \subseteq Nat /\ I # {}
  BY <1>1, <1>2 DEF Range
<1>4. PICK j \in I : \A i \in I : j <= i
  BY <1>3, LeastNatural
<1>5. j \in 1..k /\ o[j] \in S
  BY <1>2
<1>6. ASSUME NEW d \in g[o[j]].deps PROVE d \notin S
  <2>1. PICK i \in 1..k : i < j /\ o[i] = d
    BY <1>5, <1>6 DEF Partials
  <2> QED
    BY <1>2, <1>4, <1>5, <2>1
<1> QED
  BY <1>5, <1>6

\* When all are applied, the state is a result that the verifier accepts.
LEMMA AppliedListed == GraphInv /\ AppliedInv => FinalStateListed
<1> SUFFICES ASSUME GraphInv, AppliedInv, Range(applied) = Nodes
             PROVE  state \in Range(get_possible_results(graph))
  BY DEF FinalStateListed
<1>1. PICK g, o, k, n : g = graph /\ o = applied /\ k = Len(applied) /\ n = Cardinality(Nodes)
  OBVIOUS
<1>2. g \in Graphs /\ o \in Seq(Nodes) /\ k \in Nat /\ k = Len(o)
  BY <1>1 DEF GraphInv, GraphTypes
<1>3. o \in Partials(g, k) /\ state = Outcome(g, o) /\ Range(o) = Nodes
  BY <1>1 DEF AppliedInv
<1>4. Acyclic(g)
  BY <1>2, <1>3, AppliedAcyclic
<1>5. k = n
  <2>1. o \in [1..k -> Nodes] /\ IsInjective(o)
    BY <1>3 DEF Partials
  <2>2. o \in Bijection(1..k, Nodes)
    BY <1>3, <2>1 DEF Bijection, Injection, Surjection, Range
  <2>3. ExistsBijection(1..k, Nodes)
    BY <2>2 DEF ExistsBijection
  <2> QED
    BY <1>1, <1>2, <2>3, FS_CountingElements
<1>6. o \in SerialOrders(g)
  BY <1>1, <1>2, <1>3, <1>5, SerialAreFull
<1>7. Range(get_possible_results(g)) = {Outcome(g, r) : r \in SerialOrders(g)}
  BY <1>2, <1>4, ListedResults
<1> QED
  BY <1>1, <1>3, <1>6, <1>7

\* get_possible_results: the recursion over copies of a graph, whose
\* transactions do not wait for each other in a circle, lists where every order
\* that respects the dependencies leads, and each of these orders once.
THEOREM ResultsAreComplete ==
  ASSUME AcyclicGraphs
  PROVE  GraphSpec => []ResultsComplete
<1>1. GraphInv => ResultsComplete
  <2> SUFFICES ASSUME GraphInv PROVE ResultsComplete
    OBVIOUS
  <2>1. graph \in Graphs
    BY DEF GraphInv, GraphTypes
  <2>2. Acyclic(graph)
    BY <2>1 DEF AcyclicGraphs
  <2> QED
    BY <2>1, <2>2, ListedResults DEF ResultsComplete
<1> QED
  BY <1>1, GraphInductive, PTL

\* get_ready, ~Node, do_work: whichever workers take the transactions, and in
\* whatever order they destroy them, the state they end in is one of the results
\* that get_possible_results lists for the verifier.
THEOREM FinalStatesAreListed == GraphSpec => []FinalStateListed
<1>1. GraphInv /\ AppliedInv => FinalStateListed
  BY AppliedListed
<1>2. GraphInv /\ AppliedInv /\ [GraphNext]_graphVars => AppliedInv'
  BY AppliedStep
<1> QED
  BY <1>1, <1>2, GraphInductive, AppliedInit, PTL DEF GraphSpec

=============================================================================
