---------------------------- MODULE MCShardedKV -----------------------------
(* Instances of the sharded store for TLC. *)
EXTENDS ShardedKV, TLC

CONSTANTS s1, s2, s3, a, b

Put(k, v) == [type |-> "PUT", key |-> k, value |-> v, direct |-> FALSE]
Get(k) == [type |-> "GET", key |-> k, value |-> Empty, direct |-> FALSE]

\* Membership the behaviour begins with.
Nobody == <<>>
One == <<s1>>
Two == <<s1, s2>>
Three == <<s1, s2, s3>>

\* 2 moves to the third server when it joins, 1 stays on the second one.
TwoKeys == {1, 2}
RebalanceOps == {Put(1, a), Put(2, a), Get(1), Get(2)}

\* Clients differ in nothing but their operation.
Symmetry == Permutations(Clients)

\* Two writers of one key can be told apart by their values.
AtomicOps == {Put(1, a), Put(1, b), Get(1), Put(2, a)}

OneKey == {1}
OneKeyOps == {Put(1, a), Get(1)}

\* The edges of the remainder and of the wire: once there are two servers a
\* key of -1 has no shard, and the zero byte of key 0 hides what follows it.
EdgeKeys == {-1, 0, 1}
EdgeOps == {Put(1, a), Put(0, a), Get(-1)}

\* A key of the third server, written twice.
MovingKey == {2}
OverwriteOps == {Put(2, a), Put(2, b)}
=============================================================================
