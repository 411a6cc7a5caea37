--------------------------- MODULE MCReplicatedKV ---------------------------
(* Instances of the replicated store for TLC.  Server 0 leads, as in the   *)
(* example of the README.                                                  *)
EXTENDS ReplicatedKV, TLC

CONSTANTS a, b

Put(n, k, v) == [type |-> "PUT", node |-> n, key |-> k, value |-> v]
Read(n, t, k) == [type |-> t, node |-> n, key |-> k, value |-> None]

\* Two values of one key, so that the order of PUTs shows in the databases.
WriteOps == {Put(0, 1, a), Put(0, 1, b)}

OneWrite == {Put(0, 1, a)}

\* Reads of the leader that its PUTs race with.
LeaderOps == WriteOps \cup {Read(0, "GET", 1)}

\* What a follower is asked as well: only DIRECT_GET is served there.
AllOps == WriteOps \cup {Read(1, "DIRECT_GET", 1), Read(1, "GET", 1), Put(1, 1, a)}

\* While the mesh forms, one call that a follower discards stands for both.
MeshOps == AllOps \ {Read(1, "GET", 1)}

\* Clients differ in nothing but their operation.
Symmetry == Permutations(Clients)
=============================================================================
