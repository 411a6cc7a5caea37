---------------------------- MODULE MCSmallParts ----------------------------
(* Instances of the small programs and libraries for TLC. *)
EXTENDS SmallParts

CONSTANTS
  x1, x2,       \* transactions
  u1, u2, u3,   \* clients of the counter
  txt,          \* a value that is not a number
  t1, t2        \* threads of the server's pool

\* One transaction can put two keys and commit while the other reads and commits.
Calls == [t \in Txs |-> IF t = x1 THEN 4 ELSE 2]

\* Two shapes of a trace of four transactions: two layers, and a diamond.
\* The outcome depends on the order in which the layers are applied.
Cmd(op, k, v) == [op |-> op, key |-> k, value |-> v]
Cmds == << <<Cmd("set", 1, 2)>>, <<Cmd("put", 2, txt), Cmd("set", 2, 3)>>,
           <<Cmd("add", 1, 1), Cmd("nand", 1, 1)>>,
           <<Cmd("mult", 1, 1), Cmd("not", 1, 1), Cmd("commit", 1, 1)>> >>
Shapes == { << {}, {}, {1, 2}, {1, 2} >>, << {}, {1}, {1}, {2, 3} >> }
FourNodes == {[n \in 1..4 |-> [deps |-> shape[n], cmds |-> Cmds[n]]] : shape \in Shapes}

\* Messages of no, one and two bytes; the longest frame is longer than a header.
ShortMessages == {<<>>, <<1>>, <<0, 1>>}

\* The sums of these clients leave the range of the counter.
Workloads ==
  [u \in Users |-> CASE u = u1 -> [num_messages |-> 1, add |-> 3, sub |-> 1]
                     [] u = u2 -> [num_messages |-> 2, add |-> 3, sub |-> 1]
                     [] u = u3 -> [num_messages |-> 3, add |-> 2, sub |-> 1]]

\* A pool that two clients race for, one that a single client can exhaust, one that
\* is served twice as many requests, and a client alone that reaches the end of its trace.
OpPut(k) == [type |-> "PUT", key |-> k]
OpGet(k) == [type |-> "GET", key |-> k]
BenchSetups == {
  [pool |-> {t1, t2}, nb_clients |-> 2, nb_messages |-> 1, traces |-> <<OpPut(7), OpPut(0)>>],
  [pool |-> {t1}, nb_clients |-> 2, nb_messages |-> 2, traces |-> <<OpPut(7), OpPut(0)>>],
  [pool |-> {t1}, nb_clients |-> 3, nb_messages |-> 1,
   traces |-> <<OpPut(7), OpPut(0), OpGet(7)>>],
  [pool |-> {t1}, nb_clients |-> 1, nb_messages |-> 2, traces |-> <<OpPut(7), OpGet(7)>>] }

=============================================================================
