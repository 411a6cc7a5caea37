------------------------------ MODULE TxnGraph ------------------------------
(* The transaction graph of load_txn.h, as worker threads consume it: take a  *)
(* ready node, apply its commands, destroy the node.  A node is owned by the  *)
(* nodes that precede it (shared_ptr in their vector next); the destructor of *)
(* a node that lost its last owner puts its contents into the ready queue.    *)
EXTENDS Integers, Sequences, FiniteSets, Functions, Folds

CONSTANTS
  Nodes,      \* the transactions of a trace, by id
  Graphs,     \* the traces: [Nodes -> [deps : SUBSET Nodes, cmds : Seq(command)]]
  Workers,
  Text,       \* values that do not begin with a decimal number
  OpHalf      \* an OpValue is one of -OpHalf .. OpHalf - 1 (2^63)

ASSUME GraphAssumption ==
  /\ OpHalf \in Nat \ {0}
  /\ IsFiniteSet(Nodes) /\ Nodes # {}
  /\ \A g \in Graphs : \A n \in Nodes : g[n].deps \subseteq Nodes

VARIABLES
  graph,            \* the trace that was parsed
  edges,            \* <<n, m>>: node n still owns node m
  ready_nodes,      \* the deque of nodes without an owner
  remaining_nodes,  \* the counter that get_ready decrements
  wpc,              \* where a worker is
  node,             \* the node it holds, once it has taken one
  state,            \* the key-value state the workers share
  applied           \* history: the nodes in the order they were applied

graphVars == <<graph, edges, ready_nodes, remaining_nodes, wpc, node, state, applied>>

\* The orders in which a hash table may give its elements.
Orders(S) == {s \in [1..Cardinality(S) -> S] : Range(s) = S}

\* parse_txn_trace turns depends_on around; when it returns, its map of the
\* nodes is destroyed, and nodes that depend on nothing become ready.
Edges(g) == {e \in Nodes \X Nodes : e[1] \in g[e[2]].deps}
Sources(g) == {n \in Nodes : g[n].deps = {}}

GraphTypeOK ==
  /\ graph \in Graphs
  /\ edges \subseteq Nodes \X Nodes
  /\ ready_nodes \in Seq(Nodes)
  /\ remaining_nodes \in 0..Cardinality(Nodes)
  /\ wpc \in [Workers -> {"ready", "waiting", "woken", "run", "drop", "done"}]
  /\ node \in [Workers -> Nodes]
  /\ applied \in Seq(Nodes)

GraphInit ==
  /\ graph \in Graphs
  /\ edges = Edges(graph)
  /\ ready_nodes \in Orders(Sources(graph))
  /\ remaining_nodes = Cardinality(Nodes)
  /\ wpc = [w \in Workers |-> "ready"]
  /\ node = [w \in Workers |-> CHOOSE n \in Nodes : TRUE]
  /\ state = << >>
  /\ applied = << >>

------------------------------------------------------------------------------
\* convert_key_to_int copies the key over its own argument and returns the 0
\* that its result was initialised with.
convert_key_to_int(key) == 0

Assign(s, k, v) == [x \in DOMAIN s \cup {k} |-> IF x = k THEN v ELSE s[x]]

\* Overflow is undefined; the arithmetic of the build wraps.
Wrapped(x) == ((x + OpHalf) % (2 * OpHalf)) - OpHalf

\* Division truncates.  By zero it traps, for which there is no value.
Quotient(x, y) ==
  LET abs(z) == IF z < 0 THEN -z ELSE z
      q == abs(x) \div abs(y)
  IN IF (x < 0) = (y < 0) THEN q ELSE -q

\* An OpValue copied into a uint_least64_t, and what ~ makes of one.
Unsigned(x) == x % (2 * OpHalf)
Flipped(u) == 2 * OpHalf - 1 - u

\* The bits that two numbers have in common.
BitAnd[x \in Nat, y \in Nat] ==
  IF x = 0 THEN 0 ELSE 2 * BitAnd[x \div 2, y \div 2] + (x % 2) * (y % 2)

Arithmetic == {"add", "sub", "mult", "div", "mod"}
BitOperations == {"and", "or", "xor", "nand", "nor"}

Computed(op, x, y) ==
  CASE op = "add" -> Wrapped(x + y)
    [] op = "sub" -> Wrapped(x - y)
    [] op = "mult" -> Wrapped(x * y)
    [] op = "div" /\ y # 0 -> Wrapped(Quotient(x, y))
    [] op = "mod" /\ y # 0 -> x - y * Quotient(x, y)

\* bin_op_wrapper returns the unsigned result, which may exceed every OpValue.
BitsOf(op, x, y) ==
  LET both == BitAnd[Unsigned(x), Unsigned(y)]
      either == Unsigned(x) + Unsigned(y) - both
  IN CASE op = "and" -> both
       [] op = "or" -> either
       [] op = "xor" -> either - both
       [] op = "nand" -> Flipped(both)
       [] op = "nor" -> Flipped(either)

\* str_value_to_op_value finds an OpValue: no text, and no number out of range.
IsOpValue(s, k) == k \in DOMAIN s /\ s[k] \notin Text /\ s[k] \in -OpHalf..(OpHalf - 1)

\* op_wrapper: both operands are looked up, and must parse.
Operate(s, op, k, rhs) ==
  IF ~IsOpValue(s, k) \/ ~IsOpValue(s, rhs) THEN s
  ELSE Assign(s, k, IF op \in Arithmetic THEN Computed(op, s[k], s[rhs])
                    ELSE BitsOf(op, s[k], s[rhs]))

\* not_func turns its result back into an OpValue.
Complement(s, k) == IF IsOpValue(s, k) THEN Assign(s, k, -s[k] - 1) ELSE s

\* One command: only put, set and the operations change the state.
ApplyCmd(s, cmd) ==
  LET k == convert_key_to_int(cmd.key)
  IN CASE cmd.op \in {"put", "set"} -> Assign(s, k, cmd.value)
       [] cmd.op \in Arithmetic \cup BitOperations ->
            Operate(s, cmd.op, k, convert_key_to_int(cmd.value))
       [] cmd.op = "not" -> Complement(s, k)
       [] OTHER -> s

\* The id of a node is never set, so that a node is executed whatever is_txn says.
ApplyTxn(s, cmds) ==
  MapThenFoldSet(LAMBDA i, acc : ApplyCmd(acc, cmds[i]), s, LAMBDA i : i,
                 LAMBDA S : CHOOSE i \in S : \A j \in S : j <= i, DOMAIN cmds)

------------------------------------------------------------------------------
\* get_ready takes the front of the queue.
Pop(w) ==
  /\ ready_nodes # << >>
  /\ node' = [node EXCEPT ![w] = Head(ready_nodes)]
  /\ ready_nodes' = Tail(ready_nodes)
  /\ remaining_nodes' = remaining_nodes - 1
  /\ wpc' = [wpc EXCEPT ![w] = "run"]
  /\ UNCHANGED <<graph, edges, state, applied>>

\* Without a node it returns nullopt when none remains, and waits otherwise.
PopNothing(w) ==
  /\ ready_nodes = << >>
  /\ wpc' = [wpc EXCEPT ![w] = IF remaining_nodes = 0 THEN "done" ELSE "waiting"]
  /\ UNCHANGED <<graph, edges, ready_nodes, remaining_nodes, node, state, applied>>

\* get_ready, under ready_lock, entered or woken.
GetReady(w) ==
  /\ wpc[w] \in {"ready", "woken"}
  /\ Pop(w) \/ PopNothing(w)

\* A condition variable may also wake a waiter that nobody notified.
WakeSpuriously(w) ==
  /\ wpc[w] = "waiting"
  /\ wpc' = [wpc EXCEPT ![w] = "woken"]
  /\ UNCHANGED <<graph, edges, ready_nodes, remaining_nodes, node, state, applied>>

\* The worker applies the node and goes on to destroy it.
Execute(w) ==
  /\ wpc[w] = "run"
  /\ state' = ApplyTxn(state, graph[node[w]].cmds)
  /\ applied' = Append(applied, node[w])
  /\ wpc' = [wpc EXCEPT ![w] = "drop"]
  /\ UNCHANGED <<graph, edges, ready_nodes, remaining_nodes, node>>

\* The nodes that n still owns, and those it is the last to own.
Owned(n) == {m \in Nodes : <<n, m>> \in edges}
OwnedAlone(n) == {m \in Owned(n) : \A x \in Nodes : <<x, m>> \in edges => x = n}

\* Seeded bug: a node is ready when the first of its owners is gone.
OwnedAtAll(n) == {m \in Owned(n) : TRUE}

LastOwned(n) == OwnedAlone(n)

\* Seeded bug: add_to_ready does not notify.
NotifyNobody == {wpc}

\* notify_one: one waiter, if any, will look again.
Notified ==
  IF \A w \in Workers : wpc[w] # "waiting" THEN {wpc}
  ELSE {[wpc EXCEPT ![w] = "woken"] : w \in {v \in Workers : wpc[v] = "waiting"}}

\* The destructor of a node gives up one node after the other.  The last owner
\* destroys the node, which adds it to the ready queue.
ReleaseLast(w) ==
  /\ wpc[w] = "drop"
  /\ \E m \in LastOwned(node[w]) :
       /\ edges' = edges \ {<<node[w], m>>}
       /\ ready_nodes' = Append(ready_nodes, m)
       /\ wpc' \in Notified
  /\ UNCHANGED <<graph, remaining_nodes, node, state, applied>>

ReleaseShared(w) ==
  /\ wpc[w] = "drop"
  /\ \E m \in Owned(node[w]) \ LastOwned(node[w]) : edges' = edges \ {<<node[w], m>>}
  /\ UNCHANGED <<graph, ready_nodes, remaining_nodes, wpc, node, state, applied>>

\* It owns nothing any more: the worker asks for the next node.
Dropped(w) ==
  /\ wpc[w] = "drop"
  /\ Owned(node[w]) = {}
  /\ wpc' = [wpc EXCEPT ![w] = "ready"]
  /\ UNCHANGED <<graph, edges, ready_nodes, remaining_nodes, node, state, applied>>

Work(w) == GetReady(w) \/ Execute(w) \/ ReleaseLast(w) \/ ReleaseShared(w) \/ Dropped(w)

GraphNext == \E w \in Workers : Work(w) \/ WakeSpuriously(w)

GraphSpec == GraphInit /\ [][GraphNext]_graphVars /\ \A w \in Workers : WF_graphVars(Work(w))

------------------------------------------------------------------------------
Running(n) == \E w \in Workers : wpc[w] = "run" /\ node[w] = n

(* A transaction is ready, and applied, after all that it depends upon, and   *)
(* once only, whichever workers run the others and destroy them last.         *)
DependenciesFirst ==
  \A n \in Range(ready_nodes) \cup Range(applied) \cup {m \in Nodes : Running(m)} :
    graph[n].deps \subseteq Range(applied)

AppliedOnce ==
  \A i, j \in DOMAIN applied : applied[i] = applied[j] => i = j

(* Once a worker has begun, every transaction is applied, and two workers at  *)
(* least return from get_ready with nullopt, or the only one.  A third can    *)
(* sleep for ever: the last node notifies one waiter, and nobody notifies     *)
(* when the counter reaches 0.                                                *)
WorkIsDone ==
  remaining_nodes < Cardinality(Nodes) ~>
    /\ Range(applied) = Nodes
    /\ \/ Cardinality({w \in Workers : wpc[w] = "done"}) >= 2
       \/ \A w \in Workers : wpc[w] = "done"

==============================================================================
