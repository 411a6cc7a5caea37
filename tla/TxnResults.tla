----------------------------- MODULE TxnResults -----------------------------
(* get_possible_results: the final states of all the orders in which the      *)
(* transactions of a graph can be executed, as the verifier of a trace lists  *)
(* them.  It consumes deep copies of the graph that workers consume.          *)
EXTENDS TxnGraph, SequencesExt

\* What becomes ready when node n is destroyed while the graph owns by own.
Woken(own, n) ==
  SetToSeq({m \in Nodes : <<n, m>> \in own /\ \A x \in Nodes : <<x, m>> \in own => x = n})

Destroyed(own, n) == {e \in own : e[1] # n}

\* Seeded bug: the last of several ready nodes is never taken first.
AllButLast(ready) == {i \in DOMAIN ready : i < Len(ready)}

\* With several ready nodes, each is taken first, from a deep copy of the graph.
TakenFirst(ready) == DOMAIN ready

\* A call of get_possible_results has a state and a copy of the graph: what is
\* ready, and what is owned.  It applies the i-th ready node and destroys it.
Taken(g, call, i) ==
  LET n == call.ready[i]
  IN [state |-> ApplyTxn(call.state, g[n].cmds),
      ready |-> RemoveAt(call.ready, i) \o Woken(call.own, n),
      own   |-> Destroyed(call.own, n)]

\* The calls that it makes.  With nothing ready it makes none: its state is the
\* one result, and it stands for itself.
CallsOf(g, call) ==
  CASE Len(call.ready) = 0 -> <<call>>
    [] Len(call.ready) = 1 -> <<Taken(g, call, 1)>>
    [] OTHER -> [i \in TakenFirst(call.ready) |-> Taken(g, call, i)]

FirstCall(g) == [state |-> << >>, ready |-> SetToSeq(Sources(g)), own |-> Edges(g)]

\* All calls of one depth of the recursion, in the order in which their results
\* are concatenated.
Inner(g, calls) == FlattenSeq([i \in DOMAIN calls |-> CallsOf(g, calls[i])])

\* get_possible_results of a graph that nobody has consumed yet.  A call consumes
\* one node, so that at the depth of all nodes nothing is left to be called.
get_possible_results(g) ==
  LET calls[depth \in 0..Cardinality(Nodes)] ==
        IF depth = 0 THEN <<FirstCall(g)>> ELSE Inner(g, calls[depth - 1])
      last == calls[Cardinality(Nodes)]
  IN [i \in DOMAIN last |-> last[i].state]

------------------------------------------------------------------------------
\* The serial orders that respect every depends_on, and where they lead.
SerialOrders(g) ==
  {o \in Orders(Nodes) : \A i, j \in DOMAIN o : o[i] \in g[o[j]].deps => i < j}

Outcome(g, o) ==
  LET after[i \in 0..Len(o)] ==
        IF i = 0 THEN << >> ELSE ApplyTxn(after[i - 1], g[o[i]].cmds)
  IN after[Len(o)]

\* The transactions of a trace do not wait for each other in a circle.
Acyclic(g) == \A S \in SUBSET Nodes : S # {} => \E n \in S : g[n].deps \cap S = {}
AcyclicGraphs == \A g \in Graphs : Acyclic(g)

(* The recursion over copies of the graph lists the outcome of every order    *)
(* that respects the dependencies, and each order once.  (Stated where a      *)
(* worker has taken the first transaction: it is about the graph alone.)      *)
ResultsComplete ==
  (applied = << >> /\ \E n \in Nodes : Running(n)) =>
    LET results == get_possible_results(graph)
    IN /\ Range(results) = {Outcome(graph, o) : o \in SerialOrders(graph)}
       /\ Len(results) = Cardinality(SerialOrders(graph))

(* Whatever the workers did, the state they end in is one of those that the   *)
(* verifier accepts.                                                          *)
FinalStateListed ==
  Range(applied) = Nodes => state \in Range(get_possible_results(graph))

==============================================================================
