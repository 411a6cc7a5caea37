----------------------------- MODULE SmallParts -----------------------------
(* The programs and libraries of task0 and task1, each explored by itself: a  *)
(* behaviour is one of the unit that it began with, and the variables of the  *)
(* others never change.                                                       *)
EXTENDS KvStore, TxnResults, Framing, Counter, Bench

CONSTANT Units

VARIABLE unit

units == {"kv", "graph", "wire", "counter", "bench"}

ASSUME UnitAssumption == Units \subseteq units
\* What two of the theorems take for granted.
ASSUME TheoremsAssumption == MessagesFit /\ AcyclicGraphs

allVars == <<unit, kvVars, graphVars, wireVars, counterVars, benchVars>>

\* The units that are not explored begin in one state only.
Init ==
  /\ unit \in Units
  /\ KvInit /\ GraphInit /\ WireInit /\ CounterInit /\ BenchInit
  /\ unit # "graph" =>
       /\ graph = CHOOSE g \in Graphs : TRUE
       /\ ready_nodes = CHOOSE o \in Orders(Sources(graph)) : TRUE
  /\ unit # "bench" =>
       /\ SetupInit(CHOOSE s \in Setups : TRUE)
       /\ ~checked

KvUnit(A) ==
  unit = "kv" /\ A /\ UNCHANGED <<unit, graphVars, wireVars, counterVars, benchVars>>
GraphUnit(A) ==
  unit = "graph" /\ A /\ UNCHANGED <<unit, kvVars, wireVars, counterVars, benchVars>>
WireUnit(A) ==
  unit = "wire" /\ A /\ UNCHANGED <<unit, kvVars, graphVars, counterVars, benchVars>>
CounterUnit(A) ==
  unit = "counter" /\ A /\ UNCHANGED <<unit, kvVars, graphVars, wireVars, benchVars>>
BenchUnit(A) ==
  unit = "bench" /\ A /\ UNCHANGED <<unit, kvVars, graphVars, wireVars, counterVars>>

Next ==
  \/ KvUnit(KvNext) \/ GraphUnit(GraphNext) \/ WireUnit(WireNext)
  \/ CounterUnit(CounterNext) \/ BenchUnit(BenchNext)

Spec ==
  /\ Init /\ [][Next]_allVars
  /\ \A t \in Txs : WF_allVars(KvUnit(Continue(t)))
  /\ \A w \in Workers : WF_allVars(GraphUnit(Work(w)))
  /\ WF_allVars(WireUnit(Receiver))
  /\ WF_allVars(CounterUnit(Listen)) /\ WF_allVars(CounterUnit(Serve))
  /\ \A u \in Users : WF_allVars(CounterUnit(User(u)))
  /\ WF_allVars(BenchUnit(Acceptor)) /\ WF_allVars(BenchUnit(Join))
  /\ \A t \in Threads : WF_allVars(BenchUnit(Pool(t)))
  /\ \A c \in Peers : WF_allVars(BenchUnit(Client(c)))

=============================================================================
