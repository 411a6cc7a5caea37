SPECIFICATION Spec
CONSTANTS
  Units = {"kv", "graph", "wire", "counter", "bench"}
  x1 = x1
  x2 = x2
  Txs = {x1, x2}
  Keys = {1, 2}
  None = None
  MaxCalls <- Calls
  Nodes = {1, 2, 3, 4}
  Graphs <- FourNodes
  Workers = {w1, w2, w3}
  txt = txt
  Text = {txt}
  OpHalf = 16
  Base = 2
  length_size_field = 2
  Messages <- ShortMessages
  max_retries = 1
  MaxFrames = 2
  u1 = u1
  u2 = u2
  u3 = u3
  Users = {u1, u2, u3}
  Workload <- Workloads
  NoUser = NoUser
  Backlog = 2
  Half = 4
  MaxKilled = 1
  Peers = {0, 1, 2}
  t1 = t1
  t2 = t2
  Threads = {t1, t2}
  Setups <- BenchSetups
  TraceKeys = {0, 7}
  Nobody = Nobody
  NoValue = NoValue
  NoNode = NoNode
  Slots = 1
  PoolSize = 4
INVARIANTS ReadLocksExclusive NoPartialCommit DeadlockNeedsCommit
  DependenciesFirst AppliedOnce ResultsComplete FinalStateListed AnswersAreSums
  ConnectionInOnePlace ListShape OneOutstanding CrashNeedsRace
PROPERTIES CallsReturn WorkIsDone ChannelRefined MessagesArrive EndNoticed ClientsAnswered
  BenchEnds ConnectedFinish
CHECK_DEADLOCK FALSE
