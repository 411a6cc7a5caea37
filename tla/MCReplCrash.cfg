SPECIFICATION Spec
CONSTANTS
  N = 3
  Leader = 0
  Clients = {c1, c2}
  a = a
  b = b
  Values = {a, b}
  Keys = {1}
  None = None
  Nobody = Nobody
  Slots = 11
  Ops <- LeaderOps
  FdLimit = 9
  MaxStarts = 2
  MaxCrashes = 1
  MaxKills = 1
  Formed = TRUE
INVARIANTS InOrder AckedDelivered ReplicasAgree
PROPERTIES ImplementsAtomicKV
CHECK_DEADLOCK FALSE
