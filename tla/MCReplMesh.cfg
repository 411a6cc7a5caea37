SPECIFICATION Spec
CONSTANTS
  N = 3
  Leader = 0
  Clients = {c1, c2}
  a = a
  b = b
  Values = {a, b}
  Keys = {1}
  None = None
  Nobody = Nobody
  Slots = 11
  Ops <- MeshOps
  FdLimit = 100
  MaxStarts = 1
  MaxCrashes = 0
  MaxKills = 0
  Formed = FALSE
INVARIANTS TypeOK InOrder AckedDelivered ReplicasAgree
SYMMETRY Symmetry
