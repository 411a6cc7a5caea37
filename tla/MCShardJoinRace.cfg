SPECIFICATION Spec
CONSTANTS
  Master = Master
  s1 = s1
  s2 = s2
  s3 = s3
  Servers = {s1, s2, s3}
  Clients = {c1}
  a = a
  b = b
  Values = {a}
  Keys <- TwoKeys
  Empty = Empty
  None = None
  NoPort = NoPort
  Slots = 4
  FdLimit = 100
  MaxStarts = 1
  MaxCrashes = 0
  MaxKills = 0
  Ops <- RebalanceOps
  Formed <- Two
INVARIANTS MasterStays
