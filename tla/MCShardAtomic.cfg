SPECIFICATION Spec
CONSTANTS
  Master = Master
  s1 = s1
  s2 = s2
  s3 = s3
  Servers = {s1, s2}
  Clients = {c1, c2, c3}
  a = a
  b = b
  Values = {a, b}
  Keys <- TwoKeys
  Empty = Empty
  None = None
  NoPort = NoPort
  Slots = 4
  FdLimit = 6
  MaxStarts = 1
  MaxCrashes = 1
  MaxKills = 1
  Ops <- AtomicOps
  Formed <- Two
PROPERTIES ImplementsAtomicKV
CHECK_DEADLOCK FALSE
