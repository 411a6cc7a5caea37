SPECIFICATION FairSpec
CONSTANTS
  Master = Master
  s1 = s1
  s2 = s2
  s3 = s3
  Servers = {s1}
  Clients = {c1, c2}
  a = a
  b = b
  Values = {a}
  Keys <- EdgeKeys
  Empty = Empty
  None = None
  NoPort = NoPort
  Slots = 4
  FdLimit = 100
  MaxStarts = 3
  MaxCrashes = 2
  MaxKills = 1
  Ops <- EdgeOps
  Formed <- Nobody
PROPERTIES EveryClientExits AnsweredPutReported
