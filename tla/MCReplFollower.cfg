SPECIFICATION FairSpec
CONSTANTS
  N = 2
  Leader = 0
  Clients = {c1}
  a = a
  b = b
  Values = {a, b}
  Keys = {1}
  None = None
  Nobody = Nobody
  Slots = 11
  Ops <- AllOps
  FdLimit = 100
  MaxStarts = 1
  MaxCrashes = 0
  MaxKills = 0
  Formed = TRUE
PROPERTIES FollowerAnswers
