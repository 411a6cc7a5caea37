SPECIFICATION FairSpec
CONSTANTS
  N = 3
  Leader = 0
  Clients = {c1, c2}
  a = a
  b = b
  Values = {a, b}
  Keys = {1}
  None = None
  Nobody = Nobody
  Slots = 11
  Ops <- OneWrite
  FdLimit = 7
  MaxStarts = 2
  MaxCrashes = 1
  MaxKills = 0
  Formed = TRUE
PROPERTIES MeshForms LeaderAnswers AckedReplicated
CHECK_DEADLOCK FALSE
