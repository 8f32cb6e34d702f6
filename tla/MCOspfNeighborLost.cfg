SPECIFICATION ViewsSpec
CONSTANTS
  n1 = n1
  o1 = o1
  o2 = o2
  c1 = c1
  c2 = c2
  Neighbors <- MCNeighbors
  Options <- MCOptions
  OwnOptions <- MCOwnOptions
  SeqMod = 4
  Ticks = {0, 1, 2, 3}
  HelloClaims <- MCClaims
  DbSize = 1
  Broadcast = TRUE
  RxmtInterval = 5
  DeadInterval = 40
  Callbacks <- MCCallbacks
  MaxDbds = 3
  OwnerEvents = {"AdjOK", "KillNbr", "LLDown"}
PROPERTIES
  LostGoesBack
