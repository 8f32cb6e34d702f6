SPECIFICATION ASpec
CONSTANTS
  a = a
  b = b
  o1 = o1
  Neighbors <- MCNeighbors
  Peer <- MCPeer
  Options = {o1}
  OwnOptions <- MCOwnOptions
  SeqMod = 16
  Ticks = {0, 1}
  HelloClaims <- MCClaims
  DbSize = 1
  Broadcast = TRUE
  RxmtInterval = 5
  DeadInterval = 40
  OwnerEvents = {}
  ChanCap = 2
  MaxSeq = 3
  MaxRestarts = 2
INVARIANTS
  OnlyLeftoversComplete
