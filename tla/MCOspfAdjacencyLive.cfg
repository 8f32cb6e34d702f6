SPECIFICATION AFairSpec
CONSTANTS
  a = a
  b = b
  o1 = o1
  Neighbors <- MCNeighbors
  Peer <- MCPeer
  Options = {o1}
  OwnOptions <- MCOwnOptions
  SeqMod = 4
  Ticks = {0, 1}
  HelloClaims <- MCClaims
  DbSize = 1
  Broadcast = FALSE
  RxmtInterval = 5
  DeadInterval = 60
  OwnerEvents = {}
  ChanCap = 1
  MaxSeq = 3
  MaxRestarts = 0
PROPERTIES
  ExchangeFallsBack
