\* A flood every tick, one in a row may be lost: 3 is the smallest flush interval.
\* Routers start and stop at any time.
CONSTANTS
  ra = ra
  rb = rb
  rc = rc
  net1 = net1
  Routers <- MCRouters
  Networks <- MCNetworks
  Local <- MCLocal
  Update = 1
  Flush = 3
  MaxLost = 1
SPECIFICATION NetFairSpec
INVARIANTS
  AdvertisedIsKnown
PROPERTIES
  EchoNeverDies
  RoutesSettle
