SPECIFICATION IHelloSpec
CONSTANTS
  a = a
  b = b
  c = c
  zero = zero
  Routers = {a, b}
  NoAddress = zero
  RouterID <- MCRouterID2
  MaxRouterID = 3
  RidIsAddress = {}
  Eligible = {a, b}
  Broadcast = FALSE
  DeadInterval = 40
  MaxHalf = 2
  Flapping = {a}
PROPERTIES
  PointToPointStarts
