SPECIFICATION IWaitSpec
CONSTANTS
  a = a
  b = b
  c = c
  zero = zero
  Routers = {a, b}
  NoAddress = zero
  RouterID <- MCRouterID2
  MaxRouterID = 3
  RidIsAddress = {a, b}
  Eligible = {a}
  Broadcast = TRUE
  DeadInterval = 40
  MaxHalf = 1
  Flapping = {b}
PROPERTIES
  WaitEnds
