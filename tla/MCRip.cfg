\* Every interleaving of the packet thread with the timers of two objects; an
\* invalid interval shorter than the flush interval, so that routes do become
\* unreachable.  The views divide what the bounds allow: either advertisements
\* differ in metric, mask and next hop, or a second is late.
CONSTANTS
  net1 = net1
  r1 = r1
  r2 = r2
  c1 = c1
  c2 = c2
  None = None
  Networks <- MCNetworks
  Routes <- MCTwoRoutes
  Callbacks <- MCCallbacks
  MaxLate = 1
  MaskBits = {16, 24}
  Metrics = {1, 2}
  Flush = 2
  Invalid = 1
  Holddown = 1
  Unreachable = 16
SPECIFICATION ViewsSpec
INVARIANTS
  RibAgreesAtRest
  RibEntryExpires
PROPERTIES
  KeptWhileSighted
  WorseMetricIsHeldDown
\* A packet that meets the removal of its route ends the process.
CHECK_DEADLOCK FALSE
