SPECIFICATION ServicesSpec
CONSTANTS
  Addresses = {a1, a2}
  Macs = {m1}
  Devices = {d1, d2}
  Guids = {g1, g2}
  Nothing = Nothing
  MaxFailures = 1
  Requests = {r1, r2}
  Ids = {i1, i2}
  Nobody = Nobody
  Limit = 1
  Minute = 8
  Jitter = 1
  MaxPool = 2
  Objects = {o1, o2}
  Callbacks = {c1, c2}
  Destinations = {h1}
  Unlisted = Unlisted
  KeyMod = 1
  TtlMod = 3
  StartTtl = {0, 2}
  MaxOverlaps = 1
  MaxLeaks = 1
  Lengths <- Around
  Mtu = 1500
  Version = 4
  Learned = {x1, x2}
  ActiveDevices = 2
INVARIANTS
  ServicesTypeOK
  TrackedIsTimed
  EveryFragmentIsPlaced
  Solicited
  ListedIsTicking
PROPERTIES
  DroppedByNamesake
  FreedWhenSpent
  ResolvedIsNotAsked
  RequestsEnd
  EchoWaitEnds
  SentIsFreed
  UpdatesGoOn
\* A datagram is cut up and no more: there is nothing left to do.
CHECK_DEADLOCK FALSE
