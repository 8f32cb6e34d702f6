SPECIFICATION MachineSpec
CONSTANTS
  Modules = {ospf, icmp}
  Active = {ospf}
  CaptureDevices = {e1, e2}
  MaxDisables = 2
  Traffic <- AllTraffic
  RouterSets <- Configurations
  Ids = {"e1", "e2", "e9", "t", "0", "4"}
  Setups <- Machines
INVARIANT
  RipNetworksServe
CHECK_DEADLOCK FALSE
