SPECIFICATION MachineSpec
CONSTANTS
  Modules = {ospf, icmp}
  Active = {ospf}
  CaptureDevices = {e1, e2}
  MaxDisables = 2
  Traffic <- AllTraffic
  RouterSets <- Configurations
  Ids = {"e1", "e2", "e9", "t", "0", "4"}
  Setups <- Machines
INVARIANTS
  EarlyDisableIsLost
  HandlesOutliveTheirUse
  OnlyTheseThrow
  ReadsWhereItLies
  HeadersReachTheSubscriber
  BuiltIsParsed
  MostSpecificWins
  OpensItsAdapter
  ScriptAgrees
PROPERTIES
  DisableTakesEffect
  EveryFrameIsLetGo
\* The process has ended, or the controller has returned and every loop is
\* over: there is nothing left to do.
CHECK_DEADLOCK FALSE
