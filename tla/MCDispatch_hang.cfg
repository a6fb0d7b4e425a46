\* A router that may never answer a command.
CONSTANTS
  r1 = r1
  r2 = r2
  r3 = r3
  Routers <- MC_Routers
  Computers = {"c1"}
  Paths <- MC_Paths
  InstalledEntries = {"c1:10000"}
  PortSuffix = ":10000"
  DryRun = FALSE
  PairOrder <- MC_PairOrder
  Unresponsive <- MC_Unresponsive

SPECIFICATION DispatchSpec

PROPERTY TickCompletes


CHECK_DEADLOCK FALSE
