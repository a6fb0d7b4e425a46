\* r1 may answer OK, answer something else, or never answer; r2 always ends
\* its output.  A router that never answers blocks the loop for good, so the
\* run stops there.
CONSTANTS
  r1 = r1
  r2 = r2
  r3 = r3
  Routers <- MC_Routers
  Computers = {"c1"}
  Paths <- MC_Paths
  InstalledEntries = {"c1:10000"}
  PortSuffix = ":10000"
  DryRun = FALSE
  PairOrder <- MC_PairOrder
  Unresponsive <- MC_Unresponsive

SPECIFICATION DispatchSpec

INVARIANT DispatchTypeOK
PROPERTY ImplementsUpdate
PROPERTY ResponsiveTickCompletes

CHECK_DEADLOCK FALSE
