\* Dry-run monitor and one applier per router; tail's window is scaled down
\* with the log bound, and the appliers are started while the window still
\* covers everything written.
CONSTANTS
  r1 = r1
  r2 = r2
  Routers <- MC_Routers
  Computers = {"c1"}
  Paths <- MC_Paths
  InstalledEntries = {"c1:10000"}
  PortSuffix = ":10000"
  DryRun = TRUE
  PairOrder <- MC_PairOrder
  TailLines = 2
  MaxLog = 4
  NotStarted = NotStarted
  NoReport = NoReport

SPECIFICATION PipeSpec

INVARIANT PipeTypeOK
PROPERTY AppliersConverge
