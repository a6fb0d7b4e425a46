\* The monitor driving the routers itself (no --dry_run), with a hand-written
\* configuration naming computers by IP address and listing switch s1 only;
\* any command may fail.  The port of s1 towards the transit switch s2 carries
\* no affected path: congesting it kills the monitor (KeyError), after which
\* nothing runs any more, hence no deadlock check.
CONSTANTS
  r1 = r1
  r2 = r2
  Hosts <- MC_Hosts
  Switches <- MC_SwitchesLeaf
  TopoLinks <- MC_TopoLinksLeaf
  KeyOrder <- MC_KeyOrderLeaf
  LambdaPortSuffix = ":10000"
  NoNode = NoNode
  Routers <- MC_Routers
  Computers <- MC_IPComputers
  Paths <- MC_Paths
  InstalledEntries <- MC_InstalledEntries
  PortSuffix = ":10000"
  DryRun = FALSE
  MonitoredLinks <- MC_MonitoredLinksS1
  MaxCount = 2
  ThresholdBps = 7
  Interval = 1
  NoSample = NoSample
  HostOf <- MC_HostOf

SYMMETRY RouterSymmetry

INIT MonitorInit
NEXT MonitorNext

INVARIANT TypeOK
 
PROPERTY Idempotence
PROPERTY ImplementsReaction
INVARIANT DivergesOnlyWhereLastFailed
CHECK_DEADLOCK FALSE
